---------------------------- MODULE Feeds_proofs ----------------------------
(***************************************************************************)
(* Theorems about what the deployment reads GMGN's lists for: the RECEIVED *)
(* detector, for any number of overlapping cycles, mints, followers and    *)
(* failures, and the trending cache, for any requests, number of chains,   *)
(* TTLs and crashes; about the view made of a trending row, for any        *)
(* numbers it holds; about the observations harvested from the top         *)
(* traders, for any ranking, batch, interval and rows; about the detector  *)
(* of linked wallets and about timeline, replay and outcome, for anything  *)
(* that comes in.                                                          *)
(***************************************************************************)
EXTENDS FounderTick, TrendingFeed, WarIndices, PerfDataset, History, Coordination,
        FiniteSetTheorems, TLAPS

---------------------------------------------------------------------------
(* The RECEIVED detector.  That a transfer is broadcast once rests on the  *)
(* insert into the events: the cycle whose insert was new is the only one  *)
(* to broadcast it (Apart), and what was broadcast is in the table for     *)
(* good.  That none is forgotten rests on where a new mint can be: with    *)
(* the cycle that found it new, through all its phases (Placed), recorded, *)
(* and then broadcast or with the cycle that recorded it (Heard), or out   *)
(* of the look-up's reach, which is noted when it happens (BuriedNoted).   *)

Places == {"idle", "list", "read", "upsert", "inbound", "next", "verify", "record",
           "broadcast", "end"}

FounderTypeOK ==
    /\ direct \in BOOLEAN
    /\ holds \subseteq Mints
    /\ receipts \in [Mints -> 0..MaxReceipts]
    /\ later \in [Mints -> 0..Window]
    /\ obscured \subseteq Mints \cup {NoMint}
    /\ told \in [Fans \X Transfers -> Nat]
    /\ fpc \in [Slots -> Places]
    /\ listed \in [Slots -> SUBSET Mints]
    /\ existing \in [Slots -> SUBSET Mints]
    /\ left \in [Slots -> SUBSET Mints]
    /\ inbound \in [Slots -> SUBSET Transfers]
    /\ mint \in [Slots -> Mints \cup {NoMint}]
    /\ tx \in [Slots -> 0..MaxReceipts]
    /\ known \subseteq Mints
    /\ mishaps \in Nat

\* What came into the wallet is there or was sold.
Came(m) == m \in holds \cup sold /\ receipts[m] > 0

\* What a cycle that is at one transfer knows of it.
AtTransfer(c) ==
    /\ fpc[c] \in {"verify", "record", "broadcast"} => mint[c] \in left[c]
    /\ fpc[c] \in {"record", "broadcast"} => tx[c] \in 1..MaxReceipts
    /\ fpc[c] = "broadcast" => Event(c) \in events \ aired

\* Two cycles never broadcast one transfer.
Apart(c, d) == fpc[c] = "broadcast" /\ fpc[d] = "broadcast" => Event(c) # Event(d)

\* A message is sent with the broadcast of its transfer and no other.
SentOnce(x) == told[x] <= 1 /\ (x[2] \notin aired => told[x] = 0)

OnceInv ==
    /\ FounderTypeOK
    /\ \A c \in Slots : AtTransfer(c)
    /\ \A c, d \in Slots : c # d => Apart(c, d)
    /\ aired \subseteq events
    /\ \A x \in Fans \X Transfers : SentOnce(x)

\* What a cycle has listed, and has before it, came into the wallet.
Sourced(c) == \A m \in listed[c] \cup left[c] : Came(m)

\* Where the provider names transfers, it named one of each mint that is left
\* and that is not behind too many later ones.
Named(c) ==
    direct /\ fpc[c] \in {"next", "record", "broadcast"} =>
        \A m \in left[c] \ obscured : \E n \in 1..MaxReceipts : <<m, n>> \in inbound[c]

Placed(c) ==
    /\ existing[c] \subseteq known
    /\ fpc[c] = "upsert" => left[c] \subseteq listed[c]
    /\ direct => fpc[c] # "verify"
    /\ mishaps = 0 => Named(c)

\* A recorded transfer was broadcast, or is about to be.
Heard(e) == e \in aired \/ \E c \in Slots : fpc[c] = "broadcast" /\ Event(c) = e

\* A cycle that has a new mint before it.
HasMint(c, m) ==
    \/ fpc[c] = "upsert" /\ existing[c] # {} /\ m \in listed[c] \ existing[c]
    \/ fpc[c] \in {"inbound", "next", "verify", "record", "broadcast"} /\ m \in left[c]

\* NoneForgotten for one mint.
Kept(m) == (\E n \in 1..MaxReceipts : <<m, n>> \in aired) \/ InHand(m)

NoneInv ==
    /\ OnceInv
    /\ \A m \in holds : Came(m)
    /\ Buried \subseteq obscured
    /\ \A c \in Slots : Sourced(c) /\ Placed(c)
    /\ mishaps = 0 => \A e \in events : Heard(e)
    /\ NoneForgotten

---------------------------------------------------------------------------
(* Types *)

LEMMA FounderInitTyped == FounderInit => FounderTypeOK
  <1> SUFFICES ASSUME FounderInit PROVE FounderTypeOK
    OBVIOUS
  <1>1. receipts \in [Mints -> 0..MaxReceipts] /\ obscured \subseteq Mints
    BY FounderAssumption DEF FounderInit, Buried
  <1>2. fpc \in [Slots -> Places] /\ tx \in [Slots -> 0..MaxReceipts]
    BY FounderAssumption DEF FounderInit, Places
  <1>3. told \in [Fans \X Transfers -> Nat]
    BY DEF FounderInit
  <1> QED
    BY <1>1, <1>2, <1>3, FounderAssumption DEF FounderInit, FounderTypeOK

LEMMA FounderStepTyped ==
  ASSUME FounderTypeOK, NEW c \in Slots, FounderStep(c)
  PROVE  FounderTypeOK'
  <1>1. CASE List(c) \/ ReadKnown(c)
    BY <1>1 DEF List, ReadKnown, Step, Mishap, FounderTypeOK, Places, Around,
                walletVars, founderRows
  <1>2. CASE Upsert(c)
    <2>1. NewMints(c) \subseteq Mints
      BY DEF NewMints, FounderTypeOK
    <2>2. left' \in [Slots -> SUBSET Mints] /\ known' \subseteq Mints
      BY <1>2, <2>1 DEF Upsert, FounderTypeOK
    <2>3. fpc' \in [Slots -> Places]
      BY <1>2 DEF Upsert, FounderTypeOK, Places
    <2>4. listed' \in [Slots -> SUBSET Mints] /\ existing' \in [Slots -> SUBSET Mints]
      BY <1>2 DEF Upsert, FounderTypeOK
    <2>5. UNCHANGED <<direct, holds, receipts, later, obscured, told, inbound, mint, tx, mishaps>>
      BY <1>2 DEF Upsert, Around, walletVars
    <2> QED
      BY <2>2, <2>3, <2>4, <2>5 DEF FounderTypeOK
  <1>3. CASE Inbound(c)
    <2>1. {Newest(m) : m \in {x \in Mints : receipts[x] > 0} \ Buried} \subseteq Transfers
      BY FounderAssumption DEF Newest, Transfers, FounderTypeOK
    <2>2. inbound' \in [Slots -> SUBSET Transfers]
      BY <1>3, <2>1 DEF Inbound, FounderTypeOK
    <2>3. fpc' \in [Slots -> Places] /\ mishaps' \in Nat
      BY <1>3 DEF Inbound, FounderTypeOK, Places, Mishap
    <2> QED
      BY <1>3, <2>2, <2>3 DEF Inbound, FounderTypeOK, Around, walletVars, founderRows
  <1>4. CASE TakeMint(c)
    <2>1. PICK m \in left[c] :
            \/ /\ mint' = [mint EXCEPT ![c] = m]
               /\ fpc' = [fpc EXCEPT ![c] = "verify"]
               /\ UNCHANGED <<left, tx>>
            \/ /\ \E n \in 1..MaxReceipts : <<m, n>> \in inbound[c]
               /\ mint' = [mint EXCEPT ![c] = m]
               /\ tx' = [tx EXCEPT ![c] =
                            CHOOSE n \in 1..MaxReceipts : <<m, n>> \in inbound[c]]
               /\ fpc' = [fpc EXCEPT ![c] = "record"]
               /\ UNCHANGED left
            \/ NextMint(c, left[c] \ {m})
      BY <1>4 DEF TakeMint
    <2>2. m \in Mints /\ 1..MaxReceipts \subseteq 0..MaxReceipts /\ 0 \in 0..MaxReceipts
      BY FounderAssumption DEF FounderTypeOK
    <2>3. fpc' \in [Slots -> Places] /\ left' \in [Slots -> SUBSET Mints]
      BY <2>1, <2>2 DEF FounderTypeOK, Places, NextMint
    <2>4. mint' \in [Slots -> Mints \cup {NoMint}]
      BY <2>1, <2>2 DEF FounderTypeOK, NextMint
    <2>5. tx' \in [Slots -> 0..MaxReceipts]
      <3> DEFINE n0 == CHOOSE n \in 1..MaxReceipts : <<m, n>> \in inbound[c]
      <3>1. (\E n \in 1..MaxReceipts : <<m, n>> \in inbound[c]) => n0 \in 1..MaxReceipts
        OBVIOUS
      <3>2. \/ tx' = tx \/ tx' = [tx EXCEPT ![c] = 0]
            \/ tx' = [tx EXCEPT ![c] = n0] /\ n0 \in 1..MaxReceipts
        BY <2>1, <3>1 DEF NextMint
      <3> HIDE DEF n0
      <3> QED
        BY <2>2, <3>2 DEF FounderTypeOK
    <2> QED
      BY <1>4, <2>3, <2>4, <2>5 DEF TakeMint, FounderTypeOK, Around, walletVars, founderRows
  <1>5. CASE Verify(c)
    <2>1. mint[c] \in Mints => receipts[mint[c]] \in 0..MaxReceipts
      BY DEF FounderTypeOK
    <2>2. 0 \in 0..MaxReceipts
      BY FounderAssumption
    <2>3. tx' \in [Slots -> 0..MaxReceipts]
      BY <1>5, <2>1, <2>2, FounderAssumption DEF Verify, NextMint, Arrived, FounderTypeOK
    <2>4. left' \in [Slots -> SUBSET Mints] /\ fpc' \in [Slots -> Places]
      BY <1>5 DEF Verify, NextMint, Places, FounderTypeOK
    <2>6. mint' \in [Slots -> Mints \cup {NoMint}] /\ mishaps' \in Nat
      BY <1>5 DEF Verify, NextMint, Mishap, FounderTypeOK
    <2>5. obscured' \subseteq Mints \cup {NoMint}
      BY <1>5 DEF Verify, FounderTypeOK
    <2> QED
      BY <1>5, <2>3, <2>4, <2>5, <2>6
         DEF Verify, FounderTypeOK, Around, walletVars, founderRows
  <1>6. CASE RecordEvent(c) \/ Broadcast(c)
    <2>1. 0 \in 0..MaxReceipts
      BY FounderAssumption
    <2>2. /\ left' \in [Slots -> SUBSET Mints] /\ fpc' \in [Slots -> Places]
          /\ mint' \in [Slots -> Mints \cup {NoMint}] /\ tx' \in [Slots -> 0..MaxReceipts]
          /\ mishaps' \in Nat
      BY <1>6, <2>1 DEF RecordEvent, Broadcast, NextMint, Mishap, Places, FounderTypeOK
    <2>3. told' \in [Fans \X Transfers -> Nat]
      BY <1>6 DEF RecordEvent, Broadcast, Announce, FounderTypeOK
    <2> QED
      BY <1>6, <2>2, <2>3 DEF RecordEvent, Broadcast, FounderTypeOK, Around, walletVars
  <1> QED
    BY <1>1, <1>2, <1>3, <1>4, <1>5, <1>6 DEF FounderStep

LEMMA FounderTyped ==
  FounderTypeOK /\ [FounderNext]_founderVars => FounderTypeOK'
  <1> SUFFICES ASSUME FounderTypeOK, [FounderNext]_founderVars PROVE FounderTypeOK'
    OBVIOUS
  <1>0. 0 \in 0..MaxReceipts
    BY FounderAssumption
  <1>1. CASE FounderWorld
    <2>1. ASSUME NEW m \in Mints, Receive(m) PROVE FounderTypeOK'
      <3>1. receipts' \in [Mints -> 0..MaxReceipts] /\ holds' \subseteq Mints
        <4>1. receipts \in [Mints -> 0..MaxReceipts] /\ holds \subseteq Mints
          BY DEF FounderTypeOK
        <4>2. /\ receipts[m] < MaxReceipts /\ holds' = holds \cup {m}
              /\ receipts' = [receipts EXCEPT ![m] = @ + 1]
          BY <2>1 DEF Receive
        <4>3. receipts[m] + 1 \in 0..MaxReceipts
          BY <4>1, <4>2, FounderAssumption
        <4> QED
          BY <4>1, <4>2, <4>3
      <3>2. \A x \in Mints : Later(m, x) \in 0..Window
        <4>1. \A x \in Mints : later[x] \in 0..Window
          BY DEF FounderTypeOK
        <4> QED
          BY <4>1, FounderAssumption DEF Later
      <3>3. later' \in [Mints -> 0..Window]
        BY <2>1, <3>2 DEF Receive
      <3>4. Buried' \subseteq Mints
        BY DEF Buried
      <3>5. obscured' \subseteq Mints \cup {NoMint}
        BY <2>1, <3>4 DEF Receive, FounderTypeOK
      <3> QED
        BY <2>1, <3>1, <3>3, <3>5 DEF Receive, FounderTypeOK, founderRows, founderCycle
    <2>2. ASSUME NEW m \in Mints, Sell(m) PROVE FounderTypeOK'
      BY <2>2 DEF Sell, FounderTypeOK, founderRows, founderCycle
    <2>3. ASSUME NEW u \in Fans, Follow(u) PROVE FounderTypeOK'
      BY <2>3 DEF Follow, FounderTypeOK, walletVars, founderCycle
    <2>4. ASSUME NEW u \in Fans, Unfollow(u) PROVE FounderTypeOK'
      BY <2>4 DEF Unfollow, FounderTypeOK, walletVars, founderCycle
    <2> QED
      BY <1>1, <2>1, <2>2, <2>3, <2>4 DEF FounderWorld
  <1>2. ASSUME NEW c \in Slots, FounderStep(c) PROVE FounderTypeOK'
    BY <1>2, FounderStepTyped
  <1>3. ASSUME NEW c \in Slots, BeginFounder(c) \/ EndCycle(c) PROVE FounderTypeOK'
    <2>1. CASE BeginFounder(c)
      BY <2>1 DEF BeginFounder, Step, FounderTypeOK, Places, walletVars, founderRows
    <2>2. CASE EndCycle(c)
      BY <1>0, <2>2 DEF EndCycle, Step, FounderTypeOK, Places, Around, walletVars, founderRows
    <2> QED
      BY <1>3, <2>1, <2>2
  <1>4. ASSUME NEW c \in Slots, SnapshotThrows(c) PROVE FounderTypeOK'
    <2>1. known' \subseteq Mints
      BY <1>4 DEF SnapshotThrows, FounderTypeOK
    <2> QED
      BY <1>4, <2>1 DEF SnapshotThrows, Mishap, FounderTypeOK, Places, Around, walletVars
  <1>5. ASSUME NEW c \in Slots, MintThrows(c) PROVE FounderTypeOK'
    BY <1>0, <1>5 DEF MintThrows, NextMint, Mishap, FounderTypeOK, Places, Around, walletVars
  <1>6. CASE Crash
    BY <1>0, <1>6 DEF Crash, Mishap, FounderTypeOK, Places, walletVars, founderRows
  <1>7. CASE UNCHANGED founderVars
    BY <1>7 DEF founderVars, FounderTypeOK
  <1> QED
    BY <1>1, <1>2, <1>3, <1>4, <1>5, <1>6, <1>7 DEF FounderNext

---------------------------------------------------------------------------
(* A transfer is broadcast once *)

\* A cycle that stays where it is keeps its transfer.
LEMMA StaysAt ==
  ASSUME NEW c \in Slots, AtTransfer(c), events \subseteq events', aired' = aired,
         fpc'[c] = fpc[c], left'[c] = left[c], mint'[c] = mint[c], tx'[c] = tx[c]
  PROVE  AtTransfer(c)'
  BY DEF AtTransfer, Event

\* A cycle that is at no transfer knows of none.
LEMMA AtNone ==
  ASSUME NEW c \in Slots, fpc'[c] \notin {"verify", "record", "broadcast"}
  PROVE  AtTransfer(c)'
  BY DEF AtTransfer

\* A step in which nobody comes to broadcast and nothing is broadcast.
LEMMA QuietOnce ==
  ASSUME OnceInv, FounderTypeOK', UNCHANGED <<aired, told>>, events \subseteq events',
         \A c \in Slots : AtTransfer(c)',
         \A c \in Slots : fpc'[c] = "broadcast" =>
             fpc[c] = "broadcast" /\ mint'[c] = mint[c] /\ tx'[c] = tx[c]
  PROVE  OnceInv'
  <1>1. \A c, d \in Slots : c # d => Apart(c, d)'
    BY DEF OnceInv, Apart, Event
  <1>2. \A x \in Fans \X Transfers : SentOnce(x)'
    BY DEF OnceInv, SentOnce
  <1> QED
    BY <1>1, <1>2 DEF OnceInv

\* A step of one cycle that does not come to broadcast.
LEMMA CycleQuiet ==
  ASSUME OnceInv, FounderTypeOK', NEW c \in Slots, UNCHANGED <<aired, told>>,
         events \subseteq events', AtTransfer(c)', fpc'[c] # "broadcast",
         \A d \in Slots : d # c => /\ fpc'[d] = fpc[d] /\ left'[d] = left[d]
                                   /\ mint'[d] = mint[d] /\ tx'[d] = tx[d]
  PROVE  OnceInv'
  <1>1. \A d \in Slots : AtTransfer(d)'
    <2> SUFFICES ASSUME NEW d \in Slots, d # c PROVE AtTransfer(d)'
      OBVIOUS
    <2>1. AtTransfer(d)
      BY DEF OnceInv
    <2> QED
      BY <2>1, StaysAt
  <1> QED
    BY <1>1, QuietOnce

LEMMA RecordOnce ==
  ASSUME OnceInv, FounderTypeOK', NEW c \in Slots, RecordEvent(c)
  PROVE  OnceInv'
  <1>1. /\ fpc[c] = "record" /\ events' = events \cup {Event(c)}
        /\ UNCHANGED <<aired, told>>
        /\ \A d \in Slots : d # c => /\ fpc'[d] = fpc[d] /\ left'[d] = left[d]
                                     /\ mint'[d] = mint[d] /\ tx'[d] = tx[d]
    BY DEF RecordEvent, NextMint, OnceInv, FounderTypeOK
  <1>2. CASE ~IsNew(Event(c))
    <2>1. fpc'[c] \in {"end", "next"}
      BY <1>1, <1>2 DEF RecordEvent, NextMint, OnceInv, FounderTypeOK
    <2>2. AtTransfer(c)'
      BY <2>1, AtNone
    <2> QED
      BY <1>1, <2>1, <2>2, CycleQuiet
  <1>3. CASE IsNew(Event(c))
    <2>1. fpc'[c] = "broadcast" /\ UNCHANGED <<left, mint, tx>>
      BY <1>3 DEF RecordEvent, OnceInv, FounderTypeOK
    <2>2. Event(c) \notin events /\ \A d \in Slots : Event(d)' = Event(d)
      BY <1>3, <2>1 DEF IsNew, Event
    <2>3. \A d \in Slots : AtTransfer(d)'
      <3> SUFFICES ASSUME NEW d \in Slots PROVE AtTransfer(d)'
        OBVIOUS
      <3>1. AtTransfer(d) /\ aired \subseteq events
        BY DEF OnceInv
      <3>2. CASE d # c
        BY <1>1, <3>1, <3>2, StaysAt
      <3>3. CASE d = c
        BY <1>1, <2>1, <2>2, <3>1, <3>3 DEF AtTransfer
      <3> QED
        BY <3>2, <3>3
    <2>4. \A d \in Slots : d # c /\ fpc[d] = "broadcast" => Event(d) # Event(c)
      BY <2>2 DEF OnceInv, AtTransfer
    <2>5. ASSUME NEW a \in Slots, NEW b \in Slots, a # b PROVE Apart(a, b)'
      BY <1>1, <2>1, <2>2, <2>4, <2>5 DEF OnceInv, Apart
    <2>6. \A x \in Fans \X Transfers : SentOnce(x)'
      BY <1>1 DEF OnceInv, SentOnce
    <2> QED
      BY <1>1, <2>3, <2>5, <2>6 DEF OnceInv
  <1> QED
    BY <1>2, <1>3

LEMMA BroadcastOnce ==
  ASSUME OnceInv, FounderTypeOK', NEW c \in Slots, Broadcast(c)
  PROVE  OnceInv'
  <1>1. /\ fpc[c] = "broadcast" /\ events' = events /\ aired' = aired \cup {Event(c)}
        /\ fpc'[c] \in {"end", "next"}
        /\ \A d \in Slots : d # c => /\ fpc'[d] = fpc[d] /\ left'[d] = left[d]
                                     /\ mint'[d] = mint[d] /\ tx'[d] = tx[d]
    BY DEF Broadcast, NextMint, OnceInv, FounderTypeOK
  <1>2. Event(c) \in events \ aired
    BY <1>1 DEF OnceInv, AtTransfer
  <1>3. \A d \in Slots : AtTransfer(d)'
    <2> SUFFICES ASSUME NEW d \in Slots PROVE AtTransfer(d)'
      OBVIOUS
    <2>1. AtTransfer(d) /\ (d # c => Apart(c, d))
      BY DEF OnceInv
    <2>2. CASE d = c
      BY <1>1, <2>2, AtNone
    <2>3. CASE d # c
      <3>1. Event(d)' = Event(d)
        BY <1>1, <2>3 DEF Event
      <3> QED
        BY <1>1, <2>1, <2>3, <3>1 DEF AtTransfer, Apart
    <2> QED
      BY <2>2, <2>3
  <1>4. ASSUME NEW a \in Slots, NEW b \in Slots, a # b PROVE Apart(a, b)'
    <2>1. CASE a = c \/ b = c
      BY <1>1, <2>1 DEF Apart
    <2>2. CASE a # c /\ b # c
      BY <1>1, <1>4, <2>2 DEF Apart, Event, OnceInv
    <2> QED
      BY <2>1, <2>2
  <1>5. ASSUME NEW x \in Fans \X Transfers PROVE SentOnce(x)'
    <2>1. SentOnce(x) /\ told[x] \in Nat
      BY <1>5 DEF OnceInv, FounderTypeOK
    <2>2. PICK us : told' = [y \in DOMAIN told |->
                                told[y] + IF y[1] \in us /\ y[2] = Event(c) THEN 1 ELSE 0]
      BY DEF Broadcast, Announce
    <2>3. told'[x] = told[x] + (IF x[1] \in us /\ x[2] = Event(c) THEN 1 ELSE 0)
      BY <2>2 DEF OnceInv, FounderTypeOK
    <2>4. CASE x[2] = Event(c)
      BY <1>1, <1>2, <2>1, <2>3, <2>4 DEF SentOnce
    <2>5. CASE x[2] # Event(c)
      BY <1>1, <2>1, <2>3, <2>5 DEF SentOnce
    <2> QED
      BY <2>4, <2>5
  <1> QED
    BY <1>1, <1>2, <1>3, <1>4, <1>5 DEF OnceInv

LEMMA StepOnce ==
  ASSUME OnceInv, FounderTypeOK', NEW c \in Slots, FounderStep(c)
  PROVE  OnceInv'
  <1>1. CASE List(c) \/ ReadKnown(c) \/ Upsert(c) \/ Inbound(c)
    <2>1. /\ UNCHANGED <<aired, told, events>>
          /\ fpc'[c] \in {"read", "upsert", "inbound", "next", "end"}
          /\ \A d \in Slots : d # c => /\ fpc'[d] = fpc[d] /\ left'[d] = left[d]
                                       /\ mint'[d] = mint[d] /\ tx'[d] = tx[d]
      BY <1>1 DEF List, ReadKnown, Upsert, Inbound, Step, founderRows, OnceInv, FounderTypeOK
    <2>2. AtTransfer(c)'
      BY <2>1, AtNone
    <2> QED
      BY <2>1, <2>2, CycleQuiet
  <1>2. CASE TakeMint(c)
    <2>1. PICK m \in left[c] :
            \/ /\ mint' = [mint EXCEPT ![c] = m]
               /\ fpc' = [fpc EXCEPT ![c] = "verify"]
               /\ UNCHANGED <<left, tx>>
            \/ /\ \E n \in 1..MaxReceipts : <<m, n>> \in inbound[c]
               /\ mint' = [mint EXCEPT ![c] = m]
               /\ tx' = [tx EXCEPT ![c] =
                            CHOOSE n \in 1..MaxReceipts : <<m, n>> \in inbound[c]]
               /\ fpc' = [fpc EXCEPT ![c] = "record"]
               /\ UNCHANGED left
            \/ NextMint(c, left[c] \ {m})
      BY <1>2 DEF TakeMint
    <2>2. /\ UNCHANGED <<aired, told, events>>
          /\ fpc'[c] \in {"verify", "record", "next", "end"}
          /\ \A d \in Slots : d # c => /\ fpc'[d] = fpc[d] /\ left'[d] = left[d]
                                       /\ mint'[d] = mint[d] /\ tx'[d] = tx[d]
      BY <1>2, <2>1 DEF TakeMint, NextMint, founderRows, OnceInv, FounderTypeOK
    <2>3. AtTransfer(c)'
      <3> DEFINE n0 == CHOOSE n \in 1..MaxReceipts : <<m, n>> \in inbound[c]
      <3>1. (\E n \in 1..MaxReceipts : <<m, n>> \in inbound[c]) => n0 \in 1..MaxReceipts
        OBVIOUS
      <3> HIDE DEF n0
      <3>2. fpc'[c] \in {"verify", "record"} => mint'[c] = m /\ left'[c] = left[c]
        BY <2>1 DEF NextMint, OnceInv, FounderTypeOK
      <3>3. fpc'[c] = "record" => tx'[c] \in 1..MaxReceipts
        BY <2>1, <3>1 DEF NextMint, OnceInv, FounderTypeOK, n0
      <3> QED
        BY <2>2, <3>2, <3>3 DEF AtTransfer
    <2> QED
      BY <2>2, <2>3, CycleQuiet
  <1>3. CASE Verify(c)
    <2>1. /\ UNCHANGED <<aired, told, events>>
          /\ fpc'[c] \in {"record", "next", "end"}
          /\ \A d \in Slots : d # c => /\ fpc'[d] = fpc[d] /\ left'[d] = left[d]
                                       /\ mint'[d] = mint[d] /\ tx'[d] = tx[d]
      BY <1>3 DEF Verify, NextMint, founderRows, OnceInv, FounderTypeOK
    <2>2. AtTransfer(c)'
      <3>1. AtTransfer(c) /\ fpc[c] = "verify"
        BY <1>3 DEF OnceInv, Verify
      <3>2. fpc'[c] = "record" =>
                /\ left'[c] = left[c] /\ mint'[c] = mint[c]
                /\ receipts[mint[c]] > 0 /\ tx'[c] = receipts[mint[c]]
        BY <1>3 DEF Verify, NextMint, Arrived, OnceInv, FounderTypeOK
      <3>3. mint[c] \in left[c] => receipts[mint[c]] \in 0..MaxReceipts
        BY DEF OnceInv, FounderTypeOK
      <3> QED
        BY <2>1, <3>1, <3>2, <3>3, FounderAssumption DEF AtTransfer
    <2> QED
      BY <2>1, <2>2, CycleQuiet
  <1> QED
    BY <1>1, <1>2, <1>3, RecordOnce, BroadcastOnce DEF FounderStep

LEMMA OnceSafe == OnceInv /\ [FounderNext]_founderVars => OnceInv'
  <1> SUFFICES ASSUME OnceInv, [FounderNext]_founderVars PROVE OnceInv'
    OBVIOUS
  <1>1. FounderTypeOK'
    BY FounderTyped DEF OnceInv
  <1>2. CASE FounderWorld \/ UNCHANGED founderVars
    <2>1. UNCHANGED <<aired, told, events, fpc, left, mint, tx>>
      BY <1>2 DEF FounderWorld, Receive, Sell, Follow, Unfollow, founderRows, founderCycle,
                  founderVars
    <2>2. \A c \in Slots : AtTransfer(c)'
      BY <2>1, StaysAt DEF OnceInv
    <2> QED
      BY <1>1, <2>1, <2>2, QuietOnce
  <1>3. ASSUME NEW c \in Slots,
               BeginFounder(c) \/ EndCycle(c) \/ SnapshotThrows(c) \/ MintThrows(c)
        PROVE  OnceInv'
    <2>1. /\ UNCHANGED <<aired, told>> /\ events \subseteq events'
          /\ fpc'[c] \in {"list", "idle", "end", "next"}
          /\ \A d \in Slots : d # c => /\ fpc'[d] = fpc[d] /\ left'[d] = left[d]
                                       /\ mint'[d] = mint[d] /\ tx'[d] = tx[d]
      BY <1>3 DEF BeginFounder, EndCycle, SnapshotThrows, MintThrows, NextMint, Step,
                  founderRows, OnceInv, FounderTypeOK
    <2>2. AtTransfer(c)'
      BY <2>1, AtNone
    <2> QED
      BY <1>1, <2>1, <2>2, CycleQuiet
  <1>4. CASE Crash
    <2>1. UNCHANGED <<aired, told, events>> /\ \A c \in Slots : fpc'[c] = "idle"
      BY <1>4 DEF Crash, founderRows
    <2>2. \A c \in Slots : AtTransfer(c)'
      BY <2>1, AtNone
    <2> QED
      BY <1>1, <2>1, <2>2, QuietOnce
  <1> QED
    BY <1>1, <1>2, <1>3, <1>4, StepOnce DEF FounderNext

LEMMA OnceInit == FounderInit => OnceInv
  <1> SUFFICES ASSUME FounderInit PROVE OnceInv
    OBVIOUS
  <1>1. FounderTypeOK
    BY FounderInitTyped
  <1>2. \A c \in Slots : fpc[c] = "idle"
    BY DEF FounderInit
  <1>3. \A x \in Fans \X Transfers : told[x] = 0
    BY DEF FounderInit
  <1> QED
    BY <1>1, <1>2, <1>3 DEF FounderInit, OnceInv, AtTransfer, Apart, SentOnce

\* A follower is told of a transfer at most once, however many cycles overlap
\* and whatever fails: runFounderReceivedTick and its insert of the event.
THEOREM ToldOnce == FounderSpec => []OncePerTransfer
  <1>1. OnceInv => OncePerTransfer
    BY DEF OnceInv, OncePerTransfer, SentOnce, FounderTypeOK
  <1> QED
    BY <1>1, OnceInit, OnceSafe, PTL DEF FounderSpec

---------------------------------------------------------------------------
(* None is forgotten *)

LEMMA HandsHave == \A m : InHand(m) <=> \E c \in Slots : HasMint(c, m)
  BY DEF InHand, HasMint

LEMMA ForgottenMeans ==
  NoneForgotten <=>
      (mishaps = 0 => \A m \in (known \cap Transferable) \ (sold \cup baseline \cup obscured) :
                          Kept(m))
  BY DEF NoneForgotten, Kept

\* Nothing is taken back: the wallet's past, the table and the broadcasts only grow.
LEMMA OnlyGrows ==
  ASSUME FounderTypeOK, [FounderNext]_founderVars
  PROVE  /\ mishaps' = 0 => mishaps = 0
         /\ sold \subseteq sold' /\ known \subseteq known' /\ baseline \subseteq baseline'
         /\ aired \subseteq aired' /\ direct' = direct /\ obscured \subseteq obscured'
  <1>1. ASSUME NEW c \in Slots, FounderStep(c)
        PROVE  /\ mishaps' = 0 => mishaps = 0
               /\ UNCHANGED <<sold, direct>>
               /\ known \subseteq known' /\ baseline \subseteq baseline' /\ aired \subseteq aired'
               /\ obscured \subseteq obscured'
    BY <1>1 DEF FounderStep, List, ReadKnown, Upsert, Inbound, TakeMint, Verify, RecordEvent,
                Broadcast, NextMint, Step, Mishap, Around, walletVars, founderRows, FounderTypeOK
  <1>2. CASE FounderWorld \/ Crash \/ UNCHANGED founderVars
    BY <1>2 DEF FounderWorld, Receive, Sell, Follow, Unfollow, Crash, Mishap, walletVars,
                founderRows, founderVars, FounderTypeOK
  <1>3. ASSUME NEW c \in Slots,
               BeginFounder(c) \/ EndCycle(c) \/ SnapshotThrows(c) \/ MintThrows(c)
        PROVE  /\ mishaps' = 0 => mishaps = 0
               /\ UNCHANGED <<sold, direct>>
               /\ known \subseteq known' /\ baseline \subseteq baseline' /\ aired \subseteq aired'
               /\ obscured \subseteq obscured'
    BY <1>3 DEF BeginFounder, EndCycle, SnapshotThrows, MintThrows, Mishap, Around, walletVars,
                founderRows, FounderTypeOK
  <1> QED
    BY <1>1, <1>2, <1>3 DEF FounderNext

\* What came stays: a mint that leaves the wallet was sold.
LEMMA CameStays ==
  ASSUME FounderTypeOK, FounderTypeOK', [FounderNext]_founderVars, NEW m \in Mints
  PROVE  (Came(m) \/ m \in holds' \ holds) => Came(m)'
  <1>1. CASE FounderWorld
    <2>1. ASSUME NEW n \in Mints, Receive(n) PROVE (Came(m) \/ m \in holds' \ holds) => Came(m)'
      BY <2>1 DEF Receive, Came, FounderTypeOK
    <2>2. ASSUME NEW n \in Mints, Sell(n) PROVE (Came(m) \/ m \in holds' \ holds) => Came(m)'
      BY <2>2 DEF Sell, Came
    <2>3. ASSUME NEW u \in Fans, Follow(u) \/ Unfollow(u) PROVE UNCHANGED walletVars
      BY <2>3 DEF Follow, Unfollow
    <2> QED
      BY <1>1, <2>1, <2>2, <2>3 DEF FounderWorld, walletVars, Came
  <1>2. CASE ~FounderWorld
    <2>1. UNCHANGED <<holds, sold, receipts>>
      BY <1>2 DEF FounderNext, FounderStep, List, ReadKnown, Upsert, Inbound, TakeMint, Verify,
                  RecordEvent, Broadcast, BeginFounder, EndCycle, SnapshotThrows, MintThrows,
                  Crash, Around, walletVars, founderVars
    <2> QED
      BY <2>1 DEF Came
  <1> QED
    BY <1>1, <1>2

\* What is behind too many transfers was noted when the last of them came in.
LEMMA BuriedNoted ==
  ASSUME FounderTypeOK, Buried \subseteq obscured, [FounderNext]_founderVars
  PROVE  (Buried \subseteq obscured)'
  <1>1. ASSUME NEW m \in Mints, Receive(m) PROVE (Buried \subseteq obscured)'
    BY <1>1 DEF Receive
  <1>2. ASSUME \A m \in Mints : ~Receive(m) PROVE UNCHANGED <<direct, receipts, later>>
    BY <1>2 DEF FounderNext, FounderWorld, Sell, Follow, Unfollow, FounderStep, List, ReadKnown,
                Upsert, Inbound, TakeMint, Verify, RecordEvent, Broadcast, BeginFounder, EndCycle,
                SnapshotThrows, MintThrows, Crash, Around, walletVars, founderVars
  <1>3. obscured \subseteq obscured'
    BY OnlyGrows
  <1> QED
    BY <1>1, <1>2, <1>3 DEF Buried

\* A cycle learns of mints from the wallet only.
LEMMA SourcesKept ==
  ASSUME FounderTypeOK, [FounderNext]_founderVars, NEW c \in Slots
  PROVE  listed'[c] \cup left'[c] \subseteq listed[c] \cup left[c] \cup holds
  <1>1. ASSUME NEW d \in Slots, List(d) \/ ReadKnown(d) \/ Inbound(d)
        PROVE  listed'[c] \cup left'[c] \subseteq listed[c] \cup left[c] \cup holds
    BY <1>1 DEF List, ReadKnown, Inbound, FounderTypeOK
  <1>2. ASSUME NEW d \in Slots, Upsert(d)
        PROVE  listed'[c] \cup left'[c] \subseteq listed[c] \cup left[c] \cup holds
    <2>1. NewMints(d) \subseteq listed[d]
      BY DEF NewMints
    <2> QED
      BY <1>2, <2>1 DEF Upsert, FounderTypeOK
  <1>3. ASSUME NEW d \in Slots, TakeMint(d) \/ Verify(d) \/ RecordEvent(d) \/ Broadcast(d)
        PROVE  listed'[c] \cup left'[c] \subseteq listed[c] \cup left[c] \cup holds
    <2>1. UNCHANGED listed /\ \/ UNCHANGED left
                              \/ \E rest \in SUBSET left[d] : left' = [left EXCEPT ![d] = rest]
      BY <1>3 DEF TakeMint, Verify, RecordEvent, Broadcast, NextMint
    <2> QED
      BY <2>1 DEF FounderTypeOK
  <1>4. ASSUME NEW d \in Slots,
               BeginFounder(d) \/ EndCycle(d) \/ SnapshotThrows(d) \/ MintThrows(d)
        PROVE  listed'[c] \cup left'[c] \subseteq listed[c] \cup left[c] \cup holds
    BY <1>4 DEF BeginFounder, EndCycle, SnapshotThrows, MintThrows, NextMint, FounderTypeOK
  <1>5. CASE FounderWorld \/ Crash \/ UNCHANGED founderVars
    BY <1>5 DEF FounderWorld, Receive, Sell, Follow, Unfollow, Crash, founderCycle, founderVars
  <1> QED
    BY <1>1, <1>2, <1>3, <1>4, <1>5 DEF FounderNext, FounderStep

LEMMA SourcedSafe ==
  ASSUME NoneInv, FounderTypeOK', [FounderNext]_founderVars
  PROVE  (\A m \in holds : Came(m))' /\ \A c \in Slots : Sourced(c)'
  <1>0. FounderTypeOK
    BY DEF NoneInv, OnceInv
  <1>1. \A m \in holds' : Came(m)'
    BY <1>0, CameStays DEF NoneInv, FounderTypeOK
  <1>2. ASSUME NEW c \in Slots PROVE Sourced(c)'
    <2>1. \A m \in listed[c] \cup left[c] \cup holds : m \in Mints /\ Came(m)
      BY <1>0 DEF NoneInv, Sourced, FounderTypeOK
    <2> QED
      BY <1>0, <2>1, CameStays, SourcesKept DEF Sourced
  <1> QED
    BY <1>1, <1>2

\* A cycle's step is its own: the others keep what they hold.
LEMMA StepIsOwn ==
  ASSUME FounderTypeOK, NEW c \in Slots, FounderStep(c), NEW d \in Slots, d # c
  PROVE  /\ fpc'[d] = fpc[d] /\ listed'[d] = listed[d] /\ existing'[d] = existing[d]
         /\ left'[d] = left[d] /\ inbound'[d] = inbound[d]
  <1>1. CASE List(c) \/ ReadKnown(c) \/ Inbound(c)
    BY <1>1 DEF List, ReadKnown, Inbound, Step, FounderTypeOK
  <1>2. CASE Upsert(c)
    BY <1>2 DEF Upsert, FounderTypeOK
  <1>3. CASE TakeMint(c)
    BY <1>3 DEF TakeMint, NextMint, FounderTypeOK
  <1>4. CASE Verify(c) \/ RecordEvent(c) \/ Broadcast(c)
    BY <1>4 DEF Verify, RecordEvent, Broadcast, NextMint, FounderTypeOK
  <1> QED
    BY <1>1, <1>2, <1>3, <1>4 DEF FounderStep

\* A cycle that another one leaves alone is placed as before.
LEMMA PlacedStays ==
  ASSUME NEW c \in Slots, Placed(c), known \subseteq known', direct' = direct,
         obscured \subseteq obscured', mishaps' = 0 => mishaps = 0,
         fpc'[c] = fpc[c], listed'[c] = listed[c], existing'[c] = existing[c],
         left'[c] = left[c], inbound'[c] = inbound[c]
  PROVE  Placed(c)'
  BY DEF Placed, Named

\* The cycle's own step.
LEMMA PlacedSafe ==
  ASSUME NoneInv, FounderTypeOK', NEW c \in Slots, FounderStep(c), known \subseteq known',
         direct' = direct, obscured \subseteq obscured', mishaps' = 0 => mishaps = 0
  PROVE  Placed(c)'
  <1>0. FounderTypeOK /\ Placed(c) /\ Sourced(c) /\ AtTransfer(c)
    BY DEF NoneInv, OnceInv
  <1>1. CASE List(c)
    BY <1>0, <1>1 DEF List, Step, Placed, Named, FounderTypeOK
  <1>2. CASE ReadKnown(c)
    BY <1>0, <1>2 DEF ReadKnown, founderRows, Placed, Named, FounderTypeOK
  <1>3. CASE Upsert(c)
    <2>1. CASE existing'[c] = {} /\ fpc'[c] \in {"inbound", "next", "end"}
               /\ (direct => fpc'[c] = "inbound")
      BY <2>1 DEF Placed, Named
    <2>2. CASE /\ left'[c] \subseteq left[c] /\ fpc[c] = "upsert"
               /\ fpc'[c] = fpc[c] /\ listed'[c] = listed[c] /\ existing'[c] = existing[c]
      BY <1>0, <2>2 DEF Placed, Named
    <2>3. CASE \E m \in left[c] :
                 /\ listed' = [listed EXCEPT ![c] = {}]
                 /\ existing' = [existing EXCEPT ![c] = {}]
                 /\ fpc' = [fpc EXCEPT ![c] = IF direct THEN "inbound"
                                              ELSE IF NewMints(c) = {} THEN "end" ELSE "next"]
      BY <1>0, <2>1, <2>3 DEF FounderTypeOK
    <2>4. CASE \E m \in left[c] :
                 /\ left' = [left EXCEPT ![c] = @ \ {m}]
                 /\ UNCHANGED <<fpc, listed, existing>> /\ fpc[c] = "upsert"
      BY <1>0, <2>2, <2>4 DEF FounderTypeOK
    <2> QED
      BY <1>3, <2>3, <2>4 DEF Upsert
  <1>4. CASE Inbound(c)
    <2>1. existing'[c] = existing[c] /\ fpc'[c] \in {"next", "end"} /\ left'[c] = left[c]
      BY <1>0, <1>4 DEF Inbound, FounderTypeOK
    <2>2. mishaps' = 0 => Named(c)'
      <3> SUFFICES ASSUME mishaps' = 0, NEW m \in left[c] \ obscured
                   PROVE  \E n \in 1..MaxReceipts : <<m, n>> \in inbound'[c]
        BY <2>1 DEF Named
      <3>1. inbound'[c] = {Newest(x) : x \in {y \in Mints : receipts[y] > 0} \ Buried}
        BY <1>0, <1>4 DEF Inbound, Mishap, FounderTypeOK
      <3>2. m \in Mints /\ receipts[m] > 0 /\ receipts[m] \in 0..MaxReceipts
        BY <1>0 DEF Sourced, Came, FounderTypeOK
      <3>3. m \notin Buried
        BY DEF NoneInv
      <3>4. Newest(m) \in inbound'[c] /\ receipts[m] \in 1..MaxReceipts
        BY <3>1, <3>2, <3>3, FounderAssumption
      <3> QED
        BY <3>4 DEF Newest
    <2> QED
      BY <1>0, <2>1, <2>2 DEF Placed
  <1>5. CASE TakeMint(c)
    <2>1. /\ left'[c] \subseteq left[c] /\ fpc[c] = "next"
          /\ UNCHANGED <<existing, inbound>>
          /\ fpc'[c] \in {"verify", "record", "next", "end"}
          /\ direct => fpc'[c] # "verify"
      BY <1>0, <1>5 DEF TakeMint, NextMint, FounderTypeOK
    <2> QED
      BY <1>0, <2>1 DEF Placed, Named
  <1>6. CASE Verify(c)
    <2>1. fpc[c] = "verify" /\ existing'[c] = existing[c] /\ fpc'[c] \in {"record", "next", "end"}
      BY <1>0, <1>6 DEF Verify, NextMint, FounderTypeOK
    <2> QED
      BY <1>0, <2>1 DEF Placed, Named
  <1>7. CASE RecordEvent(c) \/ Broadcast(c)
    <2>1. /\ left'[c] \subseteq left[c] /\ fpc[c] \in {"record", "broadcast"}
          /\ UNCHANGED <<existing, inbound>>
          /\ fpc'[c] \in {"broadcast", "next", "end"}
      BY <1>0, <1>7 DEF RecordEvent, Broadcast, NextMint, FounderTypeOK
    <2> QED
      BY <1>0, <2>1 DEF Placed, Named
  <1> QED
    BY <1>1, <1>2, <1>3, <1>4, <1>5, <1>6, <1>7 DEF FounderStep

LEMMA AllPlaced ==
  ASSUME NoneInv, FounderTypeOK', [FounderNext]_founderVars, NEW c \in Slots
  PROVE  Placed(c)'
  <1>0. FounderTypeOK /\ Placed(c)
    BY DEF NoneInv, OnceInv
  <1>1. /\ known \subseteq known' /\ direct' = direct /\ (mishaps' = 0 => mishaps = 0)
        /\ obscured \subseteq obscured'
    BY <1>0, OnlyGrows
  <1>2. ASSUME NEW d \in Slots, FounderStep(d), d # c PROVE Placed(c)'
    <2>1. /\ fpc'[c] = fpc[c] /\ listed'[c] = listed[c] /\ existing'[c] = existing[c]
          /\ left'[c] = left[c] /\ inbound'[c] = inbound[c]
      BY <1>0, <1>2, StepIsOwn
    <2> QED
      BY <1>0, <1>1, <2>1, PlacedStays
  <1>3. CASE FounderStep(c)
    BY <1>1, <1>3, PlacedSafe
  <1>4. ASSUME NEW d \in Slots, d # c,
               BeginFounder(d) \/ EndCycle(d) \/ SnapshotThrows(d) \/ MintThrows(d)
        PROVE  Placed(c)'
    <2>1. /\ fpc'[c] = fpc[c] /\ listed'[c] = listed[c] /\ existing'[c] = existing[c]
          /\ left'[c] = left[c] /\ inbound'[c] = inbound[c]
      BY <1>0, <1>4 DEF BeginFounder, EndCycle, SnapshotThrows, MintThrows, NextMint, Step,
                        FounderTypeOK
    <2> QED
      BY <1>0, <1>1, <2>1, PlacedStays
  <1>5. CASE BeginFounder(c) \/ EndCycle(c) \/ SnapshotThrows(c)
    <2>1. existing'[c] \in {existing[c], {}} /\ fpc'[c] \in {"list", "idle", "end"}
      BY <1>0, <1>5 DEF BeginFounder, EndCycle, SnapshotThrows, Step, FounderTypeOK
    <2> QED
      BY <1>0, <1>1, <2>1 DEF Placed, Named
  <1>6. CASE MintThrows(c)
    <2>1. existing'[c] = existing[c] /\ fpc'[c] \in {"next", "end"} /\ mishaps' # 0
      BY <1>0, <1>6 DEF MintThrows, NextMint, Mishap, FounderTypeOK
    <2> QED
      BY <1>0, <1>1, <2>1 DEF Placed
  <1>7. CASE Crash
    <2>1. existing'[c] = {} /\ fpc'[c] = "idle"
      BY <1>7 DEF Crash
    <2> QED
      BY <2>1 DEF Placed, Named
  <1>8. CASE FounderWorld \/ UNCHANGED founderVars
    <2>1. UNCHANGED <<fpc, listed, existing, left, inbound>>
      BY <1>8 DEF FounderWorld, Receive, Sell, Follow, Unfollow, founderCycle, founderVars
    <2> QED
      BY <1>0, <1>1, <2>1, PlacedStays
  <1> QED
    BY <1>2, <1>3, <1>4, <1>5, <1>6, <1>7, <1>8 DEF FounderNext

\* Without a fault, a recorded transfer is broadcast or with its cycle.
LEMMA HeardSafe ==
  ASSUME NoneInv, FounderTypeOK', [FounderNext]_founderVars, mishaps' = 0, mishaps = 0,
         NEW e \in events'
  PROVE  Heard(e)'
  <1>0. FounderTypeOK /\ aired \subseteq aired'
    BY OnlyGrows DEF NoneInv, OnceInv
  <1>1. ASSUME NEW d \in Slots, fpc[d] = "broadcast", Event(d) = e PROVE Heard(e)'
    <2>1. CASE Broadcast(d)
      BY <1>1, <2>1 DEF Broadcast, Heard
    <2>2. CASE ~Broadcast(d)
      <3>1. fpc'[d] = "broadcast" /\ mint'[d] = mint[d] /\ tx'[d] = tx[d]
        <4>1. ASSUME NEW c \in Slots, FounderStep(c)
              PROVE  fpc'[d] = "broadcast" /\ mint'[d] = mint[d] /\ tx'[d] = tx[d]
          <5>1. CASE List(c) \/ ReadKnown(c) \/ Upsert(c) \/ Inbound(c)
            BY <1>0, <1>1, <5>1 DEF List, ReadKnown, Upsert, Inbound, Step, FounderTypeOK
          <5>2. CASE TakeMint(c)
            BY <1>0, <1>1, <5>2 DEF TakeMint, NextMint, FounderTypeOK
          <5>3. CASE Verify(c)
            BY <1>0, <1>1, <5>3 DEF Verify, NextMint, FounderTypeOK
          <5>4. CASE RecordEvent(c)
            BY <1>0, <1>1, <5>4 DEF RecordEvent, NextMint, FounderTypeOK
          <5>5. CASE Broadcast(c)
            <6>1. c # d /\ c \in Slots
              BY <2>2, <5>5
            <6> QED
              BY <1>0, <1>1, <5>5, <6>1 DEF Broadcast, NextMint, FounderTypeOK
          <5> QED
            BY <4>1, <5>1, <5>2, <5>3, <5>4, <5>5 DEF FounderStep
        <4>2. ASSUME NEW c \in Slots, BeginFounder(c) \/ EndCycle(c)
              PROVE  fpc'[d] = "broadcast" /\ mint'[d] = mint[d] /\ tx'[d] = tx[d]
          BY <1>0, <1>1, <4>2 DEF BeginFounder, EndCycle, Step, FounderTypeOK
        <4>3. ~Crash /\ \A c \in Slots : ~SnapshotThrows(c) /\ ~MintThrows(c)
          BY DEF Crash, SnapshotThrows, MintThrows, Mishap
        <4>4. CASE FounderWorld \/ UNCHANGED founderVars
          BY <1>1, <4>4 DEF FounderWorld, Receive, Sell, Follow, Unfollow, founderCycle,
                            founderVars
        <4> QED
          BY <4>1, <4>2, <4>3, <4>4 DEF FounderNext
      <3> QED
        BY <1>1, <3>1 DEF Heard, Event
    <2> QED
      BY <2>1, <2>2
  <1>2. CASE e \in events
    BY <1>0, <1>1, <1>2 DEF NoneInv, Heard
  <1>3. CASE e \notin events
    <2>1. PICK c \in Slots : RecordEvent(c)
      <3>1. ASSUME NEW c \in Slots, FounderStep(c), ~RecordEvent(c) PROVE events' = events
        BY <3>1 DEF FounderStep, List, ReadKnown, Upsert, Inbound, TakeMint, Verify, Broadcast,
                    founderRows
      <3>2. ASSUME NEW c \in Slots, BeginFounder(c) \/ EndCycle(c) PROVE events' = events
        BY <3>2 DEF BeginFounder, EndCycle, founderRows
      <3>3. ~Crash /\ \A c \in Slots : ~SnapshotThrows(c) /\ ~MintThrows(c)
        BY DEF Crash, SnapshotThrows, MintThrows, Mishap
      <3>4. CASE FounderWorld \/ UNCHANGED founderVars
        BY <1>3, <3>4 DEF FounderWorld, Receive, Sell, Follow, Unfollow, founderRows, founderVars
      <3> QED
        BY <1>3, <3>1, <3>2, <3>3, <3>4 DEF FounderNext
    <2>2. e = Event(c)
      BY <1>3, <2>1 DEF RecordEvent
    <2>3. fpc'[c] = "broadcast" /\ UNCHANGED <<mint, tx>>
      BY <1>0, <1>3, <2>1, <2>2 DEF RecordEvent, IsNew, FounderTypeOK
    <2> QED
      BY <2>2, <2>3 DEF Heard, Event
  <1> QED
    BY <1>2, <1>3

\* A cycle that has a mint passes it on with its own step, or broadcasts it.
LEMMA HandGoesOn ==
  ASSUME NoneInv, FounderTypeOK', NEW c \in Slots, FounderStep(c), mishaps' = 0, mishaps = 0,
         NEW m \in Mints, m \in Transferable, m \notin sold \cup obscured', HasMint(c, m),
         obscured \subseteq obscured',
         \A d \in Slots : d # c => (HasMint(d, m) => HasMint(d, m)'), aired \subseteq aired'
  PROVE  Kept(m)'
  <1>0. FounderTypeOK /\ Placed(c) /\ Sourced(c) /\ AtTransfer(c) /\ Named(c)
    BY DEF NoneInv, OnceInv, Placed
  <1>1. SUFFICES ASSUME ~HasMint(c, m)' PROVE Kept(m)'
    <2>1. InHand(m)' <=> \E d \in Slots : HasMint(d, m)'
      BY DEF InHand, HasMint
    <2> QED
      BY <2>1 DEF Kept
  <1>2. ~List(c) /\ ~ReadKnown(c)
    BY DEF List, ReadKnown, Step, HasMint
  <1>3. ~Upsert(c)
    <2> SUFFICES ASSUME Upsert(c) PROVE FALSE
      OBVIOUS
    <2>1. fpc[c] = "upsert" /\ existing[c] # {} /\ m \in NewMints(c)
      BY DEF Upsert, HasMint, NewMints
    <2>2. CASE /\ left' = [left EXCEPT ![c] = NewMints(c)]
               /\ fpc' = [fpc EXCEPT ![c] = IF direct THEN "inbound"
                                            ELSE IF NewMints(c) = {} THEN "end" ELSE "next"]
      <3>1. left'[c] = NewMints(c) /\ fpc'[c] \in {"inbound", "next"}
        BY <1>0, <2>1, <2>2 DEF FounderTypeOK
      <3> QED
        BY <1>1, <2>1, <3>1 DEF HasMint
    <2>3. CASE UNCHANGED <<fpc, listed, existing>>
      BY <1>1, <2>1, <2>3 DEF HasMint, NewMints
    <2> QED
      BY <2>2, <2>3 DEF Upsert
  <1>4. ~Inbound(c)
    BY <1>0, <1>1 DEF Inbound, HasMint, FounderTypeOK
  <1>5. ~TakeMint(c)
    <2> SUFFICES ASSUME TakeMint(c) PROVE FALSE
      OBVIOUS
    <2>1. fpc[c] = "next" /\ m \in left[c]
      BY DEF TakeMint, HasMint
    <2>2. direct => \E n \in 1..MaxReceipts : <<m, n>> \in inbound[c]
      BY <1>0, <2>1 DEF Named
    <2>3. \/ left' = left /\ fpc'[c] \in {"verify", "record"}
          \/ \E x \in left[c] : x # m /\ NextMint(c, left[c] \ {x})
      BY <1>0, <2>2 DEF TakeMint, FounderTypeOK
    <2>4. m \in left'[c] /\ fpc'[c] \in {"verify", "record", "next"}
      BY <1>0, <2>1, <2>3 DEF NextMint, FounderTypeOK
    <2> QED
      BY <1>1, <2>4 DEF HasMint
  <1>6. ~Verify(c)
    <2> SUFFICES ASSUME Verify(c) PROVE FALSE
      OBVIOUS
    <2>1. fpc[c] = "verify" /\ m \in left[c]
      BY DEF Verify, HasMint
    <2>2. Arrived(m) /\ m \in holds
      BY <1>0, <2>1 DEF Sourced, Came, Arrived
    <2>3. \/ left' = left /\ fpc'[c] = "record"
          \/ m # mint[c] /\ NextMint(c, left[c] \ {mint[c]})
      <3>1. m = mint[c] => ~(obscured' = obscured \cup {mint[c]})
        OBVIOUS
      <3> QED
        BY <1>0, <2>2, <3>1 DEF Verify, Mishap, FounderTypeOK
    <2>4. m \in left'[c] /\ fpc'[c] \in {"record", "next"}
      BY <1>0, <2>1, <2>3 DEF NextMint, FounderTypeOK
    <2> QED
      BY <1>1, <2>4 DEF HasMint
  <1>7. CASE RecordEvent(c)
    <2>1. fpc[c] = "record" /\ m \in left[c]
      BY <1>7 DEF RecordEvent, HasMint
    <2>2. Event(c) \in events /\ NextMint(c, left[c] \ {mint[c]})
      BY <1>0, <1>1, <1>7, <2>1 DEF RecordEvent, IsNew, HasMint, FounderTypeOK
    <2>3. m = mint[c]
      BY <1>0, <1>1, <2>1, <2>2 DEF NextMint, HasMint, FounderTypeOK
    <2>4. CASE Event(c) \in aired
      BY <1>0, <2>1, <2>3, <2>4 DEF Event, AtTransfer, Kept
    <2>5. CASE Event(c) \notin aired
      <3>1. PICK d \in Slots : fpc[d] = "broadcast" /\ Event(d) = Event(c)
        BY <2>2, <2>5 DEF NoneInv, Heard
      <3>2. AtTransfer(d) /\ d # c /\ mint[d] = m
        BY <2>1, <2>3, <3>1 DEF NoneInv, OnceInv, Event
      <3>3. HasMint(d, m)
        BY <3>1, <3>2 DEF AtTransfer, HasMint
      <3>4. InHand(m)'
        BY <3>2, <3>3 DEF InHand, HasMint
      <3> QED
        BY <3>4 DEF Kept
    <2> QED
      BY <2>4, <2>5
  <1>8. CASE Broadcast(c)
    <2>1. fpc[c] = "broadcast" /\ m \in left[c] /\ NextMint(c, left[c] \ {mint[c]})
      BY <1>8 DEF Broadcast, HasMint
    <2>2. m = mint[c]
      BY <1>0, <1>1, <2>1 DEF NextMint, HasMint, FounderTypeOK
    <2>3. <<m, tx[c]>> \in aired' /\ tx[c] \in 1..MaxReceipts
      BY <1>0, <1>8, <2>1, <2>2 DEF Broadcast, Event, AtTransfer
    <2> QED
      BY <2>3 DEF Kept
  <1> QED
    BY <1>2, <1>3, <1>4, <1>5, <1>6, <1>7, <1>8 DEF FounderStep

\* A step of another cycle, or of none, leaves a cycle with what it has.
LEMMA HandKeeps ==
  ASSUME FounderTypeOK, [FounderNext]_founderVars, mishaps' = 0, mishaps = 0,
         NEW d \in Slots, ~FounderStep(d), NEW m \in Mints, HasMint(d, m)
  PROVE  HasMint(d, m)'
  <1>1. UNCHANGED <<fpc[d], listed[d], existing[d], left[d]>>
    <2>1. ASSUME NEW c \in Slots, c # d, FounderStep(c)
          PROVE  UNCHANGED <<fpc[d], listed[d], existing[d], left[d]>>
      BY <2>1, StepIsOwn
    <2>2. ASSUME NEW c \in Slots, BeginFounder(c) \/ EndCycle(c)
          PROVE  UNCHANGED <<fpc[d], listed[d], existing[d], left[d]>>
      <3>1. c # d
        BY <2>2 DEF BeginFounder, EndCycle, Step, HasMint
      <3> QED
        BY <2>2, <3>1 DEF BeginFounder, EndCycle, Step, FounderTypeOK
    <2>3. ~Crash /\ \A c \in Slots : ~SnapshotThrows(c) /\ ~MintThrows(c)
      BY DEF Crash, SnapshotThrows, MintThrows, Mishap
    <2>4. CASE FounderWorld \/ UNCHANGED founderVars
      BY <2>4 DEF FounderWorld, Receive, Sell, Follow, Unfollow, founderCycle, founderVars
    <2> QED
      BY <2>1, <2>2, <2>3, <2>4 DEF FounderNext
  <1> QED
    BY <1>1 DEF HasMint

LEMMA ForgottenSafe ==
  ASSUME NoneInv, FounderTypeOK', [FounderNext]_founderVars
  PROVE  NoneForgotten'
  <1>0. FounderTypeOK
    BY DEF NoneInv, OnceInv
  <1>1. /\ mishaps' = 0 => mishaps = 0
        /\ sold \subseteq sold' /\ known \subseteq known' /\ baseline \subseteq baseline'
        /\ aired \subseteq aired' /\ obscured \subseteq obscured'
    BY <1>0, OnlyGrows
  <1> SUFFICES ASSUME mishaps' = 0, mishaps = 0,
                      NEW m \in (known' \cap Transferable) \ (sold' \cup baseline' \cup obscured')
               PROVE  Kept(m)'
    BY <1>1 DEF NoneForgotten, Kept
  <1>2. m \in Mints /\ m \notin sold /\ m \notin baseline /\ m \notin obscured
    BY <1>1 DEF FounderTypeOK
  <1>3. CASE m \in known
    <2>1. Kept(m)
      BY <1>2, <1>3, ForgottenMeans DEF NoneInv
    <2>2. CASE \E n \in 1..MaxReceipts : <<m, n>> \in aired
      BY <1>1, <2>2 DEF Kept
    <2>3. ASSUME NEW c \in Slots, HasMint(c, m) PROVE Kept(m)'
      <3>1. CASE FounderStep(c)
        <4>1. \A d \in Slots : d # c /\ HasMint(d, m) => HasMint(d, m)'
          <5> SUFFICES ASSUME NEW d \in Slots, d # c, HasMint(d, m) PROVE HasMint(d, m)'
            OBVIOUS
          <5>1. UNCHANGED <<fpc[d], listed[d], existing[d], left[d]>>
            BY <1>0, <3>1, StepIsOwn
          <5> QED
            BY <5>1 DEF HasMint
        <4> QED
          BY <1>1, <1>2, <2>3, <3>1, <4>1, HandGoesOn
      <3>2. CASE ~FounderStep(c)
        <4>1. HasMint(c, m)'
          BY <1>0, <1>2, <2>3, <3>2, HandKeeps
        <4>2. InHand(m)'
          BY <4>1 DEF InHand, HasMint
        <4> QED
          BY <4>2 DEF Kept
      <3> QED
        BY <3>1, <3>2
    <2> QED
      BY <2>1, <2>2, <2>3, HandsHave DEF Kept
  <1>4. CASE m \notin known
    <2>1. PICK c \in Slots : Upsert(c)
      <3>1. ASSUME NEW c \in Slots, FounderStep(c), ~Upsert(c) PROVE known' = known
        BY <3>1 DEF FounderStep, List, ReadKnown, Inbound, TakeMint, Verify, RecordEvent,
                    Broadcast, founderRows
      <3>2. ASSUME NEW c \in Slots, BeginFounder(c) \/ EndCycle(c) PROVE known' = known
        BY <3>2 DEF BeginFounder, EndCycle, founderRows
      <3>3. ~Crash /\ \A c \in Slots : ~SnapshotThrows(c) /\ ~MintThrows(c)
        BY DEF Crash, SnapshotThrows, MintThrows, Mishap
      <3>4. CASE FounderWorld \/ UNCHANGED founderVars
        BY <1>4, <3>4 DEF FounderWorld, Receive, Sell, Follow, Unfollow, founderRows, founderVars
      <3> QED
        BY <1>4, <3>1, <3>2, <3>3, <3>4 DEF FounderNext
    <2>2. /\ fpc[c] = "upsert" /\ m \in left[c] /\ existing[c] # {}
          /\ \/ left[c] = {m} /\ left' = [left EXCEPT ![c] = NewMints(c)]
                /\ fpc' = [fpc EXCEPT ![c] = IF direct THEN "inbound"
                                             ELSE IF NewMints(c) = {} THEN "end" ELSE "next"]
             \/ UNCHANGED <<fpc, listed, existing>>
      BY <1>2, <1>4, <2>1 DEF Upsert
    <2>3. m \in NewMints(c)
      BY <1>4, <2>2 DEF NoneInv, Placed, NewMints
    <2>4. HasMint(c, m)'
      <3>1. CASE UNCHANGED <<fpc, listed, existing>>
        BY <2>2, <2>3, <3>1 DEF HasMint, NewMints
      <3>2. CASE /\ left' = [left EXCEPT ![c] = NewMints(c)]
                 /\ fpc' = [fpc EXCEPT ![c] = IF direct THEN "inbound"
                                              ELSE IF NewMints(c) = {} THEN "end" ELSE "next"]
        <4>1. left'[c] = NewMints(c) /\ fpc'[c] \in {"inbound", "next"}
          BY <1>0, <2>3, <3>2 DEF FounderTypeOK
        <4> QED
          BY <2>3, <4>1 DEF HasMint
      <3> QED
        BY <2>2, <3>1, <3>2
    <2>5. InHand(m)'
      BY <2>4 DEF InHand, HasMint
    <2> QED
      BY <2>5 DEF Kept
  <1> QED
    BY <1>3, <1>4

LEMMA NoneSafe == NoneInv /\ [FounderNext]_founderVars => NoneInv'
  <1> SUFFICES ASSUME NoneInv, [FounderNext]_founderVars PROVE NoneInv'
    OBVIOUS
  <1>1. OnceInv' /\ FounderTypeOK'
    BY OnceSafe DEF NoneInv, OnceInv
  <1>2. (\A m \in holds : Came(m))' /\ \A c \in Slots : Sourced(c)' /\ Placed(c)'
    BY <1>1, SourcedSafe, AllPlaced
  <1>3. mishaps' = 0 => \A e \in events' : Heard(e)'
    BY <1>1, HeardSafe, OnlyGrows DEF NoneInv, OnceInv
  <1>4. NoneForgotten'
    BY <1>1, ForgottenSafe
  <1>5. (Buried \subseteq obscured)'
    BY BuriedNoted DEF NoneInv, OnceInv
  <1> QED
    BY <1>1, <1>2, <1>3, <1>4, <1>5 DEF NoneInv

LEMMA NoneInit == FounderInit => NoneInv
  <1> SUFFICES ASSUME FounderInit PROVE NoneInv
    OBVIOUS
  <1>1. \A m \in holds : Came(m)
    BY FounderAssumption DEF FounderInit, Came
  <1>2. \A c \in Slots : Sourced(c) /\ Placed(c)
    BY DEF FounderInit, Sourced, Placed, Named
  <1> QED
    BY <1>1, <1>2, OnceInit DEF FounderInit, NoneInv, NoneForgotten

\* Without a fault, a token that came by transfer and stayed is broadcast or
\* about to be once the snapshot has it, unless it was there when tracking began
\* or lay behind more transfers, or in a longer list of holders, than the
\* look-up asks for: runFounderReceivedTick.
THEOREM NothingForgotten == FounderSpec => []NoneForgotten
  <1>1. NoneInv => NoneForgotten
    BY DEF NoneInv
  <1> QED
    BY <1>1, NoneInit, NoneSafe, PTL DEF FounderSpec

---------------------------------------------------------------------------
(* The trending cache: how old an answer may be, and how often GMGN is     *)
(* asked.  The heart of the argument is the single refresh: inFlight names *)
(* the one burst that runs, everyone who waits waits for it, and lastBurst *)
(* is what the snapshot was made from.                                     *)

Snapshots == [at : Int, stale : BOOLEAN]
Bursts == [step : Nat, at : Nat, ok : BOOLEAN]
Asked == [pc : {"idle", "wait", "build", "have"}, kind : {"browse", "intel"}, asked : Nat,
          on : Requests \cup {Nobody}, got : Snapshots]

FeedTyped ==
    /\ clock \in Nat
    /\ snapshot \in Snapshots
    /\ inFlight \in Requests \cup {Nobody}
    /\ burst \in [Requests -> Bursts]
    /\ req \in [Requests -> Asked]
    /\ lastBurst \in [at : Int, ended : {"running", "ok", "failed"}]

\* A request that waits has its refresh running and was asked by now; what it
\* was given, if not marked stale, was less than a TTL old when it asked.
Served(r) ==
    /\ req[r].on # Nobody => req[r].pc = "wait" /\ burst[req[r].on].step > 0
    /\ req[r].pc = "wait" => req[r].asked <= clock
    /\ req[r].pc \in {"have", "build"} /\ ~req[r].got.stale =>
         req[r].asked - req[r].got.at < TTL

\* A refresh that runs is the one in flight, the last one begun, and within the
\* timeouts of the CLI.
Bursting(r) ==
    burst[r].step > 0 =>
        /\ inFlight = r
        /\ lastBurst = [at |-> burst[r].at, ended |-> "running"]
        /\ burst[r].at <= clock /\ clock - burst[r].at <= MaxBurst

FeedInv ==
    /\ FeedTyped
    /\ \A r \in Requests : Served(r) /\ Bursting(r)
    /\ inFlight = Nobody <=> lastBurst.ended # "running"
    /\ inFlight # Nobody => burst[inFlight].step > 0
    /\ lastBurst.ended = "ok" => lastBurst.at >= 0 /\ snapshot.at = lastBurst.at

---------------------------------------------------------------------------
(* What a request is given *)

LEMMA GivenTyped ==
  ASSUME NEW q \in Asked, NEW s \in Snapshots
  PROVE  /\ Given(q, s) \in Asked
         /\ Given(q, s).on = Nobody /\ Given(q, s).pc \in {"have", "build"}
         /\ Given(q, s).asked = q.asked /\ Given(q, s).got = s
  BY DEF Given, Asked

LEMMA AwaitingTyped ==
  ASSUME NEW q \in Asked, NEW r \in Requests
  PROVE  /\ Awaiting(q, r) \in Asked
         /\ Awaiting(q, r).on = r /\ Awaiting(q, r).pc = "wait"
         /\ Awaiting(q, r).asked = q.asked
  BY DEF Awaiting, Asked, None, Snapshots

LEMMA FallbackTyped ==
  ASSUME FeedTyped, NEW b \in Bursts
  PROVE  /\ Fallback(b) \in Snapshots /\ Fallback(b).stale
         /\ snapshot # None => Fallback(b).at = snapshot.at
  <1>1. CASE snapshot = None
    <2>1. Fallback(b) = [at |-> b.at, stale |-> TRUE]
      BY <1>1 DEF Fallback, None
    <2> QED
      BY <1>1, <2>1 DEF Snapshots, Bursts
  <1>2. CASE snapshot # None
    <2>1. Fallback(b) = [snapshot EXCEPT !.stale = TRUE] /\ snapshot \in Snapshots
      BY <1>2 DEF Fallback, FeedTyped
    <2> QED
      BY <2>1 DEF Snapshots
  <1> QED
    BY <1>1, <1>2

\* The request that Get makes up.
Fresh(kind) == [pc |-> "idle", kind |-> kind, asked |-> clock, on |-> Nobody, got |-> None]

LEMMA FreshTyped ==
  ASSUME FeedTyped, NEW kind \in {"browse", "intel"}
  PROVE  Fresh(kind) \in Asked /\ Fresh(kind).asked = clock
  BY DEF FeedTyped, Fresh, Asked, None, Snapshots

---------------------------------------------------------------------------
(* The invariant *)

LEMMA FeedInitSafe == FeedInit => FeedInv
  <1> SUFFICES ASSUME FeedInit PROVE FeedInv
    OBVIOUS
  <1>1. FeedTyped
    <2>1. None \in Snapshots /\ NoBurst \in Bursts
      BY DEF None, NoBurst, Snapshots, Bursts
    <2>2. Resting \in Asked
      BY <2>1 DEF Resting, Asked
    <2>3. NeverRefreshed \in [at : Int, ended : {"running", "ok", "failed"}]
      BY DEF NeverRefreshed
    <2> QED
      BY <2>1, <2>2, <2>3 DEF FeedInit, FeedTyped
  <1>2. \A r \in Requests : Served(r) /\ Bursting(r)
    <2>1. /\ Resting.on = Nobody /\ Resting.pc = "idle" /\ NoBurst.step = 0
      BY DEF Resting, NoBurst
    <2>2. \A r \in Requests : req[r] = Resting /\ burst[r] = NoBurst
      BY DEF FeedInit
    <2>3. \A r \in Requests : Served(r)
      BY <2>1, <2>2 DEF Served
    <2>4. \A r \in Requests : Bursting(r)
      BY <2>1, <2>2 DEF Bursting
    <2> QED
      BY <2>3, <2>4
  <1> QED
    BY <1>1, <1>2 DEF FeedInit, FeedInv, NeverRefreshed

\* A request is answered from the cache, shares the refresh, or begins one.
LEMMA AskSafe ==
  ASSUME FeedInv, NEW r \in Requests, Ask(r)
  PROVE  FeedInv'
  <1>1. PICK kind \in {"browse", "intel"} : Get(r, kind)
    BY DEF Ask
  <1>2. UNCHANGED <<clock, snapshot>> /\ req[r].pc = "idle"
    BY DEF Ask
  <1>3. /\ FeedTyped /\ \A q \in Requests : Served(q) /\ Bursting(q)
        /\ clock \in Nat /\ snapshot \in Snapshots /\ inFlight \in Requests \cup {Nobody}
        /\ req \in [Requests -> Asked] /\ burst \in [Requests -> Bursts]
    BY DEF FeedInv, FeedTyped
  <1>4. Fresh(kind) \in Asked /\ Fresh(kind).asked = clock
    BY <1>3, FreshTyped
  <1>5. CASE ~IsStale
    <2>1. /\ req' = [req EXCEPT ![r] = Given(Fresh(kind), snapshot)]
          /\ UNCHANGED <<inFlight, burst, lastBurst>>
      BY <1>1, <1>5 DEF Get, Fresh
    <2> DEFINE g == Given(Fresh(kind), snapshot)
    <2>2. /\ g \in Asked /\ g.on = Nobody /\ g.pc \in {"have", "build"}
          /\ g.asked = clock /\ g.got = snapshot
      BY <1>3, <1>4, GivenTyped
    <2>3. clock - snapshot.at < TTL
      BY <1>3, <1>5, FeedAssumption DEF IsStale, Snapshots
    <2> HIDE DEF g
    <2>4. req'[r] = g /\ \A q \in Requests : q # r => req'[q] = req[q]
      BY <1>3, <2>1 DEF g
    <2>5. FeedTyped'
      BY <1>2, <1>3, <2>1, <2>2, <2>4 DEF FeedTyped, g
    <2>6. \A q \in Requests : Served(q)'
      BY <1>2, <1>3, <2>1, <2>2, <2>3, <2>4 DEF Served
    <2>7. \A q \in Requests : Bursting(q)'
      BY <1>2, <1>3, <2>1 DEF Bursting
    <2> QED
      BY <1>2, <2>1, <2>5, <2>6, <2>7 DEF FeedInv
  <1>6. CASE IsStale /\ Shared
    <2>1. /\ req' = [req EXCEPT ![r] = Awaiting(Fresh(kind), inFlight)]
          /\ UNCHANGED <<inFlight, burst, lastBurst>>
      BY <1>1, <1>6 DEF Get, Fresh
    <2> DEFINE g == Awaiting(Fresh(kind), inFlight)
    <2>2. inFlight \in Requests /\ burst[inFlight].step > 0
      BY <1>3, <1>6 DEF Shared, FeedInv
    <2>3. g \in Asked /\ g.on = inFlight /\ g.pc = "wait" /\ g.asked = clock
      BY <1>4, <2>2, AwaitingTyped
    <2> HIDE DEF g
    <2>4. req'[r] = g /\ \A q \in Requests : q # r => req'[q] = req[q]
      BY <1>3, <2>1 DEF g
    <2>5. FeedTyped'
      BY <1>2, <1>3, <2>1, <2>3, <2>4 DEF FeedTyped, g
    <2>6. \A q \in Requests : Served(q)'
      BY <1>2, <1>3, <2>1, <2>2, <2>3, <2>4 DEF Served
    <2>7. \A q \in Requests : Bursting(q)'
      BY <1>2, <1>3, <2>1 DEF Bursting
    <2> QED
      BY <1>2, <2>1, <2>5, <2>6, <2>7 DEF FeedInv
  <1>7. CASE IsStale /\ ~Shared
    <2> DEFINE g == Awaiting(Fresh(kind), r)
               b == [step |-> 1, at |-> clock, ok |-> FALSE]
               l == [at |-> clock, ended |-> "running"]
    <2>1. /\ req' = [req EXCEPT ![r] = g]
          /\ inFlight' = r
          /\ burst' = [burst EXCEPT ![r] = b]
          /\ lastBurst' = l
      BY <1>1, <1>7 DEF Get, Fresh
    <2>2. inFlight = Nobody
      BY <1>7 DEF Shared
    <2>3. g \in Asked /\ g.on = r /\ g.pc = "wait" /\ g.asked = clock
      BY <1>4, AwaitingTyped
    <2>4. /\ b \in Bursts /\ b.step > 0 /\ b.at = clock
          /\ l \in [at : Int, ended : {"running", "ok", "failed"}]
          /\ l.ended = "running" /\ l = [at |-> b.at, ended |-> "running"]
      BY <1>3 DEF Bursts
    <2> HIDE DEF g, b, l
    <2>5. /\ req'[r] = g /\ \A q \in Requests : q # r => req'[q] = req[q]
          /\ burst'[r] = b /\ \A q \in Requests : q # r => burst'[q] = burst[q]
      BY <1>3, <2>1
    <2>6. FeedTyped'
      BY <1>2, <1>3, <2>1, <2>3, <2>4 DEF FeedTyped
    <2>7. \A q \in Requests : burst[q].step = 0
      <3> SUFFICES ASSUME NEW q \in Requests PROVE burst[q].step = 0
        OBVIOUS
      <3>1. ~(burst[q].step > 0) /\ burst[q] \in Bursts
        BY <1>3, <2>2, FeedAssumption DEF Bursting
      <3> QED
        BY <3>1 DEF Bursts
    <2>8. \A q \in Requests : req[q].on = Nobody
      <3> SUFFICES ASSUME NEW q \in Requests, req[q].on # Nobody PROVE FALSE
        OBVIOUS
      <3>1. req[q].on \in Requests
        BY <1>3 DEF Asked
      <3>2. burst[req[q].on].step > 0
        BY <1>3 DEF Served
      <3> QED
        BY <2>7, <3>1, <3>2
    <2>9. \A q \in Requests : Served(q)'
      BY <1>2, <1>3, <2>3, <2>4, <2>5, <2>8, FeedAssumption DEF Served
    <2>10. \A q \in Requests : Bursting(q)'
      BY <1>2, <1>3, <2>1, <2>4, <2>5, <2>7, FeedAssumption DEF Bursting
    <2> QED
      BY <2>1, <2>4, <2>5, <2>6, <2>9, <2>10, FeedAssumption DEF FeedInv
  <1> QED
    BY <1>5, <1>6, <1>7

\* One chain of a refresh answers.
LEMMA RankSafe ==
  ASSUME FeedInv, NEW r \in Requests, RankChain(r)
  PROVE  FeedInv'
  <1>1. PICK ok \in BOOLEAN :
           burst' = [burst EXCEPT ![r] = [step |-> @.step + 1, at |-> @.at, ok |-> @.ok \/ ok]]
    BY DEF RankChain
  <1>2. /\ FeedTyped /\ burst \in [Requests -> Bursts] /\ burst[r] \in Bursts
        /\ burst[r].step > 0
        /\ UNCHANGED <<clock, snapshot, inFlight, req, lastBurst>>
    BY DEF FeedInv, FeedTyped, RankChain
  <1> DEFINE b == [step |-> burst[r].step + 1, at |-> burst[r].at, ok |-> burst[r].ok \/ ok]
  <1>3. b \in Bursts /\ b.step > 0 /\ b.at = burst[r].at
    BY <1>2 DEF Bursts
  <1>4. burst' = [burst EXCEPT ![r] = b]
    BY <1>1, <1>2
  <1> HIDE DEF b
  <1>5. burst'[r] = b /\ \A q \in Requests : q # r => burst'[q] = burst[q]
    BY <1>2, <1>4
  <1>6. FeedTyped'
    <2>1. burst' \in [Requests -> Bursts]
      BY <1>2, <1>3, <1>4
    <2> QED
      BY <1>2, <2>1 DEF FeedTyped
  <1>7. (\A q \in Requests : Served(q)') /\ (\A q \in Requests : Bursting(q)')
    <2>1. \A q \in Requests : req[q].on \in Requests \cup {Nobody}
      BY <1>2 DEF FeedTyped, Asked
    <2>2. \A q \in Requests : Served(q)'
      BY <1>2, <1>3, <1>5, <2>1 DEF FeedInv, Served
    <2>3. \A q \in Requests : Bursting(q)'
      BY <1>2, <1>3, <1>5 DEF FeedInv, Bursting
    <2> QED
      BY <2>2, <2>3
  <1>8. inFlight # Nobody => burst'[inFlight].step > 0
    BY <1>2, <1>3, <1>5 DEF FeedInv, FeedTyped
  <1> QED
    BY <1>2, <1>6, <1>7, <1>8 DEF FeedInv

\* A refresh ends, and everyone who waits has waited for it.
LEMMA EndBurstSafe ==
  ASSUME FeedInv, NEW r \in Requests, EndBurst(r)
  PROVE  FeedInv'
  <1> DEFINE b == burst[r]
             s == IF b.ok THEN [at |-> b.at, stale |-> FALSE] ELSE Fallback(b)
             l == [lastBurst EXCEPT !.ended = IF b.ok THEN "ok" ELSE "failed"]
  <1>1. /\ FeedTyped /\ b \in Bursts /\ snapshot \in Snapshots
        /\ req \in [Requests -> Asked] /\ burst \in [Requests -> Bursts]
        /\ \A q \in Requests : Served(q) /\ Bursting(q)
    BY DEF FeedInv, FeedTyped
  <1>2. /\ b.step > 0
        /\ snapshot' = IF ~b.ok /\ snapshot = None THEN None ELSE s
        /\ inFlight' = IF inFlight = r THEN Nobody ELSE inFlight
        /\ burst' = [burst EXCEPT ![r] = NoBurst]
        /\ req' = [q \in Requests |-> IF req[q].on = r THEN Given(req[q], s) ELSE req[q]]
        /\ lastBurst' = l
        /\ clock' = clock
    BY FeedAssumption DEF EndBurst
  <1>3. /\ inFlight = r /\ lastBurst = [at |-> b.at, ended |-> "running"]
        /\ b.at <= clock /\ clock - b.at <= MaxBurst
    BY <1>1, <1>2 DEF Bursting
  <1>4. /\ s \in Snapshots
        /\ b.ok => s.at = b.at
        /\ ~s.stale => s.at = b.at
    BY <1>1, FallbackTyped DEF Snapshots, Bursts
  <1>5. l = [at |-> b.at, ended |-> IF b.ok THEN "ok" ELSE "failed"]
    BY <1>3
  <1>6. /\ b.at \in Nat /\ b.ok \in BOOLEAN
        /\ None \in Snapshots /\ NoBurst \in Bursts /\ NoBurst.step = 0
    BY <1>1 DEF Bursts, None, Snapshots, NoBurst
  <1>7. /\ l \in [at : Int, ended : {"running", "ok", "failed"}]
        /\ l.at = b.at /\ l.ended # "running" /\ (l.ended = "ok" <=> b.ok)
    BY <1>5, <1>6
  <1> HIDE DEF b, s, l
  <1>8. \A q \in Requests : q # r => burst[q].step = 0
    <2> SUFFICES ASSUME NEW q \in Requests, q # r PROVE burst[q].step = 0
      OBVIOUS
    <2>1. ~(burst[q].step > 0) /\ burst[q] \in Bursts
      BY <1>1, <1>3 DEF Bursting
    <2> QED
      BY <2>1 DEF Bursts
  <1>9. \A q \in Requests : Given(req[q], s) \in Asked /\ Given(req[q], s).on = Nobody
           /\ Given(req[q], s).pc \in {"have", "build"}
           /\ Given(req[q], s).asked = req[q].asked /\ Given(req[q], s).got = s
    BY <1>1, <1>4, GivenTyped
  <1>10. \A q \in Requests : burst'[q].step = 0
    BY <1>1, <1>2, <1>6, <1>8
  <1>11. FeedTyped'
    BY <1>1, <1>2, <1>4, <1>6, <1>7, <1>9 DEF FeedTyped
  <1>12. \A q \in Requests : Served(q)'
    <2> SUFFICES ASSUME NEW q \in Requests PROVE Served(q)'
      OBVIOUS
    <2>0. req[q] \in Asked /\ Served(q)
      BY <1>1
    <2>1. CASE req[q].on = r
      <3>1. req[q].pc = "wait" /\ req[q].asked <= clock /\ req[q].asked \in Nat /\ clock \in Nat
        BY <1>1, <2>0, <2>1, FeedAssumption DEF Served, Asked, FeedTyped
      <3>2. ~s.stale => req[q].asked - s.at < TTL
        BY <1>3, <1>4, <1>6, <3>1, FeedAssumption
      <3>3. req'[q] = Given(req[q], s)
        BY <1>2, <2>1
      <3> QED
        BY <1>9, <3>2, <3>3 DEF Served
    <2>2. CASE req[q].on # r
      <3>1. req[q].on = Nobody
        BY <1>8, <2>0, <2>2 DEF Served, Asked
      <3>2. req'[q] = req[q]
        BY <1>2, <2>2
      <3> QED
        BY <1>2, <2>0, <3>1, <3>2 DEF Served
    <2> QED
      BY <2>1, <2>2
  <1>13. \A q \in Requests : Bursting(q)'
    BY <1>10 DEF Bursting
  <1>14. b.ok => snapshot' = s
    BY <1>2
  <1> QED
    BY <1>2, <1>3, <1>4, <1>6, <1>7, <1>11, <1>12, <1>13, <1>14 DEF FeedInv

\* What is left: answers, briefings, the clock and crashes.
LEMMA RestSafe ==
  ASSUME FeedInv,
         (\E r \in Requests : Answer(r) \/ Build(r)) \/ FeedTick \/ FeedCrash \/ UNCHANGED feedVars
  PROVE  FeedInv'
  <1>1. /\ FeedTyped /\ req \in [Requests -> Asked] /\ burst \in [Requests -> Bursts]
        /\ clock \in Nat
        /\ \A q \in Requests : Served(q) /\ Bursting(q)
    BY DEF FeedInv, FeedTyped
  <1>2. None \in Snapshots /\ NoBurst \in Bursts /\ NoBurst.step = 0
    BY DEF None, NoBurst, Snapshots, Bursts
  <1>3. Resting \in Asked /\ Resting.on = Nobody /\ Resting.pc = "idle"
    BY <1>2 DEF Resting, Asked
  <1>4. ASSUME NEW r \in Requests, Answer(r) \/ Build(r) PROVE FeedInv'
    <2>1. /\ req' = [req EXCEPT ![r] = Resting]
          /\ UNCHANGED <<clock, snapshot, inFlight, burst, lastBurst>>
      BY <1>4 DEF Answer, Build
    <2>2. req'[r] = Resting /\ \A q \in Requests : q # r => req'[q] = req[q]
      BY <1>1, <2>1
    <2>3. FeedTyped'
      BY <1>1, <1>3, <2>1 DEF FeedTyped
    <2>4. \A q \in Requests : Served(q)' /\ Bursting(q)'
      BY <1>1, <1>3, <2>1, <2>2 DEF Served, Bursting
    <2> QED
      BY <2>1, <2>3, <2>4 DEF FeedInv
  <1>5. CASE FeedTick
    <2>1. /\ clock' = clock + 1
          /\ \A r \in Requests : burst[r].step > 0 => clock - burst[r].at < MaxBurst
          /\ UNCHANGED <<snapshot, inFlight, burst, req, lastBurst>>
      BY <1>5 DEF FeedTick
    <2>2. FeedTyped'
      BY <1>1, <2>1 DEF FeedTyped
    <2>3. \A q \in Requests : Served(q)'
      BY <1>1, <2>1 DEF Served, Asked
    <2>4. \A q \in Requests : Bursting(q)'
      BY <1>1, <2>1, FeedAssumption DEF Bursting, Bursts
    <2> QED
      BY <2>1, <2>2, <2>3, <2>4 DEF FeedInv
  <1>6. CASE FeedCrash
    <2>1. /\ snapshot' = None /\ inFlight' = Nobody
          /\ burst' = [r \in Requests |-> NoBurst]
          /\ req' = [r \in Requests |-> Resting]
          /\ lastBurst' = NeverRefreshed /\ clock' = clock
      BY <1>6 DEF FeedCrash
    <2>2. NeverRefreshed \in [at : Int, ended : {"running", "ok", "failed"}]
          /\ NeverRefreshed.ended = "failed"
      BY DEF NeverRefreshed
    <2>3. FeedTyped'
      BY <1>1, <1>2, <1>3, <2>1, <2>2 DEF FeedTyped
    <2>4. \A q \in Requests : Served(q)' /\ Bursting(q)'
      BY <1>2, <1>3, <2>1 DEF Served, Bursting
    <2> QED
      BY <2>1, <2>2, <2>3, <2>4 DEF FeedInv
  <1>7. CASE UNCHANGED feedVars
    BY <1>7 DEF feedVars, FeedInv, FeedTyped, Served, Bursting
  <1> QED
    BY <1>4, <1>5, <1>6, <1>7

LEMMA FeedStepSafe == FeedInv /\ [FeedNext]_feedVars => FeedInv'
  BY AskSafe, RankSafe, EndBurstSafe, RestSafe DEF FeedNext, FeedStep

LEMMA FeedSafe == FeedSpec => []FeedInv
  BY FeedInitSafe, FeedStepSafe, PTL DEF FeedSpec

---------------------------------------------------------------------------
(* What the cache keeps *)

\* An answer that is not marked stale was ranked less than a TTL before it was
\* asked for, whoever's refresh it came from and however long that took
\* (trendingCache.ts).
THEOREM AnswersAreHonest == FeedSpec => []AnswersHonest
  <1>1. FeedInv => AnswersHonest
    BY DEF FeedInv, Served, AnswersHonest
  <1> QED
    BY <1>1, FeedSafe, PTL

\* GMGN sees one burst at a time, and the next one only after the last one failed
\* or its snapshot expired, whatever the requests and the crashes.
THEOREM BurstsAreSpaced == FeedSpec => BurstsSpaced
  <1> DEFINE Spaced ==
        \A r \in Requests :
            burst[r].step = 0 /\ burst'[r].step = 1 =>
                \/ lastBurst.ended = "failed"
                \/ lastBurst.ended = "ok" /\ clock - lastBurst.at >= TTL
  <1>1. FeedInv /\ [FeedNext]_feedVars => [Spaced]_feedVars
    <2> SUFFICES ASSUME FeedInv, FeedNext, NEW r \in Requests,
                        burst[r].step = 0, burst'[r].step = 1
                 PROVE  \/ lastBurst.ended = "failed"
                        \/ lastBurst.ended = "ok" /\ clock - lastBurst.at >= TTL
      OBVIOUS
    <2>0. /\ burst \in [Requests -> Bursts]
          /\ lastBurst \in [at : Int, ended : {"running", "ok", "failed"}]
      BY DEF FeedInv, FeedTyped
    <2>1. Ask(r)
      <3>1. ASSUME NEW q \in Requests, q # r, Ask(q) \/ RankChain(q) \/ EndBurst(q) PROVE FALSE
        BY <2>0, <3>1 DEF Ask, Get, RankChain, EndBurst
      <3>2. ~RankChain(r)
        BY <2>0, FeedAssumption DEF RankChain
      <3>3. ~EndBurst(r) /\ ~FeedCrash
        BY <2>0 DEF EndBurst, FeedCrash, NoBurst
      <3>4. ASSUME NEW q \in Requests, Answer(q) \/ Build(q) PROVE FALSE
        BY <2>0, <3>4 DEF Answer, Build
      <3>5. ~FeedTick
        BY <2>0 DEF FeedTick
      <3> QED
        BY <3>1, <3>2, <3>3, <3>4, <3>5 DEF FeedNext, FeedStep
    <2>2. IsStale /\ inFlight = Nobody
      BY <2>0, <2>1 DEF Ask, Get, Shared
    <2>3. lastBurst.ended # "running"
      BY <2>2 DEF FeedInv
    <2>4. lastBurst.ended = "ok" => lastBurst.at >= 0 /\ snapshot.at = lastBurst.at
      BY DEF FeedInv
    <2> QED
      BY <2>0, <2>2, <2>3, <2>4 DEF IsStale, None
  <1> QED
    BY <1>1, FeedSafe, PTL DEF FeedSpec, BurstsSpaced

---------------------------------------------------------------------------
(* The browse view.  A row that got worse (Worse) is no better metric by   *)
(* metric and knows as much as before.  Each index then falls, or is as    *)
(* insufficient as it was (Fell), but one: the flow, which comes with the  *)
(* first trades and goes with the last, and then at the end of its scale.  *)
(* The blend is a fraction with those in its numerator and their weights   *)
(* in its denominator; products of both compare it (BlendFalls), and       *)
(* rounding keeps the order (RoundFalls).                                  *)

\* A row that was read, and one that got worse.
Scored(r) ==
    /\ r = [m \in Metrics \cup {"holders"} |-> r[m]]
    /\ \A m \in Metrics : r[m] \in Values(m) \cup {Unknown}
    /\ r["holders"] \in Nat

Worse(r, s) ==
    /\ Scored(r) /\ Scored(s) /\ s["holders"] = r["holders"]
    /\ \A m \in Metrics :
          \/ r[m] = Unknown /\ s[m] = Unknown
          \/ r[m] \in Values(m) /\ s[m] \in Values(m) /\ NotBetter(m, r[m], s[m])

Rising == Risks \ Flags

Falling == Metrics \ (Risks \cup Flags)

\* A number of either row, and of the row as the indices get it.
LEMMA NumbersOf ==
  ASSUME NEW r, NEW s, Worse(r, s), NEW m \in Metrics \ Flags
  PROVE  /\ OrZero(r, m) \in Int /\ OrZero(s, m) \in Int
         /\ m # "change" => OrZero(r, m) \in Nat /\ OrZero(s, m) \in Nat
         /\ m \in Percentages => OrZero(r, m) \in 0..100 /\ OrZero(s, m) \in 0..100
         /\ m = "marketCap" /\ Has(r, m) => OrZero(r, m) > 0 /\ OrZero(s, m) > 0
         /\ Has(r, m) <=> Has(s, m)
         /\ Has(r, m) => r[m] = OrZero(r, m) /\ s[m] = OrZero(s, m)
         /\ m \in Rising => OrZero(r, m) <= OrZero(s, m)
         /\ m \in Falling => OrZero(s, m) <= OrZero(r, m)
  <1>1. CASE r[m] = Unknown /\ s[m] = Unknown
    BY <1>1 DEF OrZero, Has
  <1>2. CASE r[m] \in Values(m) /\ s[m] \in Values(m) /\ NotBetter(m, r[m], s[m])
    <2>1. /\ r[m] \in Int /\ s[m] \in Int
          /\ m # "change" => r[m] \in Nat /\ s[m] \in Nat
          /\ m \in Percentages => r[m] \in 0..100 /\ s[m] \in 0..100
          /\ m = "marketCap" => r[m] > 0 /\ s[m] > 0
      BY <1>2 DEF Values, Percentages, Flags
    <2>2. m \in Rising => r[m] <= s[m]
      BY <1>2 DEF NotBetter, Rising
    <2>3. m \in Falling => s[m] <= r[m]
      BY <1>2 DEF NotBetter, Falling
    <2>4. Has(r, m) /\ Has(s, m)
      BY <2>1, NewsAssumption DEF Has
    <2> QED
      BY <2>1, <2>2, <2>3, <2>4 DEF OrZero
  <1> QED
    BY <1>1, <1>2 DEF Worse

LEMMA FlagsOf ==
  ASSUME NEW r, NEW s, Worse(r, s), NEW m \in Flags
  PROVE  /\ m \in Risks => (r[m] = TRUE => s[m] = TRUE)
         /\ m \notin Risks => (s[m] = TRUE => r[m] = TRUE)
  <1>1. CASE r[m] = Unknown /\ s[m] = Unknown
    BY <1>1
  <1>2. CASE r[m] \in Values(m) /\ s[m] \in Values(m) /\ NotBetter(m, r[m], s[m])
    <2>0. Values(m) = BOOLEAN
      BY DEF Values, Percentages, Flags
    <2>1. r[m] \in BOOLEAN /\ s[m] \in BOOLEAN
      BY <1>2, <2>0, Zenon
    <2>2. m \in Risks => (r[m] => s[m])
      BY <1>2 DEF NotBetter
    <2>3. m \notin Risks => (s[m] => r[m])
      BY <1>2 DEF NotBetter
    <2> QED
      BY <2>1, <2>2, <2>3
  <1> QED
    BY <1>1, <1>2 DEF Worse, Metrics

\* The inputs of the indices: the numbers of the row, and flags that are known.
LEMMA InputsOf ==
  ASSUME NEW r, NEW s, Worse(r, s)
  PROVE  /\ \A m \in Metrics \ Flags : /\ IndexInputs(r)[m] = r[m] /\ IndexInputs(s)[m] = s[m]
                                       /\ OrZero(IndexInputs(r), m) = OrZero(r, m)
                                       /\ OrZero(IndexInputs(s), m) = OrZero(s, m)
                                       /\ Has(IndexInputs(r), m) <=> Has(r, m)
                                       /\ Has(IndexInputs(s), m) <=> Has(s, m)
         /\ \A m \in Flags : /\ IndexInputs(r)[m] \in BOOLEAN /\ IndexInputs(s)[m] \in BOOLEAN
                             /\ m \in Risks => (IndexInputs(r)[m] => IndexInputs(s)[m])
                             /\ m \notin Risks => (IndexInputs(s)[m] => IndexInputs(r)[m])
                             /\ Has(IndexInputs(r), m) /\ Has(IndexInputs(s), m)
         /\ IndexInputs(r)["holders"] = r["holders"] /\ IndexInputs(s)["holders"] = r["holders"]
  <1>1. DOMAIN r = Metrics \cup {"holders"} /\ DOMAIN s = Metrics \cup {"holders"}
    BY DEF Worse, Scored
  <1>2. \A m \in Metrics \ Flags : IndexInputs(r)[m] = r[m] /\ IndexInputs(s)[m] = s[m]
    BY <1>1 DEF IndexInputs
  <1>3. ASSUME NEW m \in Flags
        PROVE  /\ IndexInputs(r)[m] = (r[m] = TRUE) /\ IndexInputs(s)[m] = (s[m] = TRUE)
    <2>1. m \in DOMAIN r /\ m \in DOMAIN s
      BY <1>1 DEF Metrics
    <2> QED
      BY <2>1 DEF IndexInputs
  <1>4. IndexInputs(r)["holders"] = r["holders"] /\ IndexInputs(s)["holders"] = r["holders"]
    BY <1>1 DEF IndexInputs, Flags, Worse
  <1>5. ASSUME NEW m \in Metrics \ Flags
        PROVE  /\ OrZero(IndexInputs(r), m) = OrZero(r, m)
               /\ OrZero(IndexInputs(s), m) = OrZero(s, m)
               /\ Has(IndexInputs(r), m) <=> Has(r, m)
               /\ Has(IndexInputs(s), m) <=> Has(s, m)
    BY <1>2 DEF OrZero, Has
  <1>6. ASSUME NEW m \in Flags
        PROVE  /\ IndexInputs(r)[m] \in BOOLEAN /\ IndexInputs(s)[m] \in BOOLEAN
               /\ m \in Risks => (IndexInputs(r)[m] => IndexInputs(s)[m])
               /\ m \notin Risks => (IndexInputs(s)[m] => IndexInputs(r)[m])
               /\ Has(IndexInputs(r), m) /\ Has(IndexInputs(s), m)
    <2>1. IndexInputs(r)[m] \in BOOLEAN /\ IndexInputs(s)[m] \in BOOLEAN
      BY <1>3
    <2>2. m \in Risks => (IndexInputs(r)[m] => IndexInputs(s)[m])
      BY <1>3, FlagsOf
    <2>3. m \notin Risks => (IndexInputs(s)[m] => IndexInputs(r)[m])
      BY <1>3, FlagsOf
    <2>4. Has(IndexInputs(r), m) /\ Has(IndexInputs(s), m)
      BY <2>1, NewsAssumption DEF Has
    <2> QED
      BY <2>1, <2>2, <2>3, <2>4
  <1> QED
    BY <1>2, <1>4, <1>5, <1>6

---------------------------------------------------------------------------
(* Rounding *)

LEMMA ProductsRise ==
  ASSUME NEW a \in Int, NEW b \in Int, NEW k \in Nat, a <= b
  PROVE  a * k <= b * k /\ a * k \in Int /\ b * k \in Int /\ k * a <= k * b
  <1>1. \A n \in Nat : n * k \in Nat
    OBVIOUS
  <1>2. b = a + (b - a) /\ b - a \in Nat
    OBVIOUS
  <1>3. (a + (b - a)) * k = a * k + (b - a) * k
    OBVIOUS
  <1>4. k * a = a * k /\ k * b = b * k /\ a * k \in Int /\ b * k \in Int
    OBVIOUS
  <1> QED
    BY <1>1, <1>2, <1>3, <1>4

LEMMA RoundBounds ==
  ASSUME NEW n \in Nat, NEW d \in Nat \ {0}
  PROVE  /\ Round(n, d) \in Nat
         /\ Round(n, d) * (2 * d) <= 2 * n + d
         /\ 2 * n + d < Round(n, d) * (2 * d) + 2 * d
  <1>1. \A a \in Nat, p \in Nat \ {0} :
           a \div p \in Nat /\ (a \div p) * p <= a /\ a < (a \div p) * p + p
    OBVIOUS
  <1>2. 2 * n + d \in Nat /\ 2 * d \in Nat \ {0}
    OBVIOUS
  <1> QED
    BY <1>1, <1>2 DEF Round

\* A smaller quotient is not rounded to more.
LEMMA RoundFalls ==
  ASSUME NEW n \in Nat, NEW d \in Nat \ {0}, NEW m \in Nat, NEW e \in Nat \ {0},
         m * d <= n * e
  PROVE  Round(m, e) <= Round(n, d)
  <1> DEFINE p == Round(n, d)
             q == Round(m, e)
  <1>1. p \in Nat /\ q \in Nat /\ 2 * n + d < p * (2 * d) + 2 * d /\ q * (2 * e) <= 2 * m + e
    BY RoundBounds
  <1> HIDE DEF p, q
  <1>2. SUFFICES ASSUME p + 1 <= q
                 PROVE  FALSE
    BY <1>1 DEF p, q
  <1>3. 2 * n + d < q * (2 * d)
    <2>1. (p + 1) * (2 * d) <= q * (2 * d)
      BY <1>1, <1>2, ProductsRise
    <2>2. (p + 1) * (2 * d) = p * (2 * d) + 2 * d
      BY <1>1
    <2>3. p * (2 * d) \in Int /\ q * (2 * d) \in Int
      BY <1>1
    <2> QED
      BY <1>1, <2>1, <2>2, <2>3
  <1>4. (2 * n + d + 1) * e <= (q * (2 * d)) * e
    <2>1. q * (2 * d) \in Int
      BY <1>1
    <2> QED
      BY <1>3, <2>1, ProductsRise
  <1>5. (q * (2 * e)) * d <= (2 * m + e) * d
    <2>1. q * (2 * e) \in Int
      BY <1>1
    <2> QED
      BY <1>1, <2>1, ProductsRise
  <1>6. /\ (q * (2 * e)) * d = (q * (2 * d)) * e
        /\ (2 * m + e) * d = 2 * (m * d) + e * d
        /\ (2 * n + d + 1) * e = 2 * (n * e) + e * d + e
        /\ m * d \in Int /\ n * e \in Int /\ e * d \in Int /\ (q * (2 * d)) * e \in Int
    BY <1>1
  <1> QED
    BY <1>4, <1>5, <1>6

LEMMA RoundSame ==
  ASSUME NEW n \in Nat, NEW m \in Nat, NEW d \in Nat \ {0}, m <= n
  PROVE  Round(m, d) <= Round(n, d) /\ Round(m, d) \in Nat /\ Round(n, d) \in Nat
  <1>1. m * d <= n * d
    BY ProductsRise
  <1>2. Round(m, d) <= Round(n, d)
    BY <1>1, RoundFalls
  <1> QED
    BY <1>2, RoundBounds

LEMMA RoundShare ==
  ASSUME NEW n \in Nat, NEW d \in Nat \ {0}, n <= 100 * d
  PROVE  Round(n, d) \in 0..100
  <1>1. Round(100, 1) = 100
    BY DEF Round
  <1>2. Round(n, d) <= Round(100, 1)
    <2>1. n * 1 <= 100 * d
      OBVIOUS
    <2> QED
      BY <2>1, RoundFalls
  <1>3. Round(n, d) \in Nat
    BY RoundBounds
  <1> QED
    BY <1>1, <1>2, <1>3

LEMMA RoundNat ==
  ASSUME NEW n \in Nat, NEW d \in Nat \ {0}
  PROVE  Round(n, d) \in Nat
  BY RoundBounds

LEMMA ClampRises ==
  ASSUME NEW x \in Int, NEW y \in Int, x <= y
  PROVE  Clamp(x) \in 0..100 /\ Clamp(y) \in 0..100 /\ Clamp(x) <= Clamp(y)
  BY DEF Clamp

---------------------------------------------------------------------------
(* The indices *)

\* An index that fell, or is as insufficient as it was.
Fell(x, y) ==
    /\ x.score \in 0..100 \cup {Unknown} /\ y.score \in 0..100 \cup {Unknown}
    /\ x.better \in BOOLEAN /\ y.better = x.better
    /\ x.score = Unknown <=> y.score = Unknown
    /\ x.score # Unknown => IF x.better THEN y.score <= x.score ELSE x.score <= y.score

LEMMA BothIndices ==
  ASSUME NEW a, NEW b, NEW better \in BOOLEAN,
         \/ a = Unknown /\ b = Unknown
         \/ a \in 0..100 /\ b \in 0..100 /\ IF better THEN b <= a ELSE a <= b
  PROVE  Fell(Index(a, better), Index(b, better))
  BY NewsAssumption DEF Fell, Index

LEMMA AbsorptionFalls ==
  ASSUME NEW r, NEW s, Worse(r, s)
  PROVE  Fell(Absorption(IndexInputs(r)), Absorption(IndexInputs(s)))
  <1> DEFINE i == IndexInputs(r)
             j == IndexInputs(s)
  <1>1. /\ "liquidity" \in Metrics \ Flags /\ "marketCap" \in Metrics \ Flags
        /\ "liquidity" \in Falling /\ "marketCap" \in Rising
    BY DEF Metrics, Flags, Falling, Rising, Risks
  <1>2. /\ Has(i, "liquidity") <=> Has(j, "liquidity")
        /\ Has(i, "marketCap") <=> Has(j, "marketCap")
        /\ Has(i, "liquidity") => /\ i["liquidity"] \in Nat /\ j["liquidity"] \in Nat
                                  /\ j["liquidity"] <= i["liquidity"]
        /\ Has(i, "marketCap") => /\ i["marketCap"] \in Nat \ {0} /\ j["marketCap"] \in Nat \ {0}
                                  /\ i["marketCap"] <= j["marketCap"]
    BY <1>1, NumbersOf, InputsOf
  <1> HIDE DEF i, j
  <1>3. CASE Has(i, "liquidity") /\ Has(i, "marketCap")
    <2> DEFINE a == Clamp(Round(500 * i["liquidity"], i["marketCap"]))
               b == Clamp(Round(500 * j["liquidity"], j["marketCap"]))
    <2>1. b <= a /\ a \in 0..100 /\ b \in 0..100
      <3>1. (500 * j["liquidity"]) * i["marketCap"] <= (500 * i["liquidity"]) * j["marketCap"]
        <4>1. j["liquidity"] * i["marketCap"] <= i["liquidity"] * i["marketCap"]
          BY <1>2, <1>3, ProductsRise
        <4>2. i["liquidity"] * i["marketCap"] <= i["liquidity"] * j["marketCap"]
          BY <1>2, <1>3, ProductsRise
        <4> QED
          BY <1>2, <1>3, <4>1, <4>2
      <3>2. 500 * i["liquidity"] \in Nat /\ 500 * j["liquidity"] \in Nat
        BY <1>2, <1>3
      <3>3. Round(500 * j["liquidity"], j["marketCap"]) <= Round(500 * i["liquidity"], i["marketCap"])
        BY <1>2, <1>3, <3>1, <3>2, RoundFalls
      <3>4. /\ Round(500 * i["liquidity"], i["marketCap"]) \in Int
            /\ Round(500 * j["liquidity"], j["marketCap"]) \in Int
        BY <1>2, <1>3, <3>2, RoundNat
      <3> QED
        BY <3>3, <3>4, ClampRises
    <2>2. Absorption(i) = Index(a, TRUE) /\ Absorption(j) = Index(b, TRUE)
      <3>1. i.marketCap > 0 /\ j.marketCap > 0
        BY <1>2, <1>3
      <3> QED
        BY <1>2, <1>3, <3>1, Zenon DEF Absorption
    <2> HIDE DEF a, b
    <2> QED
      BY <2>1, <2>2, BothIndices DEF i, j
  <1>4. CASE ~(Has(i, "liquidity") /\ Has(i, "marketCap"))
    <2>1. Absorption(i) = Index(Unknown, TRUE) /\ Absorption(j) = Index(Unknown, TRUE)
      BY <1>2, <1>4 DEF Absorption, Insufficient
    <2> QED
      BY <2>1, BothIndices DEF i, j
  <1> QED
    BY <1>3, <1>4

LEMMA ConcentrationFalls ==
  ASSUME NEW r, NEW s, Worse(r, s)
  PROVE  Fell(Concentration(IndexInputs(r)), Concentration(IndexInputs(s)))
  <1> DEFINE i == IndexInputs(r)
             j == IndexInputs(s)
             InFew(k) == 45 * k["top10"] + 25 * OrZero(k, "dev") + 20 * OrZero(k, "topSnipers")
                        + 10 * OrZero(k, "bundlers")
  <1>1. \A m \in {"top10", "dev", "topSnipers", "bundlers"} :
           m \in Metrics \ Flags /\ m \in Rising /\ m # "change"
    BY DEF Metrics, Flags, Rising, Risks
  <1>2. \A m \in {"top10", "dev", "topSnipers", "bundlers"} :
           /\ OrZero(i, m) \in Nat /\ OrZero(j, m) \in Nat /\ OrZero(i, m) <= OrZero(j, m)
           /\ Has(i, m) <=> Has(j, m)
           /\ Has(i, m) => i[m] = OrZero(i, m) /\ j[m] = OrZero(j, m)
    BY <1>1, NumbersOf, InputsOf
  <1> HIDE DEF i, j
  <1>3. CASE Has(i, "top10")
    <2>1. InFew(i) \in Nat /\ InFew(j) \in Nat /\ InFew(i) <= InFew(j)
      BY <1>2, <1>3
    <2>2. Concentration(i) = Index(Clamp(Round(InFew(i), 100)), FALSE)
          /\ Concentration(j) = Index(Clamp(Round(InFew(j), 100)), FALSE)
      BY <1>2, <1>3 DEF Concentration
    <2> HIDE DEF InFew
    <2>3. Round(InFew(i), 100) <= Round(InFew(j), 100)
          /\ Round(InFew(i), 100) \in Int /\ Round(InFew(j), 100) \in Int
      BY <2>1, RoundSame
    <2> QED
      BY <2>2, <2>3, ClampRises, BothIndices DEF i, j
  <1>4. CASE ~Has(i, "top10")
    <2>1. Concentration(i) = Index(Unknown, FALSE) /\ Concentration(j) = Index(Unknown, FALSE)
      BY <1>2, <1>4 DEF Concentration, Insufficient
    <2> QED
      BY <2>1, BothIndices DEF i, j
  <1> QED
    BY <1>3, <1>4

\* Wash trading is always known to the indices, so this one never lacks.
LEMMA OrganicFalls ==
  ASSUME NEW r, NEW s, Worse(r, s)
  PROVE  /\ Fell(Organic(IndexInputs(r)), Organic(IndexInputs(s)))
         /\ Organic(IndexInputs(r)).score # Unknown
  <1> DEFINE i == IndexInputs(r)
             j == IndexInputs(s)
             Genuine(k) == (100 - OrZero(k, "bots")) * (100 - OrZero(k, "rats"))
             Times(k) == IF k.wash = TRUE THEN 1 ELSE 2
             Whole(k) == Genuine(k) * Times(k)
  <1>1. \A m \in {"bots", "rats"} : m \in Metrics \ Flags /\ m \in Rising /\ m \in Percentages
    BY DEF Metrics, Flags, Rising, Risks, Percentages
  <1>2. \A m \in {"bots", "rats"} :
           OrZero(i, m) \in 0..100 /\ OrZero(j, m) \in 0..100 /\ OrZero(i, m) <= OrZero(j, m)
    BY <1>1, NumbersOf, InputsOf
  <1>3. "wash" \in Flags /\ "wash" \in Risks
    BY DEF Flags, Risks
  <1>4. i["wash"] \in BOOLEAN /\ j["wash"] \in BOOLEAN /\ (i["wash"] => j["wash"])
        /\ Has(i, "wash") /\ Has(j, "wash")
    BY <1>3, InputsOf
  <1> HIDE DEF i, j
  <1>5. Genuine(j) <= Genuine(i) /\ Genuine(i) \in Nat /\ Genuine(j) \in Nat
    <2> DEFINE a == 100 - OrZero(i, "bots")
               b == 100 - OrZero(i, "rats")
               c == 100 - OrZero(j, "bots")
               d == 100 - OrZero(j, "rats")
    <2>1. {a, b, c, d} \subseteq Nat /\ c <= a /\ d <= b
      BY <1>2
    <2> HIDE DEF a, b, c, d
    <2>2. c * d <= a * d /\ d * a <= b * a
      BY <2>1, ProductsRise
    <2>3. c * d <= a * b /\ a * b \in Nat /\ c * d \in Nat
      BY <2>1, <2>2
    <2> QED
      BY <2>3 DEF a, b, c, d
  <1>6. Whole(j) <= Whole(i) /\ Whole(i) \in Nat /\ Whole(j) \in Nat
    <2> HIDE DEF Genuine
    <2>1. (Times(i) = 1 /\ Times(j) = 1) \/ (Times(i) = 2 /\ Times(j) \in {1, 2})
      BY <1>4, Zenon
    <2> HIDE DEF Times
    <2> QED
      BY <1>5, <2>1
  <1>7. Organic(i) = Index(Clamp(Round(Whole(i), 200)), TRUE)
        /\ Organic(j) = Index(Clamp(Round(Whole(j), 200)), TRUE)
    BY <1>4, Zenon DEF Organic
  <1> HIDE DEF Whole
  <1>8. Round(Whole(j), 200) <= Round(Whole(i), 200)
        /\ Round(Whole(i), 200) \in Int /\ Round(Whole(j), 200) \in Int
    BY <1>6, RoundSame
  <1>9. Clamp(Round(Whole(j), 200)) <= Clamp(Round(Whole(i), 200))
        /\ Clamp(Round(Whole(j), 200)) \in 0..100 /\ Clamp(Round(Whole(i), 200)) \in 0..100
    BY <1>8, ClampRises
  <1>10. Organic(i).score # Unknown
    <2>1. Clamp(Round(Whole(i), 200)) # Unknown
      <3>1. Clamp(Round(Whole(i), 200)) \in Int
        BY <1>9
      <3> QED
        BY <3>1, NewsAssumption
    <2> QED
      BY <1>7, <2>1 DEF Index
  <1> QED
    BY <1>7, <1>9, <1>10, BothIndices DEF i, j

LEMMA SnipersFall ==
  ASSUME NEW r, NEW s, Worse(r, s)
  PROVE  Fell(Snipers(IndexInputs(r)), Snipers(IndexInputs(s)))
  <1> DEFINE i == IndexInputs(r)
             j == IndexInputs(s)
             n == r["holders"]
             Load(k) == 600 * k["snipers"] + OrZero(k, "topSnipers") * n
  <1>1. \A m \in {"snipers", "topSnipers"} : m \in Metrics \ Flags /\ m \in Rising /\ m # "change"
    BY DEF Metrics, Flags, Rising, Risks
  <1>2. \A m \in {"snipers", "topSnipers"} :
           /\ OrZero(i, m) \in Nat /\ OrZero(j, m) \in Nat /\ OrZero(i, m) <= OrZero(j, m)
           /\ Has(i, m) <=> Has(j, m)
           /\ Has(i, m) => i[m] = OrZero(i, m) /\ j[m] = OrZero(j, m)
    BY <1>1, NumbersOf, InputsOf
  <1>3. i["holders"] = n /\ j["holders"] = n /\ n \in Nat
    BY InputsOf DEF Worse, Scored
  <1>4. Has(i, "holders") /\ Has(j, "holders")
    BY <1>3, NewsAssumption DEF Has
  <1> HIDE DEF i, j, n
  <1>5. CASE Has(i, "snipers") /\ n > 0
    <2>1. Load(i) \in Nat /\ Load(j) \in Nat /\ Load(i) <= Load(j)
      <3>1. OrZero(i, "topSnipers") * n <= OrZero(j, "topSnipers") * n
            /\ OrZero(i, "topSnipers") * n \in Nat /\ OrZero(j, "topSnipers") * n \in Nat
        BY <1>2, <1>3, ProductsRise
      <3> QED
        BY <1>2, <1>5, <3>1
    <2>2. Snipers(i) = Index(Clamp(Round(Load(i), n)), FALSE)
          /\ Snipers(j) = Index(Clamp(Round(Load(j), n)), FALSE)
      <3> DEFINE Full(k) == 600 * k["snipers"] + OrZero(k, "topSnipers") * k.holders
      <3>1. /\ Has(i, "snipers") /\ Has(i, "holders") /\ i.holders > 0
            /\ Has(j, "snipers") /\ Has(j, "holders") /\ j.holders > 0
        BY <1>2, <1>3, <1>4, <1>5
      <3>2. Snipers(i) = Index(Clamp(Round(Full(i), i.holders)), FALSE)
        BY <3>1, Zenon DEF Snipers
      <3>3. Snipers(j) = Index(Clamp(Round(Full(j), j.holders)), FALSE)
        BY <3>1, Zenon DEF Snipers
      <3>4. Full(i) = Load(i) /\ Full(j) = Load(j) /\ i.holders = n /\ j.holders = n
        BY <1>3
      <3> HIDE DEF Full, Load
      <3> QED
        BY <3>2, <3>3, <3>4
    <2> HIDE DEF Load
    <2>3. Round(Load(i), n) <= Round(Load(j), n)
          /\ Round(Load(i), n) \in Int /\ Round(Load(j), n) \in Int
      <3>1. n \in Nat \ {0}
        BY <1>3, <1>5
      <3>2. Round(Load(i), n) <= Round(Load(j), n)
            /\ Round(Load(i), n) \in Nat /\ Round(Load(j), n) \in Nat
        BY <2>1, <3>1, RoundSame
      <3> QED
        BY <3>2
    <2> QED
      BY <2>2, <2>3, ClampRises, BothIndices DEF i, j
  <1>6. CASE ~(Has(i, "snipers") /\ n > 0)
    <2>1. Snipers(i) = Index(Unknown, FALSE) /\ Snipers(j) = Index(Unknown, FALSE)
      BY <1>2, <1>3, <1>6, Zenon DEF Snipers, Insufficient
    <2> QED
      BY <2>1, BothIndices DEF i, j
  <1> QED
    BY <1>5, <1>6

LEMMA ConvictionFalls ==
  ASSUME NEW r, NEW s, Worse(r, s)
  PROVE  Fell(Conviction(IndexInputs(r)), Conviction(IndexInputs(s)))
  <1> DEFINE i == IndexInputs(r)
             j == IndexInputs(s)
             n == r["holders"]
             Known(k) == 600 * (2 * OrZero(k, "smart") + 3 * OrZero(k, "renowned"))
  <1>1. \A m \in {"smart", "renowned"} : m \in Metrics \ Flags /\ m \in Falling /\ m # "change"
    BY DEF Metrics, Flags, Falling, Risks
  <1>2. \A m \in {"smart", "renowned"} :
           /\ OrZero(i, m) \in Nat /\ OrZero(j, m) \in Nat /\ OrZero(j, m) <= OrZero(i, m)
           /\ Has(i, m) <=> Has(j, m)
    BY <1>1, NumbersOf, InputsOf
  <1>3. i["holders"] = n /\ j["holders"] = n /\ n \in Nat
    BY InputsOf DEF Worse, Scored
  <1>4. Has(i, "holders") /\ Has(j, "holders")
    BY <1>3, NewsAssumption DEF Has
  <1> HIDE DEF i, j, n
  <1>5. CASE (Has(i, "smart") \/ Has(i, "renowned")) /\ n > 0
    <2>1. Known(i) \in Nat /\ Known(j) \in Nat /\ Known(j) <= Known(i)
      BY <1>2
    <2>2. Conviction(i) = Index(Clamp(Round(Known(i), n)), TRUE)
          /\ Conviction(j) = Index(Clamp(Round(Known(j), n)), TRUE)
      <3>1. /\ Has(i, "smart") \/ Has(i, "renowned")
            /\ Has(j, "smart") \/ Has(j, "renowned")
            /\ i.holders = n /\ j.holders = n /\ n > 0
        BY <1>2, <1>3, <1>5
      <3>2. Conviction(i) = Index(Clamp(Round(Known(i), n)), TRUE)
        BY <1>4, <3>1, Zenon DEF Conviction
      <3>3. Conviction(j) = Index(Clamp(Round(Known(j), n)), TRUE)
        BY <1>4, <3>1, Zenon DEF Conviction
      <3> QED
        BY <3>2, <3>3
    <2> HIDE DEF Known
    <2>3. Round(Known(j), n) <= Round(Known(i), n)
          /\ Round(Known(i), n) \in Int /\ Round(Known(j), n) \in Int
      <3>1. n \in Nat \ {0}
        BY <1>3, <1>5
      <3>2. Round(Known(j), n) <= Round(Known(i), n)
            /\ Round(Known(i), n) \in Nat /\ Round(Known(j), n) \in Nat
        BY <2>1, <3>1, RoundSame
      <3> QED
        BY <3>2
    <2> QED
      BY <2>2, <2>3, ClampRises, BothIndices DEF i, j
  <1>6. CASE ~((Has(i, "smart") \/ Has(i, "renowned")) /\ n > 0)
    <2>1. Conviction(i) = Index(Unknown, TRUE) /\ Conviction(j) = Index(Unknown, TRUE)
      BY <1>2, <1>3, <1>6, Zenon DEF Conviction, Insufficient
    <2> QED
      BY <2>1, BothIndices DEF i, j
  <1> QED
    BY <1>5, <1>6

\* The share of the buys: it may come to lack when the buys were all there was,
\* and to be known when the sells are.
LEMMA FlowFalls ==
  ASSUME NEW r, NEW s, Worse(r, s)
  PROVE  LET x == FlowBalance(IndexInputs(r))
             y == FlowBalance(IndexInputs(s))
         IN  /\ x.better = TRUE /\ y.better = TRUE
             /\ x.score \in 0..100 \cup {Unknown} /\ y.score \in 0..100 \cup {Unknown}
             /\ \/ Fell(x, y)
                \/ x.score = 100 /\ y.score = Unknown
                \/ x.score = Unknown /\ y.score = 0
  <1> DEFINE i == IndexInputs(r)
             j == IndexInputs(s)
             a == i["buys"]
             b == i["sells"]
             c == j["buys"]
             d == j["sells"]
  <1>1. /\ "buys" \in Metrics \ Flags /\ "buys" \in Falling
        /\ "sells" \in Metrics \ Flags /\ "sells" \in Rising
    BY DEF Metrics, Flags, Rising, Falling, Risks
  <1>2. /\ Has(i, "buys") <=> Has(j, "buys")
        /\ Has(i, "sells") <=> Has(j, "sells")
        /\ Has(i, "buys") => a \in Nat /\ c \in Nat /\ c <= a
        /\ Has(i, "sells") => b \in Nat /\ d \in Nat /\ b <= d
    BY <1>1, NumbersOf, InputsOf
  <1> HIDE DEF i, j
  <1>3. ASSUME NEW x \in Nat, NEW y \in Nat, x + y > 0
        PROVE  Round(100 * x, x + y) \in 0..100
    <2>1. 100 * x \in Nat /\ x + y \in Nat \ {0} /\ 100 * x <= 100 * (x + y)
      BY <1>3
    <2> QED
      BY <2>1, RoundShare
  <1>4. CASE ~(Has(i, "buys") /\ Has(i, "sells"))
    <2>1. FlowBalance(i) = Index(Unknown, TRUE) /\ FlowBalance(j) = Index(Unknown, TRUE)
      BY <1>2, <1>4, Zenon DEF FlowBalance, Insufficient
    <2>2. Fell(FlowBalance(i), FlowBalance(j))
      BY <2>1, BothIndices
    <2> QED
      BY <2>1, <2>2 DEF i, j, Index
  <1>5. CASE Has(i, "buys") /\ Has(i, "sells")
    <2>0. {a, b, c, d} \subseteq Nat /\ c <= a /\ b <= d
      BY <1>2, <1>5
    <2>1. FlowBalance(i) = Index(IF a + b > 0 THEN Round(100 * a, a + b) ELSE Unknown, TRUE)
      BY <1>5, Zenon DEF FlowBalance, Insufficient
    <2>2. FlowBalance(j) = Index(IF c + d > 0 THEN Round(100 * c, c + d) ELSE Unknown, TRUE)
      BY <1>2, <1>5, Zenon DEF FlowBalance, Insufficient
    <2> HIDE DEF a, b, c, d
    <2>3. CASE a + b > 0 /\ c + d > 0
      <3>1. Round(100 * c, c + d) <= Round(100 * a, a + b)
        <4>1. c * b <= a * b /\ a * b <= a * d
          BY <2>0, ProductsRise
        <4>2. (100 * c) * (a + b) <= (100 * a) * (c + d)
          <5>1. (100 * c) * (a + b) = 100 * (c * a) + 100 * (c * b)
            BY <2>0
          <5>2. (100 * a) * (c + d) = 100 * (c * a) + 100 * (a * d)
            BY <2>0
          <5>3. c * a \in Int /\ c * b \in Int /\ a * d \in Int /\ a * b \in Int
            BY <2>0
          <5> QED
            BY <4>1, <5>1, <5>2, <5>3
        <4>3. 100 * a \in Nat /\ 100 * c \in Nat /\ a + b \in Nat \ {0} /\ c + d \in Nat \ {0}
          BY <2>0, <2>3
        <4> QED
          BY <4>2, <4>3, RoundFalls
      <3>2. Round(100 * a, a + b) \in 0..100 /\ Round(100 * c, c + d) \in 0..100
        BY <1>3, <2>0, <2>3
      <3>3. FlowBalance(i) = Index(Round(100 * a, a + b), TRUE)
            /\ FlowBalance(j) = Index(Round(100 * c, c + d), TRUE)
        BY <2>1, <2>2, <2>3
      <3>4. Fell(FlowBalance(i), FlowBalance(j))
        BY <3>1, <3>2, <3>3, BothIndices
      <3> QED
        BY <3>2, <3>3, <3>4 DEF i, j, Index
    <2>4. CASE a + b > 0 /\ ~(c + d > 0)
      <3>1. b = 0 /\ a \in Nat \ {0}
        BY <2>0, <2>4
      <3>2. Round(100 * a, a + b) = 100
        <4>1. 100 * a \in Nat /\ a + b = a
          BY <3>1
        <4>2. Round(100, 1) <= Round(100 * a, a)
          <5>1. 100 * a <= (100 * a) * 1
            BY <3>1
          <5> QED
            BY <3>1, <4>1, <5>1, RoundFalls
        <4>3. Round(100, 1) = 100
          BY DEF Round
        <4>4. Round(100 * a, a + b) \in 0..100
          BY <1>3, <2>0, <2>4
        <4> QED
          BY <4>1, <4>2, <4>3, <4>4
      <3>3. FlowBalance(i) = Index(100, TRUE) /\ FlowBalance(j) = Index(Unknown, TRUE)
        BY <2>1, <2>2, <2>4, <3>2
      <3> QED
        BY <3>3 DEF i, j, Index
    <2>5. CASE ~(a + b > 0) /\ c + d > 0
      <3>1. c = 0 /\ d \in Nat \ {0}
        BY <2>0, <2>5
      <3>2. Round(100 * c, c + d) = 0
        <4>1. Round(0, d) <= Round(0, 1) /\ Round(0, d) \in Nat
          BY <3>1, RoundFalls, RoundNat
        <4>2. Round(0, 1) = 0
          BY DEF Round
        <4>3. 100 * c = 0 /\ c + d = d
          BY <3>1
        <4> QED
          BY <4>1, <4>2, <4>3
      <3>3. FlowBalance(i) = Index(Unknown, TRUE) /\ FlowBalance(j) = Index(0, TRUE)
        BY <2>1, <2>2, <2>5, <3>2
      <3> QED
        BY <3>3 DEF i, j, Index
    <2>6. CASE ~(a + b > 0) /\ ~(c + d > 0)
      <3>1. FlowBalance(i) = Index(Unknown, TRUE) /\ FlowBalance(j) = Index(Unknown, TRUE)
        BY <2>1, <2>2, <2>6
      <3>2. Fell(FlowBalance(i), FlowBalance(j))
        BY <3>1, BothIndices
      <3> QED
        BY <3>1, <3>2 DEF i, j, Index
    <2> QED
      BY <2>3, <2>4, <2>5, <2>6
  <1> QED
    BY <1>4, <1>5

\* The guarantees that could be read stay the same ones; fewer hold.
LEMMA IntegrityFalls ==
  ASSUME NEW r, NEW s, Worse(r, s), ~Honeypot(IndexInputs(s))
  PROVE  Fell(Integrity(IndexInputs(r)), Integrity(IndexInputs(s)))
  <1> DEFINE i == IndexInputs(r)
             j == IndexInputs(s)
  <1>1. /\ Guarantees \subseteq Flags \ Risks /\ "honeypot" \in Flags \cap Risks
        /\ {"lock", "burn", "tax"} \subseteq Metrics \ Flags
        /\ {"lock", "burn"} \subseteq Falling /\ "tax" \in Rising
    BY DEF Guarantees, Metrics, Flags, Rising, Falling, Risks
  <1>2. \A g \in Guarantees : /\ i[g] \in BOOLEAN /\ j[g] \in BOOLEAN /\ (j[g] => i[g])
                              /\ Has(i, g) /\ Has(j, g)
    BY <1>1, InputsOf
  <1>3. ~Honeypot(i)
    <2>1. i["honeypot"] \in BOOLEAN /\ j["honeypot"] \in BOOLEAN
          /\ (i["honeypot"] => j["honeypot"])
      BY <1>1, InputsOf
    <2> QED
      BY <2>1, Zenon DEF Honeypot
  <1>4. \A m \in {"lock", "burn"} :
           /\ OrZero(i, m) \in Nat /\ OrZero(j, m) \in Nat /\ OrZero(j, m) <= OrZero(i, m)
           /\ Has(i, m) <=> Has(j, m)
    BY <1>1, NumbersOf, InputsOf
  <1>5. /\ Has(i, "tax") <=> Has(j, "tax")
        /\ Has(i, "tax") => i["tax"] \in Nat /\ j["tax"] \in Nat /\ i["tax"] <= j["tax"]
    BY <1>1, NumbersOf, InputsOf
  <1> HIDE DEF i, j
  <1>6. Checked(i) = Checked(j) /\ Guarantees \subseteq Checked(i)
        /\ Checked(i) \subseteq Guarantees \cup {"tax", "lp"}
    BY <1>2, <1>4, <1>5 DEF Checked
  <1>7. Passed(j) \subseteq Passed(i) /\ Passed(i) \subseteq Checked(i)
    <2>1. SUFFICES ASSUME NEW c \in Passed(j)
                   PROVE  c \in Passed(i)
      BY DEF Passed
    <2>2. c \in Checked(i)
      BY <1>6 DEF Passed
    <2>3. CASE c = "lp"
      <3>1. OrZero(j, "lock") >= 50 \/ OrZero(j, "burn") >= 50
        BY <2>3 DEF Passed, Guarantees
      <3>2. OrZero(i, "lock") >= 50 \/ OrZero(i, "burn") >= 50
        BY <1>4, <3>1
      <3> QED
        BY <2>2, <2>3, <3>2 DEF Passed
    <2>4. CASE c = "tax"
      <3>1. Has(j, "tax") /\ j["tax"] <= 5
        BY <2>4 DEF Passed, Checked, Guarantees
      <3>2. i["tax"] <= 5
        BY <1>5, <3>1
      <3> QED
        BY <2>2, <2>4, <3>2 DEF Passed
    <2>5. CASE c \in Guarantees
      <3>1. c # "lp" /\ c # "tax"
        BY <2>5 DEF Guarantees
      <3>2. j[c]
        BY <3>1, Zenon DEF Passed
      <3>3. i[c]
        BY <1>2, <2>5, <3>2
      <3> QED
        BY <2>2, <3>1, <3>3 DEF Passed
    <2> QED
      BY <1>6, <2>2, <2>3, <2>4, <2>5
  <1>8. \A P, Q : P \subseteq Q => /\ Points(P) \in Nat /\ Points(Q) \in Nat
                                   /\ Points(P) <= Points(Q)
    BY DEF Points, Weight
  <1>9. Points(Checked(i)) > 0 /\ Points(Checked(i)) \in Nat
    <2>1. "renounced" \in Checked(i)
      BY <1>6 DEF Guarantees
    <2> QED
      BY <2>1 DEF Points, Weight
  <1> DEFINE a == Points(Passed(i))
             b == Points(Passed(j))
             n == Points(Checked(i))
  <1>10. a \in Nat /\ b \in Nat /\ b <= a /\ a <= n /\ n \in Nat \ {0}
    BY <1>7, <1>8, <1>9
  <1>11. Integrity(i) = Index(Round(100 * a, n), TRUE) /\ Integrity(j) = Index(Round(100 * b, n), TRUE)
    <2>1. Checked(i) \ {"tax"} # {}
      BY <1>6 DEF Guarantees
    <2> QED
      BY <1>3, <1>6, <2>1 DEF Integrity, i, j
  <1> HIDE DEF a, b, n
  <1>12. Round(100 * b, n) <= Round(100 * a, n)
    <2>1. 100 * a \in Nat /\ 100 * b \in Nat /\ 100 * b <= 100 * a
      BY <1>10
    <2> QED
      BY <1>10, <2>1, RoundSame
  <1>13. Round(100 * b, n) \in 0..100 /\ Round(100 * a, n) \in 0..100
    <2>1. 100 * a \in Nat /\ 100 * b \in Nat /\ 100 * a <= 100 * n /\ 100 * b <= 100 * n
      BY <1>10
    <2>2. Round(100 * b, n) \in 0..100
      BY <1>10, <2>1, RoundShare
    <2>3. Round(100 * a, n) \in 0..100
      BY <1>10, <2>1, RoundShare
    <2> QED
      BY <2>2, <2>3
  <1> QED
    BY <1>11, <1>12, <1>13, BothIndices DEF i, j

---------------------------------------------------------------------------
(* The composite *)

LEMMA InversesFall ==
  ASSUME NEW a \in 0..100, NEW b \in 0..100, a <= b
  PROVE  100 - a \in 0..100 /\ 100 - b \in 0..100 /\ 100 - b <= 100 - a
  OBVIOUS

\* What an index that fell adds: no more to the sum, as much to the weight.
LEMMA PartFalls ==
  ASSUME NEW x, NEW y, Fell(x, y), NEW w \in Nat
  PROVE  /\ Part(y, w).weight = Part(x, w).weight /\ Part(x, w).weight \in {0, w}
         /\ Part(x, w).sum \in Nat /\ Part(y, w).sum \in Nat
         /\ Part(y, w).sum <= Part(x, w).sum /\ Part(x, w).sum <= 100 * Part(x, w).weight
         /\ x.score # Unknown => Part(x, w).weight = w
  <1>1. CASE x.score = Unknown
    BY <1>1 DEF Fell, Part
  <1>2. CASE x.score # Unknown
    <2> DEFINE a == IF x.better THEN x.score ELSE 100 - x.score
               b == IF y.better THEN y.score ELSE 100 - y.score
    <2>0. x.score \in 0..100 /\ y.score \in 0..100 /\ x.better \in BOOLEAN /\ y.better = x.better
      BY <1>2 DEF Fell
    <2>1. a \in 0..100 /\ b \in 0..100 /\ b <= a
      <3>1. CASE x.better
        <4>1. y.score <= x.score
          BY <1>2, <3>1 DEF Fell
        <4> QED
          BY <2>0, <3>1, <4>1
      <3>2. CASE ~x.better
        <4>1. x.score <= y.score
          BY <1>2, <3>2 DEF Fell
        <4>2. a = 100 - x.score /\ b = 100 - y.score
          BY <2>0, <3>2
        <4> HIDE DEF a, b
        <4>3. 100 - x.score \in 0..100 /\ 100 - y.score \in 0..100
              /\ 100 - y.score <= 100 - x.score
          BY <2>0, <4>1, InversesFall
        <4> QED
          BY <4>2, <4>3
      <3> QED
        BY <3>1, <3>2
    <2>2. Part(x, w) = [sum |-> w * a, weight |-> w] /\ Part(y, w) = [sum |-> w * b, weight |-> w]
      BY <1>2 DEF Fell, Part
    <2> HIDE DEF a, b
    <2>3. w * b <= w * a /\ w * a <= w * 100 /\ w * a \in Nat /\ w * b \in Nat
      BY <2>1, ProductsRise
    <2> QED
      BY <2>2, <2>3
  <1> QED
    BY <1>1, <1>2

LEMMA FlowPart ==
  ASSUME NEW r, NEW s, Worse(r, s)
  PROVE  LET p == Part(FlowBalance(IndexInputs(r)), 7)
             q == Part(FlowBalance(IndexInputs(s)), 7)
         IN  /\ p.sum \in Nat /\ q.sum \in Nat /\ p.weight \in {0, 7} /\ q.weight \in {0, 7}
             /\ p.sum <= 100 * p.weight
             /\ \/ q.weight = p.weight /\ q.sum <= p.sum
                \/ p.sum = 700 /\ p.weight = 7 /\ q.sum = 0 /\ q.weight = 0
                \/ p.sum = 0 /\ p.weight = 0 /\ q.sum = 0 /\ q.weight = 7
  <1> DEFINE x == FlowBalance(IndexInputs(r))
             y == FlowBalance(IndexInputs(s))
  <1>1. /\ x.better = TRUE /\ y.better = TRUE
        /\ \/ Fell(x, y)
           \/ x.score = 100 /\ y.score = Unknown
           \/ x.score = Unknown /\ y.score = 0
    BY FlowFalls
  <1> HIDE DEF x, y
  <1>2. CASE Fell(x, y)
    BY <1>2, PartFalls DEF x, y
  <1>3. CASE x.score = 100 /\ y.score = Unknown
    <2>1. Part(x, 7) = [sum |-> 700, weight |-> 7]
      BY <1>1, <1>3, NewsAssumption DEF Part
    <2>2. Part(y, 7) = [sum |-> 0, weight |-> 0]
      BY <1>3 DEF Part
    <2> QED
      BY <2>1, <2>2 DEF x, y
  <1>4. CASE x.score = Unknown /\ y.score = 0
    <2>1. Part(y, 7) = [sum |-> 0, weight |-> 7]
      BY <1>1, <1>4, NewsAssumption DEF Part
    <2>2. Part(x, 7) = [sum |-> 0, weight |-> 0]
      BY <1>4 DEF Part
    <2> QED
      BY <2>1, <2>2 DEF x, y
  <1> QED
    BY <1>1, <1>2, <1>3, <1>4

LEMMA NoWorseThanItself ==
  ASSUME NEW r, Scored(r)
  PROVE  Worse(r, r)
  <1>1. ASSUME NEW m \in Metrics, r[m] # Unknown
        PROVE  r[m] \in Values(m) /\ NotBetter(m, r[m], r[m])
    <2>1. r[m] \in Values(m)
      BY <1>1 DEF Scored
    <2>2. CASE m \in Flags
      <3>1. NotBetter(m, r[m], r[m]) = (r[m] => r[m])
        BY <2>2 DEF NotBetter
      <3> QED
        BY <2>1, <3>1
    <2>3. CASE m \notin Flags
      <3>1. r[m] \in Int
        BY <2>1, <2>3 DEF Values, Percentages, Flags
      <3>2. r[m] <= r[m]
        BY <3>1
      <3>3. NotBetter(m, r[m], r[m]) = (r[m] <= r[m])
        BY <2>3 DEF NotBetter
      <3> QED
        BY <2>1, <3>2, <3>3, Zenon
    <2> QED
      BY <2>1, <2>2, <2>3
  <1> QED
    BY <1>1 DEF Worse

\* The blend of a token that got worse, renormalised, is no higher.
LEMMA BlendFalls ==
  ASSUME NEW r, NEW s, Worse(r, s), ~Honeypot(IndexInputs(s))
  PROVE  LET p == Blend(ComputeIndices(IndexInputs(r)))
             q == Blend(ComputeIndices(IndexInputs(s)))
         IN  /\ p.sum \in Nat /\ q.sum \in Nat
             /\ p.weight \in Nat \ {0} /\ q.weight \in Nat \ {0}
             /\ q.sum * p.weight <= p.sum * q.weight
  <1> DEFINE i == IndexInputs(r)
             j == IndexInputs(s)
             a1 == Part(Integrity(i), 22)       b1 == Part(Integrity(j), 22)
             a2 == Part(Concentration(i), 20)   b2 == Part(Concentration(j), 20)
             a3 == Part(Absorption(i), 18)      b3 == Part(Absorption(j), 18)
             a4 == Part(Organic(i), 15)         b4 == Part(Organic(j), 15)
             a5 == Part(Snipers(i), 10)         b5 == Part(Snipers(j), 10)
             a6 == Part(Conviction(i), 8)       b6 == Part(Conviction(j), 8)
             a7 == Part(FlowBalance(i), 7)      b7 == Part(FlowBalance(j), 7)
             Others(x1, x2, x3, x4, x5, x6) == x1 + x2 + x3 + x4 + x5 + x6
             S == Others(a1.sum, a2.sum, a3.sum, a4.sum, a5.sum, a6.sum)
             T == Others(b1.sum, b2.sum, b3.sum, b4.sum, b5.sum, b6.sum)
             W == Others(a1.weight, a2.weight, a3.weight, a4.weight, a5.weight, a6.weight)
             V == Others(b1.weight, b2.weight, b3.weight, b4.weight, b5.weight, b6.weight)
             Falls(x, y) == /\ y.weight = x.weight /\ x.weight \in Nat /\ x.sum \in Nat
                            /\ y.sum \in Nat /\ y.sum <= x.sum /\ x.sum <= 100 * x.weight
  <1>1. Falls(a1, b1)
    BY IntegrityFalls, PartFalls
  <1>2. Falls(a2, b2)
    BY ConcentrationFalls, PartFalls
  <1>3. Falls(a3, b3)
    BY AbsorptionFalls, PartFalls
  <1>4. Falls(a4, b4) /\ a4.weight = 15
    BY OrganicFalls, PartFalls
  <1>5. Falls(a5, b5)
    BY SnipersFall, PartFalls
  <1>6. Falls(a6, b6)
    BY ConvictionFalls, PartFalls
  <1>7. /\ a7.sum \in Nat /\ b7.sum \in Nat /\ a7.weight \in {0, 7} /\ b7.weight \in {0, 7}
        /\ a7.sum <= 100 * a7.weight
        /\ \/ b7.weight = a7.weight /\ b7.sum <= a7.sum
           \/ a7.sum = 700 /\ a7.weight = 7 /\ b7.sum = 0 /\ b7.weight = 0
           \/ a7.sum = 0 /\ a7.weight = 0 /\ b7.sum = 0 /\ b7.weight = 7
    BY FlowPart
  <1>8. Blend(ComputeIndices(i)) = [sum |-> S + a7.sum, weight |-> W + a7.weight]
    BY DEF Blend, Over, Weights, ComputeIndices
  <1>9. Blend(ComputeIndices(j)) = [sum |-> T + b7.sum, weight |-> V + b7.weight]
    BY DEF Blend, Over, Weights, ComputeIndices
  <1> HIDE DEF a1, a2, a3, a4, a5, a6, a7, b1, b2, b3, b4, b5, b6, b7
  <1>10. S \in Nat /\ T \in Nat /\ T <= S
    BY <1>1, <1>2, <1>3, <1>4, <1>5, <1>6
  <1>11. V = W /\ W \in Nat /\ W >= 15 /\ S <= 100 * W
    BY <1>1, <1>2, <1>3, <1>4, <1>5, <1>6
  <1> HIDE DEF S, T, V, W
  <1>12. (T + b7.sum) * (W + a7.weight) <= (S + a7.sum) * (W + b7.weight)
    <2>1. CASE b7.weight = a7.weight /\ b7.sum <= a7.sum
      <3>1. T + b7.sum <= S + a7.sum /\ W + a7.weight \in Nat
        BY <1>7, <1>10, <1>11, <2>1
      <3> QED
        BY <1>7, <1>10, <2>1, <3>1, ProductsRise
    <2>2. CASE a7.sum = 700 /\ a7.weight = 7 /\ b7.sum = 0 /\ b7.weight = 0
      <3>1. T * (W + 7) <= S * (W + 7)
        BY <1>10, <1>11, ProductsRise
      <3>2. S * (W + 7) = S * W + 7 * S /\ (S + 700) * W = S * W + 700 * W /\ S * W \in Nat
        BY <1>10, <1>11
      <3> QED
        BY <1>10, <1>11, <2>2, <3>1, <3>2
    <2>3. CASE a7.sum = 0 /\ a7.weight = 0 /\ b7.sum = 0 /\ b7.weight = 7
      <3>1. T * W <= S * W /\ T * W \in Int
        BY <1>10, <1>11, ProductsRise
      <3>2. S * (W + 7) = S * W + 7 * S /\ S * W \in Nat
        BY <1>10, <1>11
      <3> QED
        BY <1>10, <1>11, <2>3, <3>1, <3>2
    <2> QED
      BY <1>7, <2>1, <2>2, <2>3
  <1>13. /\ S + a7.sum \in Nat /\ T + b7.sum \in Nat
         /\ W + a7.weight \in Nat \ {0} /\ V + b7.weight \in Nat \ {0}
    BY <1>7, <1>10, <1>11
  <1> QED
    BY <1>8, <1>9, <1>11, <1>12, <1>13 DEF i, j

\* The score is always known, as wash trading is, and does not rise.
LEMMA ScoreFalls ==
  ASSUME NEW r, NEW s, Worse(r, s)
  PROVE  /\ WarScore(IndexInputs(r)) \in Nat /\ WarScore(IndexInputs(s)) \in Nat
         /\ WarScore(IndexInputs(s)) <= WarScore(IndexInputs(r))
  <1> DEFINE i == IndexInputs(r)
             j == IndexInputs(s)
  <1>1. Worse(r, r)
    BY NoWorseThanItself DEF Worse
  <1>2. Honeypot(i) => Honeypot(j)
    <2>1. "honeypot" \in Flags \cap Risks
      BY DEF Flags, Risks
    <2>2. i["honeypot"] \in BOOLEAN /\ j["honeypot"] \in BOOLEAN
          /\ (i["honeypot"] => j["honeypot"])
      BY <2>1, InputsOf
    <2> QED
      BY <2>2, Zenon DEF Honeypot
  <1>3. /\ CapsScoreAt(i) \in {45, 100} /\ CapsScoreAt(j) \in {45, 100}
        /\ CapsScoreAt(j) <= CapsScoreAt(i)
    <2>1. {"renouncedMint", "renouncedFreeze"} \subseteq Flags \ Risks
      BY DEF Flags, Risks
    <2>2. \A m \in {"renouncedMint", "renouncedFreeze"} :
             i[m] \in BOOLEAN /\ j[m] \in BOOLEAN /\ (j[m] => i[m])
      BY <2>1, InputsOf
    <2>3. (i.renouncedMint = FALSE \/ i.renouncedFreeze = FALSE)
          => (j.renouncedMint = FALSE \/ j.renouncedFreeze = FALSE)
      BY <2>2, Zenon
    <2> QED
      BY <2>3 DEF CapsScoreAt
  <1> HIDE DEF i, j
  <1> DEFINE p == Blend(ComputeIndices(i))
             q == Blend(ComputeIndices(j))
             a == Round(p.sum, p.weight)
             b == Round(q.sum, q.weight)
  <1>4. CASE Honeypot(j) /\ Honeypot(i)
    BY <1>4 DEF WarScore, i, j
  <1>5. CASE Honeypot(j) /\ ~Honeypot(i)
    <2>1. p.sum \in Nat /\ p.weight \in Nat \ {0}
      BY <1>1, <1>5, BlendFalls DEF i
    <2>2. a \in Nat
      BY <2>1, RoundNat
    <2>3. WarScore(i) = Lower(a, CapsScoreAt(i)) /\ WarScore(j) = 0
      BY <1>5, <2>1 DEF WarScore
    <2> HIDE DEF a
    <2> QED
      BY <1>3, <2>2, <2>3 DEF Lower, i, j
  <1>6. CASE ~Honeypot(j) /\ ~Honeypot(i)
    <2>1. /\ p.sum \in Nat /\ q.sum \in Nat
          /\ p.weight \in Nat \ {0} /\ q.weight \in Nat \ {0}
          /\ q.sum * p.weight <= p.sum * q.weight
      BY <1>6, BlendFalls DEF i, j
    <2>2. a \in Nat /\ b \in Nat /\ b <= a
      BY <2>1, RoundNat, RoundFalls
    <2>3. WarScore(i) = Lower(a, CapsScoreAt(i)) /\ WarScore(j) = Lower(b, CapsScoreAt(j))
      BY <1>6, <2>1 DEF WarScore
    <2> HIDE DEF a, b
    <2> QED
      BY <1>3, <2>2, <2>3 DEF Lower, i, j
  <1> QED
    BY <1>2, <1>4, <1>5, <1>6

---------------------------------------------------------------------------
(* The mood and the forces *)

LEMMA Ranks ==
  /\ MoodRank("COLLAPSE") = 1 /\ MoodRank("BLEEDING") = 2 /\ MoodRank("DISTRIBUTION") = 3
  /\ MoodRank("OBSERVING") = 4 /\ MoodRank("DORMANT") = 4 /\ MoodRank("ACCUMULATION") = 6
  /\ MoodRank("EMERGING") = 7 /\ MoodRank("ATTACK") = 8
  <1>1. /\ Len(Moods) = 8
        /\ Moods[1] = "COLLAPSE" /\ Moods[2] = "BLEEDING" /\ Moods[3] = "DISTRIBUTION"
        /\ Moods[4] = "OBSERVING" /\ Moods[5] = "DORMANT" /\ Moods[6] = "ACCUMULATION"
        /\ Moods[7] = "EMERGING" /\ Moods[8] = "ATTACK"
    BY DEF Moods
  <1>2. \A k, n \in 1..8 : Moods[k] = Moods[n] => k = n
    BY <1>1
  <1>3. \A n \in 1..8 : Moods[n] # "DORMANT" => MoodRank(Moods[n]) = n
    <2>1. TAKE n \in 1..8
    <2>2. HAVE Moods[n] # "DORMANT"
    <2>3. MoodRank(Moods[n]) = CHOOSE k \in 1..8 : Moods[k] = Moods[n]
      BY <1>1, <2>2 DEF MoodRank
    <2>4. (CHOOSE k \in 1..8 : Moods[k] = Moods[n]) \in 1..8
          /\ Moods[CHOOSE k \in 1..8 : Moods[k] = Moods[n]] = Moods[n]
      OBVIOUS
    <2> QED
      BY <1>2, <2>3, <2>4
  <1>4. MoodRank("DORMANT") = 4
    BY DEF MoodRank
  <1> QED
    BY <1>1, <1>3, <1>4

\* The mood of a row by its rank: rug risk first, then the change of the price.
Rank(rug, change, buys, sells) ==
    IF rug > 50 THEN 1
    ELSE IF change > 50 /\ buys > sells THEN 8
    ELSE IF change > 10 /\ buys > sells THEN 7
    ELSE IF change < -30 THEN 2
    ELSE IF change < -8 THEN 3
    ELSE IF 10 * buys > 13 * sells THEN 6
    ELSE 4

LEMMA RankOfMood ==
  ASSUME NEW r, OrZero(r, "rug") \in Nat, OrZero(r, "change") \in Int,
         OrZero(r, "buys") \in Nat, OrZero(r, "sells") \in Nat
  PROVE  MoodRank(DeriveMood(r))
         = Rank(OrZero(r, "rug"), OrZero(r, "change"), OrZero(r, "buys"), OrZero(r, "sells"))
  <1> DEFINE rug == OrZero(r, "rug")
             change == OrZero(r, "change")
             buys == OrZero(r, "buys")
             sells == OrZero(r, "sells")
             Rest == IF 10 * buys > 13 * sells THEN "ACCUMULATION"
                     ELSE IF change \in -2..2 /\ buys + sells < 50 THEN "DORMANT"
                     ELSE "OBSERVING"
  <1>1. DeriveMood(r) =
          IF rug > 50 THEN "COLLAPSE"
          ELSE CASE change > 50 /\ buys > sells        -> "ATTACK"
                 [] change \in 11..50 /\ buys > sells  -> "EMERGING"
                 [] change < -30                       -> "BLEEDING"
                 [] change \in -30..-9                 -> "DISTRIBUTION"
                 [] OTHER -> Rest
    BY DEF DeriveMood
  <1> HIDE DEF rug, change, buys, sells
  <1>2. rug \in Nat /\ change \in Int /\ buys \in Nat /\ sells \in Nat
    BY DEF rug, change, buys, sells
  <1>3. MoodRank(Rest) = IF 10 * buys > 13 * sells THEN 6 ELSE 4
    BY Ranks
  <1> HIDE DEF Rest
  <1>4. CASE rug > 50
    BY <1>1, <1>4, Ranks DEF Rank, rug, change, buys, sells
  <1>5. CASE rug <= 50 /\ change > 10 /\ buys > sells
    <2>1. DeriveMood(r) = IF change > 50 THEN "ATTACK" ELSE "EMERGING"
      BY <1>1, <1>2, <1>5
    <2>2. Rank(rug, change, buys, sells) = IF change > 50 THEN 8 ELSE 7
      BY <1>2, <1>5 DEF Rank
    <2> QED
      BY <2>1, <2>2, Ranks DEF rug, change, buys, sells
  <1>6. CASE rug <= 50 /\ ~(change > 10 /\ buys > sells)
    <2>1. DeriveMood(r) = IF change < -30 THEN "BLEEDING"
                          ELSE IF change < -8 THEN "DISTRIBUTION" ELSE Rest
      BY <1>1, <1>2, <1>6
    <2>2. Rank(rug, change, buys, sells)
          = IF change < -30 THEN 2 ELSE IF change < -8 THEN 3
            ELSE IF 10 * buys > 13 * sells THEN 6 ELSE 4
      BY <1>2, <1>6 DEF Rank
    <2> QED
      BY <1>3, <2>1, <2>2, Ranks DEF rug, change, buys, sells
  <1> QED
    BY <1>2, <1>4, <1>5, <1>6

LEMMA MoodFalls ==
  ASSUME NEW r, NEW s, Worse(r, s)
  PROVE  MoodRank(DeriveMood(s)) <= MoodRank(DeriveMood(r))
  <1>1. /\ {"rug", "change", "buys", "sells"} \subseteq Metrics \ Flags
        /\ {"rug", "sells"} \subseteq Rising /\ {"change", "buys"} \subseteq Falling
    BY DEF Metrics, Flags, Rising, Falling, Risks
  <1>2. /\ OrZero(r, "rug") \in Nat /\ OrZero(s, "rug") \in Nat
        /\ OrZero(r, "change") \in Int /\ OrZero(s, "change") \in Int
        /\ OrZero(r, "buys") \in Nat /\ OrZero(s, "buys") \in Nat
        /\ OrZero(r, "sells") \in Nat /\ OrZero(s, "sells") \in Nat
    BY <1>1, NumbersOf
  <1>3. /\ OrZero(r, "rug") <= OrZero(s, "rug") /\ OrZero(r, "sells") <= OrZero(s, "sells")
        /\ OrZero(s, "change") <= OrZero(r, "change") /\ OrZero(s, "buys") <= OrZero(r, "buys")
    BY <1>1, NumbersOf
  <1>4. \A rug, more, buys, fewer, sells, dumped \in Nat, change, fallen \in Int :
           rug <= more /\ fallen <= change /\ fewer <= buys /\ sells <= dumped
           => Rank(more, fallen, fewer, dumped) <= Rank(rug, change, buys, sells)
    BY DEF Rank
  <1>5. Rank(OrZero(s, "rug"), OrZero(s, "change"), OrZero(s, "buys"), OrZero(s, "sells"))
        <= Rank(OrZero(r, "rug"), OrZero(r, "change"), OrZero(r, "buys"), OrZero(r, "sells"))
    BY <1>2, <1>3, <1>4
  <1>6. MoodRank(DeriveMood(r))
        = Rank(OrZero(r, "rug"), OrZero(r, "change"), OrZero(r, "buys"), OrZero(r, "sells"))
    BY <1>2, RankOfMood
  <1>7. MoodRank(DeriveMood(s))
        = Rank(OrZero(s, "rug"), OrZero(s, "change"), OrZero(s, "buys"), OrZero(s, "sells"))
    BY <1>2, RankOfMood
  <1> QED
    BY <1>5, <1>6, <1>7

LEMMA PowerFalls ==
  ASSUME NEW r, NEW s, Worse(r, s)
  PROVE  PowerOf(s) <= PowerOf(r)
  <1> DEFINE Rise(x) == IF OrZero(x, "change") > 0 THEN OrZero(x, "change") ELSE 0
             a == OrZero(r, "buys")    b == OrZero(r, "sells")    e == Rise(r)
             c == OrZero(s, "buys")    d == OrZero(s, "sells")    f == Rise(s)
             Share(x, y, z) == IF x + y = 0 THEN Round(350 + 3 * z, 10)
                               ELSE Round(700 * x + 3 * z * (x + y), 10 * (x + y))
  <1>1. /\ {"change", "buys", "sells"} \subseteq Metrics \ Flags
        /\ "sells" \in Rising /\ {"change", "buys"} \subseteq Falling
    BY DEF Metrics, Flags, Rising, Falling, Risks
  <1>2. /\ a \in Nat /\ b \in Nat /\ c \in Nat /\ d \in Nat /\ c <= a /\ b <= d
        /\ e \in Nat /\ f \in Nat /\ f <= e
    BY <1>1, NumbersOf
  <1>3. PowerOf(r) = Clamp(Share(a, b, e)) /\ PowerOf(s) = Clamp(Share(c, d, f))
    <2>1. \A x \in {r, s} : OrZero(x, "change") \in Int
      BY <1>1, NumbersOf
    <2>2. \A x \in {r, s} : OrZero(x, "change") > 0 => x.change = OrZero(x, "change")
      BY DEF OrZero
    <2> QED
      BY <2>2 DEF PowerOf
  <1> HIDE DEF a, b, c, d, e, f
  <1>4. \A x, y, z \in Nat : Share(x, y, z) \in Nat
    <2>1. TAKE x, y, z \in Nat
    <2>2. CASE x + y = 0
      BY <2>2, RoundNat
    <2>3. CASE x + y # 0
      <3>1. x + y \in Nat \ {0} /\ 3 * z * (x + y) \in Nat
        BY <2>3
      <3>2. 700 * x + 3 * z * (x + y) \in Nat /\ 10 * (x + y) \in Nat \ {0}
        BY <3>1
      <3> QED
        BY <2>3, <3>2, RoundNat
    <2> QED
      BY <2>2, <2>3
  <1>5. Share(c, d, f) <= Share(a, b, e)
    <2>1. CASE a + b = 0 /\ c + d = 0
      <3>1. 350 + 3 * f <= 350 + 3 * e /\ 350 + 3 * f \in Nat /\ 350 + 3 * e \in Nat
        BY <1>2
      <3> QED
        BY <2>1, <3>1, RoundSame
    <2>2. CASE a + b = 0 /\ c + d # 0
      <3>1. c = 0 /\ d \in Nat \ {0}
        BY <1>2, <2>2
      <3>2. 3 * f * d <= 3 * e * d /\ 3 * f * d \in Nat
        <4>1. f * d <= e * d /\ f * d \in Nat /\ e * d \in Nat
          BY <1>2, <3>1, ProductsRise
        <4>2. 3 * f * d = 3 * (f * d) /\ 3 * e * d = 3 * (e * d)
          BY <1>2, <3>1
        <4> QED
          BY <4>1, <4>2
      <3>3. (3 * f * d) * 10 <= (350 + 3 * e) * (10 * d)
        <4>1. (350 + 3 * e) * (10 * d) = 3500 * d + 10 * (3 * e * d) /\ 3 * e * d \in Int
          BY <1>2, <3>1
        <4> QED
          BY <3>1, <3>2, <4>1
      <3>4. Round(3 * f * d, 10 * d) <= Round(350 + 3 * e, 10)
        <4>1. 350 + 3 * e \in Nat /\ 10 * d \in Nat \ {0}
          BY <1>2, <3>1
        <4> QED
          BY <3>2, <3>3, <4>1, RoundFalls
      <3>5. Share(c, d, f) = Round(3 * f * d, 10 * d)
        <4>1. c + d = d /\ 700 * c = 0 /\ 0 + 3 * f * d = 3 * f * d
          BY <1>2, <3>1, <3>2
        <4> QED
          BY <2>2, <4>1
      <3> QED
        BY <2>2, <3>4, <3>5
    <2>3. CASE a + b # 0 /\ c + d = 0
      <3>1. b = 0 /\ a \in Nat \ {0}
        BY <1>2, <2>3
      <3>2. 3 * f * a <= 3 * e * a /\ 3 * f * a \in Nat /\ 3 * e * a \in Nat
        <4>1. f * a <= e * a /\ f * a \in Nat /\ e * a \in Nat
          BY <1>2, <3>1, ProductsRise
        <4>2. 3 * f * a = 3 * (f * a) /\ 3 * e * a = 3 * (e * a)
          BY <1>2, <3>1
        <4> QED
          BY <4>1, <4>2
      <3>3. (350 + 3 * f) * (10 * a) <= (700 * a + 3 * e * a) * 10
        <4>1. (350 + 3 * f) * (10 * a) = 3500 * a + 10 * (3 * f * a)
              /\ (700 * a + 3 * e * a) * 10 = 7000 * a + 10 * (3 * e * a)
          BY <1>2, <3>1
        <4> QED
          BY <3>1, <3>2, <4>1
      <3>4. Round(350 + 3 * f, 10) <= Round(700 * a + 3 * e * a, 10 * a)
        <4>1. 350 + 3 * f \in Nat /\ 10 * a \in Nat \ {0} /\ 700 * a + 3 * e * a \in Nat
          BY <1>2, <3>1, <3>2
        <4> QED
          BY <3>3, <4>1, RoundFalls
      <3>5. Share(a, b, e) = Round(700 * a + 3 * e * a, 10 * a)
        <4>1. a + b = a
          BY <1>2, <3>1
        <4> QED
          BY <2>3, <4>1
      <3> QED
        BY <2>3, <3>4, <3>5
    <2>4. CASE a + b # 0 /\ c + d # 0
      <3> DEFINE n == a + b
                 m == c + d
      <3>1. n \in Nat \ {0} /\ m \in Nat \ {0}
        BY <1>2, <2>4
      <3>2. c * n <= a * m /\ c * n \in Nat /\ a * m \in Nat
        <4>1. c * b <= a * b /\ a * b <= a * d
          BY <1>2, ProductsRise
        <4>2. c * n = c * a + c * b /\ a * m = a * c + a * d /\ c * a = a * c
              /\ c * a \in Nat /\ c * b \in Nat /\ a * d \in Nat /\ a * b \in Nat
          BY <1>2
        <4> QED
          BY <4>1, <4>2
      <3> HIDE DEF n, m
      <3>3. (f * m) * n <= (e * n) * m /\ (f * m) * n \in Nat /\ (e * n) * m \in Nat
            /\ e * n \in Nat /\ f * m \in Nat
        <4>1. m * n \in Nat /\ (f * m) * n = f * (m * n) /\ (e * n) * m = e * (m * n)
          BY <1>2, <3>1
        <4>2. f * (m * n) <= e * (m * n)
          BY <1>2, <4>1, ProductsRise
        <4> QED
          BY <1>2, <3>1, <4>1, <4>2
      <3>4. (700 * c + 3 * f * m) * (10 * n) <= (700 * a + 3 * e * n) * (10 * m)
        <4>1. /\ (700 * c + 3 * f * m) * (10 * n) = 7000 * (c * n) + 30 * ((f * m) * n)
              /\ (700 * a + 3 * e * n) * (10 * m) = 7000 * (a * m) + 30 * ((e * n) * m)
          BY <1>2, <3>1
        <4> QED
          BY <3>2, <3>3, <4>1
      <3>5. 700 * c + 3 * f * m \in Nat /\ 700 * a + 3 * e * n \in Nat
            /\ 10 * n \in Nat \ {0} /\ 10 * m \in Nat \ {0}
        <4>1. 3 * f * m = 3 * (f * m) /\ 3 * e * n = 3 * (e * n)
          BY <1>2, <3>1
        <4> QED
          BY <1>2, <3>1, <3>3, <4>1
      <3>6. Round(700 * c + 3 * f * m, 10 * m) <= Round(700 * a + 3 * e * n, 10 * n)
        BY <3>4, <3>5, RoundFalls
      <3> QED
        BY <2>4, <3>6 DEF n, m
    <2> QED
      BY <2>1, <2>2, <2>3, <2>4
  <1> HIDE DEF Share
  <1>6. Share(c, d, f) \in Int /\ Share(a, b, e) \in Int
    <2>1. Share(c, d, f) \in Nat
      BY <1>2, <1>4
    <2>2. Share(a, b, e) \in Nat
      BY <1>2, <1>4
    <2> QED
      BY <2>1, <2>2
  <1> QED
    BY <1>3, <1>5, <1>6, ClampRises

LEMMA ThreatRises ==
  ASSUME NEW r, NEW s, Worse(r, s)
  PROVE  ThreatOf(r) <= ThreatOf(s)
  <1> DEFINE Wash(x) == IF x.wash = TRUE THEN 2000 ELSE 0
             a == 60 * OrZero(r, "rug") + 40 * OrZero(r, "top10") + Wash(r)
             b == 60 * OrZero(s, "rug") + 40 * OrZero(s, "top10") + Wash(s)
  <1>1. {"rug", "top10"} \subseteq Metrics \ Flags /\ {"rug", "top10"} \subseteq Rising
        /\ "wash" \in Flags \cap Risks
    BY DEF Metrics, Flags, Rising, Risks
  <1>2. \A m \in {"rug", "top10"} :
           OrZero(r, m) \in Nat /\ OrZero(s, m) \in Nat /\ OrZero(r, m) <= OrZero(s, m)
    BY <1>1, NumbersOf
  <1>3. Wash(r) <= Wash(s) /\ Wash(r) \in Nat /\ Wash(s) \in Nat
    <2>1. r["wash"] = TRUE => s["wash"] = TRUE
      BY <1>1, FlagsOf
    <2> QED
      BY <2>1
  <1>4. ThreatOf(r) = Clamp(Round(a, 100)) /\ ThreatOf(s) = Clamp(Round(b, 100))
    BY DEF ThreatOf
  <1> HIDE DEF Wash
  <1>5. a \in Nat /\ b \in Nat /\ a <= b
    BY <1>2, <1>3
  <1> HIDE DEF a, b
  <1>6. Round(a, 100) <= Round(b, 100) /\ Round(a, 100) \in Int /\ Round(b, 100) \in Int
    BY <1>5, RoundSame
  <1> QED
    BY <1>4, <1>6, ClampRises

LEMMA ConfidenceFalls ==
  ASSUME NEW r, NEW s, Worse(r, s)
  PROVE  ConfidenceOf(s) <= ConfidenceOf(r)
  <1> DEFINE a == 10000 - 50 * OrZero(r, "rug") - 30 * OrZero(r, "top10")
             b == 10000 - 50 * OrZero(s, "rug") - 30 * OrZero(s, "top10")
  <1>1. \A m \in {"rug", "top10"} : m \in Metrics \ Flags /\ m \in Rising /\ m \in Percentages
    BY DEF Metrics, Flags, Rising, Risks, Percentages
  <1>2. \A m \in {"rug", "top10"} :
           OrZero(r, m) \in 0..100 /\ OrZero(s, m) \in 0..100 /\ OrZero(r, m) <= OrZero(s, m)
    BY <1>1, NumbersOf
  <1>3. ConfidenceOf(r) = Clamp(Round(a, 100)) /\ ConfidenceOf(s) = Clamp(Round(b, 100))
    BY DEF ConfidenceOf
  <1>4. a \in Nat /\ b \in Nat /\ b <= a
    <2>1. /\ OrZero(r, "rug") \in 0..100 /\ OrZero(s, "rug") \in 0..100
          /\ OrZero(r, "top10") \in 0..100 /\ OrZero(s, "top10") \in 0..100
          /\ OrZero(r, "rug") <= OrZero(s, "rug") /\ OrZero(r, "top10") <= OrZero(s, "top10")
      BY <1>2
    <2> DEFINE Left(x, y) == 10000 - 50 * x - 30 * y
    <2>2. \A x, y, u, v \in 0..100 :
             x <= u /\ y <= v => Left(x, y) \in Nat /\ Left(u, v) \in Nat /\ Left(u, v) <= Left(x, y)
      OBVIOUS
    <2>3. a = Left(OrZero(r, "rug"), OrZero(r, "top10")) /\ b = Left(OrZero(s, "rug"), OrZero(s, "top10"))
      OBVIOUS
    <2> HIDE DEF Left, a, b
    <2> QED
      BY <2>1, <2>2, <2>3
  <1> HIDE DEF a, b
  <1>5. Round(b, 100) <= Round(a, 100) /\ Round(a, 100) \in Int /\ Round(b, 100) \in Int
    BY <1>4, RoundSame
  <1> QED
    BY <1>3, <1>5, ClampRises

---------------------------------------------------------------------------
(* Bad news *)

RowInv == Scored(row) /\ view = RowToWorldState(row)

LEMMA RowInit == IndicesInit => RowInv
  <1>1. SUFFICES ASSUME IndicesInit
                 PROVE  RowInv
    OBVIOUS
  <1>2. PICK profile \in Profiles, n \in HolderCounts :
           row = [m \in Metrics \cup {"holders"} |->
                     IF m = "holders" THEN n
                     ELSE IF m \in profile THEN News[m][1] ELSE Unknown]
    BY <1>1 DEF IndicesInit
  <1>3. n \in Nat /\ "holders" \notin Metrics
    BY NewsAssumption DEF Metrics, Flags
  <1>4. ASSUME NEW m \in Metrics
        PROVE  News[m][1] \in Values(m)
    <2>1. News[m] \in Seq(Values(m)) /\ Len(News[m]) > 0
      BY NewsAssumption
    <2> QED
      BY <2>1
  <1>5. Scored(row)
    <2>1. row = [m \in Metrics \cup {"holders"} |-> row[m]]
      BY <1>2
    <2>2. \A m \in Metrics : row[m] \in Values(m) \cup {Unknown}
      BY <1>2, <1>3, <1>4
    <2>3. row["holders"] \in Nat
      BY <1>2, <1>3
    <2> QED
      BY <2>1, <2>2, <2>3 DEF Scored
  <1> QED
    BY <1>1, <1>5 DEF IndicesInit, RowInv

LEMMA WorsenIsWorse ==
  ASSUME RowInv, NEW m \in Metrics, NEW k \in 2..Len(News[m]), Worsen(m, k)
  PROVE  Worse(row, row') /\ view' = RowToWorldState(row')
  <1>1. /\ row[m] = News[m][k - 1] /\ row' = [row EXCEPT ![m] = News[m][k]]
        /\ view' = RowToWorldState(row')
    BY DEF Worsen
  <1>2. Scored(row) /\ DOMAIN row = Metrics \cup {"holders"} /\ "holders" \notin Metrics
    BY DEF RowInv, Scored, Metrics, Flags
  <1>3. /\ News[m][k - 1] \in Values(m) /\ News[m][k] \in Values(m)
        /\ NotBetter(m, News[m][k - 1], News[m][k])
    <2>1. News[m] \in Seq(Values(m)) /\ NotBetter(m, News[m][k - 1], News[m][k])
      BY NewsAssumption
    <2>2. Len(News[m]) \in Nat /\ k - 1 \in 1..Len(News[m]) /\ k \in 1..Len(News[m])
      BY <2>1
    <2> QED
      BY <2>1, <2>2
  <1>4. \A x \in Metrics \cup {"holders"} : row'[x] = IF x = m THEN News[m][k] ELSE row[x]
    BY <1>1, <1>2
  <1>5. DOMAIN row' = Metrics \cup {"holders"} /\ row' = [x \in Metrics \cup {"holders"} |-> row'[x]]
    BY <1>1, <1>2
  <1>6. Scored(row')
    BY <1>2, <1>3, <1>4, <1>5 DEF Scored
  <1>7. row'["holders"] = row["holders"]
    BY <1>2, <1>4
  <1>8. ASSUME NEW x \in Metrics
        PROVE  \/ row[x] = Unknown /\ row'[x] = Unknown
               \/ row[x] \in Values(x) /\ row'[x] \in Values(x) /\ NotBetter(x, row[x], row'[x])
    <2>1. CASE x = m
      BY <1>1, <1>3, <1>4, <2>1
    <2>2. CASE x # m
      <3>1. row'[x] = row[x]
        BY <1>4, <2>2
      <3>2. Worse(row, row)
        BY <1>2, NoWorseThanItself
      <3> QED
        BY <3>1, <3>2 DEF Worse
    <2> QED
      BY <2>1, <2>2
  <1> QED
    BY <1>1, <1>2, <1>6, <1>7, <1>8 DEF Worse

\* Bad news never helps (rowToWorldState, computeWarIndices): for every table of
\* news and every profile, each step that makes one metric worse leaves the mood,
\* the power, the confidence and the score no higher and the threat no lower.
THEOREM BadNews == IndicesSpec => BadNewsNeverHelps
  <1> DEFINE Unhelped == /\ MoodRank(view'.mood) <= MoodRank(view.mood)
                         /\ view'.power <= view.power
                         /\ view'.threat >= view.threat
                         /\ view'.confidence <= view.confidence
                         /\ view.score # Unknown
                            => view'.score # Unknown /\ view'.score <= view.score
  <1>1. IndicesInit => RowInv
    BY RowInit
  <1>2. ASSUME RowInv, IndicesNext
        PROVE  RowInv' /\ Unhelped
    <2>1. PICK m \in Metrics : \E k \in 2..Len(News[m]) : Worsen(m, k)
      BY <1>2 DEF IndicesNext
    <2>2. PICK k \in 2..Len(News[m]) : Worsen(m, k)
      BY <2>1
    <2>3. Worse(row, row') /\ view' = RowToWorldState(row') /\ view = RowToWorldState(row)
      BY <1>2, <2>2, WorsenIsWorse DEF RowInv
    <2>4. RowInv'
      BY <2>3 DEF RowInv, Worse
    <2>5. MoodRank(view'.mood) <= MoodRank(view.mood)
      BY <2>3, MoodFalls DEF RowToWorldState
    <2>6. view'.power <= view.power
      BY <2>3, PowerFalls DEF RowToWorldState
    <2>7. view'.threat >= view.threat
      <3>1. view'.threat = ThreatOf(row') /\ view.threat = ThreatOf(row)
        BY <2>3 DEF RowToWorldState
      <3>2. ThreatOf(row) <= ThreatOf(row')
        BY <2>3, ThreatRises
      <3> QED
        BY <3>1, <3>2
    <2>8. view'.confidence <= view.confidence
      BY <2>3, ConfidenceFalls DEF RowToWorldState
    <2>9. view'.score # Unknown /\ view'.score <= view.score
      <3>1. view'.score = WarScore(IndexInputs(row')) /\ view.score = WarScore(IndexInputs(row))
        BY <2>3 DEF RowToWorldState
      <3>2. WarScore(IndexInputs(row')) \in Nat
            /\ WarScore(IndexInputs(row')) <= WarScore(IndexInputs(row))
        BY <2>3, ScoreFalls
      <3> QED
        BY <3>1, <3>2, NewsAssumption
    <2> QED
      BY <2>4, <2>5, <2>6, <2>7, <2>8, <2>9
  <1>3. RowInv /\ UNCHANGED indexVars => RowInv'
    BY DEF RowInv, Scored, indexVars
  <1>4. RowInv /\ [IndicesNext]_indexVars => [Unhelped]_indexVars
    BY <1>2
  <1> QED
    BY <1>1, <1>2, <1>3, <1>4, PTL DEF IndicesSpec, BadNewsNeverHelps

---------------------------------------------------------------------------
(* The performance dataset.  That as many ticks as there are tokens take   *)
(* up all of them rests on the least number that steps of the interval and *)
(* of the ranking's length reach: it divides both.  That calibration keeps *)
(* most of what it has rests on the nearest rank.                          *)

LEMMA MinOfTwo ==
  ASSUME NEW a \in Int, NEW b \in Int
  PROVE  Min({a, b}) = IF a <= b THEN a ELSE b
  <1> DEFINE m == IF a <= b THEN a ELSE b
  <1>1. m \in {a, b} /\ \A y \in {a, b} : m <= y
    OBVIOUS
  <1>2. \A x \in {a, b} : (\A y \in {a, b} : x <= y) => x = m
    OBVIOUS
  <1> HIDE DEF m
  <1>3. Min({a, b}) = m
    BY <1>1, <1>2 DEF Min
  <1> QED
    BY <1>3 DEF m

LEMMA MaxOfTwo ==
  ASSUME NEW a \in Int, NEW b \in Int
  PROVE  Max({a, b}) = IF a >= b THEN a ELSE b
  <1> DEFINE m == IF a >= b THEN a ELSE b
  <1>1. m \in {a, b} /\ \A y \in {a, b} : m >= y
    OBVIOUS
  <1>2. \A x \in {a, b} : (\A y \in {a, b} : x >= y) => x = m
    OBVIOUS
  <1> HIDE DEF m
  <1>3. Max({a, b}) = m
    BY <1>1, <1>2 DEF Max
  <1> QED
    BY <1>3 DEF m

\* A set of subsets of a finite set has a smallest one.
LEMMA SmallestSubset ==
  ASSUME NEW D, IsFiniteSet(D), NEW C \in SUBSET SUBSET D, C # {}
  PROVE  \E s \in C : \A t \in C : t \subseteq s => t = s
  <1>1. IsWellFoundedOn(StrictSubsetOrdering(D), SUBSET D)
    BY FS_StrictSubsetOrderingWellFounded, FS_FiniteSubsetsOfFinite
  <1>2. PICK s \in C : \A t \in C : ~(<<t, s>> \in StrictSubsetOrdering(D))
    BY <1>1, WFMin
  <1> QED
    BY <1>2 DEF StrictSubsetOrdering

\* Of finitely many things, one is largest by a number they have.
LEMMA LargestOf ==
  ASSUME NEW K, IsFiniteSet(K), K # {}, NEW f \in [K -> Int]
  PROVE  \E x \in K : \A y \in K : f[y] <= f[x]
  <1> DEFINE Above(x) == {y \in K : f[y] >= f[x]}
             C == {Above(x) : x \in K}
  <1>1. C \in SUBSET SUBSET K /\ C # {}
    <2>1. \A x \in K : Above(x) \in SUBSET K
      OBVIOUS
    <2> HIDE DEF Above
    <2> QED
      BY <2>1
  <1>2. PICK s \in C : \A t \in C : t \subseteq s => t = s
    <2> HIDE DEF C
    <2> QED
      BY <1>1, SmallestSubset
  <1>3. PICK x \in K : s = Above(x)
    BY <1>2
  <1>4. ASSUME NEW y \in K, ~(f[y] <= f[x]) PROVE FALSE
    <2>1. f[y] > f[x] /\ f[x] \in Int /\ f[y] \in Int
      BY <1>4
    <2>2. Above(y) \subseteq Above(x) /\ x \in Above(x) /\ x \notin Above(y)
      BY <2>1
    <2>3. Above(y) \in C
      OBVIOUS
    <2> HIDE DEF Above, C
    <2> QED
      BY <1>2, <1>3, <2>2, <2>3
  <1> QED
    BY <1>4

LEMMA LeastOf ==
  ASSUME NEW K, IsFiniteSet(K), K # {}, NEW f \in [K -> Int]
  PROVE  \E x \in K : \A y \in K : f[x] <= f[y]
  <1> DEFINE g == [x \in K |-> -f[x]]
  <1>1. g \in [K -> Int]
    OBVIOUS
  <1>2. PICK x \in K : \A y \in K : g[y] <= g[x]
    <2> HIDE DEF g
    <2> QED
      BY <1>1, LargestOf
  <1>3. \A y \in K : f[x] <= f[y]
    <2> TAKE y \in K
    <2>1. g[y] <= g[x] /\ f[x] \in Int /\ f[y] \in Int
      BY <1>2
    <2> QED
      BY <2>1
  <1> QED
    BY <1>3

LEMMA LeastNumber ==
  ASSUME NEW n \in Nat, NEW S \in SUBSET (1..n), S # {}
  PROVE  \E x \in S : \A y \in S : x <= y
  <1> DEFINE f == [x \in S |-> x]
  <1>1. f \in [S -> Int]
    OBVIOUS
  <1>2. IsFiniteSet(S)
    <2>1. IsFiniteSet(1 .. n)
      BY FS_Interval
    <2> QED
      BY <2>1, FS_Subset
  <1>3. \E x \in S : \A y \in S : f[x] <= f[y]
    <2> HIDE DEF f
    <2> QED
      BY <1>1, <1>2, LeastOf
  <1> QED
    BY <1>3

LEMMA LargestNumber ==
  ASSUME NEW n \in Nat, NEW S \in SUBSET (1..n), S # {}
  PROVE  Max(S) \in S /\ \A y \in S : y <= Max(S)
  <1> DEFINE f == [x \in S |-> x]
  <1>1. f \in [S -> Int]
    OBVIOUS
  <1>2. IsFiniteSet(S)
    <2>1. IsFiniteSet(1 .. n)
      BY FS_Interval
    <2> QED
      BY <2>1, FS_Subset
  <1>3. \E x \in S : \A y \in S : f[y] <= f[x]
    <2> HIDE DEF f
    <2> QED
      BY <1>1, <1>2, LargestOf
  <1>4. \E x \in S : \A y \in S : x >= y
    BY <1>3
  <1>5. Max(S) \in S /\ \A y \in S : Max(S) >= y
    BY <1>4 DEF Max
  <1> QED
    BY <1>5

---------------------------------------------------------------------------
(* Remainders *)

LEMMA Distributes ==
  ASSUME NEW a \in Int, NEW b \in Int, NEW k \in Int
  PROVE  (a + b) * k = a * k + b * k /\ (a - b) * k = a * k - b * k
  OBVIOUS

LEMMA Remainder ==
  ASSUME NEW a \in Int, NEW b \in Nat \ {0}
  PROVE  /\ a \div b \in Int /\ a % b \in 0 .. b - 1
         /\ a = (a \div b) * b + (a % b)
  <1>1. \A x \in Int, y \in Nat \ {0} : (x % y) \in 0 .. y - 1
    OBVIOUS
  <1>2. \A x \in Int, y \in Nat \ {0} : x = (x \div y) * y + (x % y)
    OBVIOUS
  <1> QED
    BY <1>1, <1>2

LEMMA RemainderIs ==
  ASSUME NEW a \in Int, NEW b \in Nat \ {0}, NEW q \in Int, NEW r \in 0 .. b - 1, a = q * b + r
  PROVE  a % b = r
  <1> DEFINE p == a \div b
             s == a % b
  <1>1. p \in Int /\ s \in 0 .. b - 1 /\ a = p * b + s
    BY Remainder
  <1> HIDE DEF p, s
  <1>2. (q - p) * b = s - r
    <2>1. (q - p) * b = q * b - p * b
      BY <1>1, Distributes
    <2>2. q * b \in Int /\ p * b \in Int
      BY <1>1
    <2> QED
      BY <1>1, <2>1, <2>2
  <1>3. \A k \in Nat \ {0} : k * b >= b
    OBVIOUS
  <1>4. q - p = 0
    <2>1. q - p \notin Nat \ {0}
      <3> SUFFICES ASSUME q - p \in Nat \ {0} PROVE FALSE
        OBVIOUS
      <3>1. (q - p) * b >= b
        BY <1>3
      <3> QED
        BY <1>1, <1>2, <3>1
    <2>2. p - q \notin Nat \ {0}
      <3> SUFFICES ASSUME p - q \in Nat \ {0} PROVE FALSE
        OBVIOUS
      <3>1. (p - q) * b >= b
        BY <1>3
      <3>2. (p - q) * b = r - s
        <4>1. (p - q) * b = p * b - q * b
          BY <1>1, Distributes
        <4>2. q * b \in Int /\ p * b \in Int
          BY <1>1
        <4> QED
          BY <1>1, <4>1, <4>2
      <3> QED
        BY <1>1, <3>1, <3>2
    <2> QED
      BY <1>1, <2>1, <2>2
  <1>5. s = r
    <2>1. (q - p) * b = 0
      BY <1>4
    <2> QED
      BY <1>1, <1>2, <2>1
  <1> QED
    BY <1>5 DEF s

\* What steps of m and of n reach.
Reached(m, n) == {t * m + k * n : t \in Int, k \in Int}

LEMMA ReachedLess ==
  ASSUME NEW m \in Int, NEW n \in Int, NEW x \in Reached(m, n), NEW y \in Reached(m, n), NEW q \in Int
  PROVE  x - q * y \in Reached(m, n) /\ x \in Int
  <1>1. PICK t \in Int, k \in Int : x = t * m + k * n
    BY DEF Reached
  <1>2. PICK u \in Int, l \in Int : y = u * m + l * n
    BY DEF Reached
  <1>3. q * y = (q * u) * m + (q * l) * n
    BY <1>2
  <1>4. (t - q * u) * m = t * m - (q * u) * m /\ (k - q * l) * n = k * n - (q * l) * n
    BY Distributes
  <1>5. t - q * u \in Int /\ k - q * l \in Int
    OBVIOUS
  <1>6. {t * m, k * n, (q * u) * m, (q * l) * n} \subseteq Int
    OBVIOUS
  <1> DEFINE a == t * m
             b == k * n
             c == (q * u) * m
             d == (q * l) * n
  <1>7. x - q * y = (t - q * u) * m + (k - q * l) * n
    <2>1. x = a + b /\ q * y = c + d /\ (t - q * u) * m = a - c /\ (k - q * l) * n = b - d
      BY <1>1, <1>3, <1>4
    <2>2. a \in Int /\ b \in Int /\ c \in Int /\ d \in Int
      BY <1>6
    <2>3. (a + b) - (c + d) = (a - c) + (b - d)
      <3> HIDE DEF a, b, c, d
      <3> QED
        BY <2>2
    <2> HIDE DEF a, b, c, d
    <2> QED
      BY <2>1, <2>3
  <1>8. x \in Int
    BY <1>1, <1>6
  <1>9. \A v \in Int, w \in Int : v * m + w * n \in Reached(m, n)
    BY DEF Reached
  <1> QED
    BY <1>5, <1>7, <1>8, <1>9

\* Some divisor of m and n is reached with what it reaches.
LEMMA DivisorReached ==
  ASSUME NEW m \in Nat \ {0}, NEW n \in Nat \ {0}
  PROVE  \E d \in 1 .. n : d \in Reached(m, n) /\ Divides(d, m) /\ Divides(d, n)
  <1> DEFINE S == {d \in 1 .. n : d \in Reached(m, n)}
  <1>1. m \in Reached(m, n) /\ n \in Reached(m, n)
    <2>1. m = 1 * m + 0 * n /\ n = 0 * m + 1 * n
      OBVIOUS
    <2> QED
      BY <2>1 DEF Reached
  <1>2. n \in S
    BY <1>1
  <1>3. PICK d \in S : \A e \in S : d <= e
    <2> HIDE DEF S
    <2>1. S \in SUBSET (1 .. n)
      BY DEF S
    <2> QED
      BY <1>2, <2>1, LeastNumber
  <1>4. ASSUME NEW x \in Reached(m, n), x \in Int PROVE x % d = 0
    <2>1. x \div d \in Int /\ x % d \in 0 .. d - 1 /\ x = (x \div d) * d + (x % d)
      BY <1>4, Remainder
    <2>2. x - (x \div d) * d \in Reached(m, n)
      BY <2>1, ReachedLess
    <2>3. (x \div d) * d \in Int
      BY <2>1
    <2>4. x % d \in Reached(m, n)
      BY <1>4, <2>1, <2>2, <2>3
    <2>5. x % d \notin S
      BY <1>3, <2>1
    <2> QED
      BY <2>1, <2>4, <2>5
  <1> QED
    BY <1>1, <1>3, <1>4 DEF Divides

LEMMA GcdDivides ==
  ASSUME NEW m \in Nat \ {0}, NEW n \in Nat \ {0}
  PROVE  /\ Gcd(m, n) \in 1 .. n /\ Divides(Gcd(m, n), m) /\ Divides(Gcd(m, n), n)
         /\ \A d \in 1 .. n : Divides(d, m) /\ Divides(d, n) => d <= Gcd(m, n)
  <1> DEFINE S == {d \in 1 .. n : Divides(d, m) /\ Divides(d, n)}
  <1>1. S # {}
    BY DivisorReached
  <1>2. S \in SUBSET (1 .. n)
    OBVIOUS
  <1>3. Max(S) \in S /\ \A y \in S : y <= Max(S)
    <2> HIDE DEF S
    <2> QED
      BY <1>1, <1>2, LargestNumber
  <1>4. Gcd(m, n) = Max(S)
    BY DEF Gcd
  <1> QED
    BY <1>3, <1>4

\* One of n steps of m comes less than b before place p of n.
Met(m, n, b, p) ==
    \E t \in 0 .. n - 1, j \in 0 .. b - 1 : j < n /\ (((t * m) % n) + j) % n = p

\* Ticks that bridge the common divisor come past every place.
LEMMA EveryPlace ==
  ASSUME NEW m \in Nat \ {0}, NEW n \in Nat \ {0}, NEW b \in Nat \ {0}, Gcd(m, n) <= b,
         NEW p \in 0 .. n - 1
  PROVE  Met(m, n, b, p)
  <1>1. PICK d \in 1 .. n : d \in Reached(m, n) /\ Divides(d, m) /\ Divides(d, n)
    BY DivisorReached
  <1>2. d <= b /\ d <= n
    <2>1. d <= Gcd(m, n) /\ Gcd(m, n) \in 1 .. n
      BY <1>1, GcdDivides
    <2> QED
      BY <2>1
  <1> DEFINE q == p \div d
             j == p % d
             e == q * d
  <1>2a. p \in Int /\ d \in Nat \ {0}
    BY <1>1
  <1>3. q \in Int /\ j \in 0 .. d - 1 /\ p = q * d + j
    BY <1>2a, Remainder
  <1> HIDE DEF q, j
  <1>4. e \in Int /\ e = p - j
    BY <1>3
  <1>5. e >= 0
    <2> SUFFICES ASSUME e < 0 PROVE FALSE
      BY <1>4
    <2>1. q < 0
      <3>1. \A x \in Nat : x * d >= 0
        OBVIOUS
      <3> QED
        BY <1>3, <3>1
    <2>2. \A x \in Nat \ {0} : x * d >= d
      OBVIOUS
    <2>3. (-q) * d >= d
      BY <1>3, <2>1, <2>2
    <2>4. (-q) * d = -e
      BY <1>3
    <2> QED
      BY <1>2a, <1>3, <1>4, <2>3, <2>4
  <1>6. e \in Reached(m, n)
    <2>1. 0 \in Reached(m, n)
      <3>1. 0 = 0 * m + 0 * n
        OBVIOUS
      <3> QED
        BY <3>1 DEF Reached
    <2>2. \A c \in Int : 0 - c * d \in Reached(m, n)
      BY <1>1, <2>1, ReachedLess
    <2> DEFINE c == -q
    <2>3. c \in Int /\ 0 - c * d = e
      BY <1>3
    <2> HIDE DEF c, e
    <2> QED
      BY <2>2, <2>3
  <1>7. PICK t \in Int, k \in Int : e = t * m + k * n
    BY <1>6 DEF Reached
  <1> DEFINE u == t \div n
             s == t % n
  <1>8. u \in Int /\ s \in 0 .. n - 1 /\ t = u * n + s
    BY Remainder
  <1> HIDE DEF u, s, e
  <1>9. s * m = (-(k + u * m)) * n + e
    <2>1. t * m = (u * n) * m + s * m
      BY <1>8, Distributes
    <2>2. (k + u * m) * n = k * n + (u * m) * n
      BY <1>8, Distributes
    <2>3. (u * m) * n = (u * n) * m
      BY <1>8
    <2>4. (-(k + u * m)) * n = -((k + u * m) * n)
      BY <1>8
    <2>5. {t * m, s * m, k * n, (u * m) * n, (k + u * m) * n} \subseteq Int
      BY <1>8
    <2> DEFINE v1 == t * m
               v2 == s * m
               v3 == k * n
               v4 == (u * m) * n
    <2>6. v1 = v4 + v2 /\ (-(k + u * m)) * n = -(v3 + v4) /\ e = v1 + v3
      BY <1>7, <2>1, <2>2, <2>3, <2>4
    <2>7. {v1, v2, v3, v4} \subseteq Int
      BY <2>5
    <2> HIDE DEF v1, v2, v3, v4
    <2>8. v2 = -(v3 + v4) + e
      BY <2>6, <2>7
    <2> QED
      BY <2>6, <2>8 DEF v2
  <1>10. (s * m) % n = e
    <2>1. s * m \in Int /\ -(k + u * m) \in Int
      BY <1>8
    <2>2. e \in 0 .. n - 1
      BY <1>3, <1>4, <1>5
    <2> QED
      BY <1>9, <2>1, <2>2, RemainderIs
  <1>11. (e + j) % n = p
    <2>1. p = 0 * n + p
      OBVIOUS
    <2>2. p % n = p
      BY <2>1, RemainderIs
    <2> QED
      BY <1>3, <1>4, <2>2
  <1>12. s \in 0 .. n - 1 /\ j \in 0 .. b - 1 /\ j < n
    BY <1>2, <1>2a, <1>3, <1>8
  <1>13. (((s * m) % n) + j) % n = p
    BY <1>10, <1>11
  <1> QED
    BY <1>12, <1>13 DEF Met

\* Ticks that do not bridge it never come past the place after a batch.
LEMMA MissedPlace ==
  ASSUME NEW m \in Nat \ {0}, NEW n \in Nat \ {0}, NEW b \in Nat \ {0}, Gcd(m, n) > b,
         NEW t \in Nat, NEW j \in 0 .. b - 1
  PROVE  b \in 0 .. n - 1 /\ (((t * m) % n) + j) % n # b
  <1> DEFINE g == Gcd(m, n)
             x == (t * m) % n
             y == (x + j) % n
  <1>1. g \in 1 .. n /\ m % g = 0 /\ n % g = 0
    BY GcdDivides DEF Divides
  <1> HIDE DEF g
  <1>2. PICK c \in Int, d \in Int : m = c * g /\ n = d * g
    <2>1. g \in Nat \ {0} /\ m \in Int /\ n \in Int
      BY <1>1
    <2>2. m = (m \div g) * g + (m % g) /\ n = (n \div g) * g + (n % g)
      BY <2>1, Remainder
    <2>3. m \div g \in Int /\ n \div g \in Int
      BY <2>1, Remainder
    <2>4. m = (m \div g) * g /\ n = (n \div g) * g
      <3>1. (m \div g) * g \in Int /\ (n \div g) * g \in Int
        BY <2>1, <2>3
      <3> QED
        BY <1>1, <2>2, <3>1
    <2> QED
      BY <2>3, <2>4
  <1>3. \E h \in Int : y = h * g + j
    <2> DEFINE u == (t * m) \div n
               v == (x + j) \div n
    <2>1. u \in Int /\ x \in Int /\ t * m = u * n + x
      <3> DEFINE w == t * m
      <3>1. w \in Int
        OBVIOUS
      <3> HIDE DEF w
      <3>2. w \div n \in Int /\ (w % n) \in 0 .. n - 1 /\ w = (w \div n) * n + (w % n)
        BY <3>1, Remainder
      <3> QED
        BY <3>2 DEF w
    <2> HIDE DEF x, u
    <2>2. v \in Int /\ y \in Int /\ x + j = v * n + y
      <3> DEFINE w == x + j
      <3>1. w \in Int
        BY <2>1
      <3> HIDE DEF w
      <3>2. w \div n \in Int /\ (w % n) \in 0 .. n - 1 /\ w = (w \div n) * n + (w % n)
        BY <3>1, Remainder
      <3> QED
        BY <3>2 DEF w
    <2> HIDE DEF y, v
    <2>3. t * m = (t * c) * g /\ u * n = (u * d) * g /\ v * n = (v * d) * g
      BY <1>1, <1>2, <2>1, <2>2
    <2>4. (t * c - u * d - v * d) * g = (t * c) * g - (u * d) * g - (v * d) * g
      <3>1. t * c \in Int /\ u * d \in Int /\ v * d \in Int /\ g \in Int
        BY <1>1, <2>1, <2>2
      <3> DEFINE a1 == t * c
                 a2 == u * d
                 a3 == v * d
      <3>2. a1 \in Int /\ a2 \in Int /\ a3 \in Int /\ g \in Int
        BY <3>1
      <3> HIDE DEF a1, a2, a3
      <3>3. (a1 - a2 - a3) * g = (a1 - a2) * g - a3 * g /\ (a1 - a2) * g = a1 * g - a2 * g
        BY <3>2, Distributes
      <3>4. (a1 - a2 - a3) * g = a1 * g - a2 * g - a3 * g
        BY <3>3
      <3> QED
        BY <3>4 DEF a1, a2, a3
    <2> DEFINE w1 == (t * c) * g
               w2 == (u * d) * g
               w3 == (v * d) * g
    <2>5. w1 \in Int /\ w2 \in Int /\ w3 \in Int
      BY <1>1, <2>1, <2>2
    <2>6. w1 = w2 + x /\ x + j = w3 + y
      BY <2>1, <2>2, <2>3
    <2>7. (t * c - u * d - v * d) * g = w1 - w2 - w3
      BY <2>4
    <2>8. t * c - u * d - v * d \in Int
      BY <2>1, <2>2
    <2> HIDE DEF w1, w2, w3
    <2>9. y = (w1 - w2 - w3) + j
      BY <2>1, <2>2, <2>5, <2>6
    <2> QED
      BY <2>7, <2>8, <2>9
  <1> HIDE DEF x, y
  <1>4. ASSUME y = b PROVE FALSE
    <2>1. PICK h \in Int : b = h * g + j
      BY <1>3, <1>4
    <2>2. b - j \in 1 .. g - 1 /\ b - j \in Int /\ g \in Nat \ {0}
      BY <1>1 DEF g
    <2>3. b - j = h * g + 0
      <3>1. h * g \in Int
        BY <2>2
      <3> QED
        BY <2>1, <3>1
    <2>4. (b - j) % g = 0
      BY <2>2, <2>3, RemainderIs
    <2>5. b - j = 0 * g + (b - j)
      BY <2>2
    <2>6. (b - j) % g = b - j
      BY <2>2, <2>5, RemainderIs
    <2> QED
      BY <2>2, <2>4, <2>6
  <1>5. b \in 0 .. n - 1
    BY <1>1 DEF g
  <1> QED
    BY <1>4, <1>5 DEF x, y

---------------------------------------------------------------------------
(* The collector *)

\* The places, counted from 0, that a tick takes up.
Place(t, j) == (((t * interval) % Len(Trending)) + j) % Len(Trending)

Size == Min({Batch, Len(Trending)})

TakenUp == {Trending[Place(t, j) + 1] : t \in 0 .. ticks - 1, j \in 0 .. Size - 1}

HarvestInv ==
    /\ interval \in Intervals
    /\ ticks \in Nat
    /\ taken = TakenUp

LEMMA SizeIs ==
  /\ Len(Trending) \in Nat \ {0} /\ DOMAIN Trending = 1 .. Len(Trending)
  /\ Size \in Nat \ {0} /\ Size <= Batch /\ Size <= Len(Trending)
  /\ Size = Batch \/ Size = Len(Trending)
  <1>1. Len(Trending) \in Nat \ {0} /\ DOMAIN Trending = 1 .. Len(Trending) /\ Batch \in Nat \ {0}
    BY DatasetAssumption
  <1> DEFINE n == Len(Trending)
  <1> HIDE DEF n
  <1>2. Min({Batch, n}) = IF Batch <= n THEN Batch ELSE n
    BY <1>1, MinOfTwo DEF n
  <1> QED
    BY <1>1, <1>2 DEF Size, n

LEMMA HarvestInit == DatasetInit => HarvestInv
  BY DEF DatasetInit, HarvestInv, TakenUp

LEMMA HarvestKept == HarvestInv /\ [DatasetNext]_datasetVars => HarvestInv'
  <1> SUFFICES ASSUME HarvestInv, [DatasetNext]_datasetVars PROVE HarvestInv'
    OBVIOUS
  <1> DEFINE n == Len(Trending)
  <1>1. CASE BeginHarvest
    <2>1. ticks' = ticks + 1 /\ interval' = interval /\ ticks \in Nat
      BY <1>1 DEF BeginHarvest, HarvestInv
    <2>2. batch' = [i \in 1 .. Size |-> Trending[((Offset + i - 1) % n) + 1]]
      BY <1>1 DEF BeginHarvest, Size
    <2>3. Size \in Nat \ {0} /\ n \in Nat \ {0}
      BY SizeIs
    <2>4. Offset = (ticks * interval) % n /\ Offset \in Int
      <3>1. interval \in Nat
        BY DatasetAssumption DEF HarvestInv
      <3>2. ticks * interval \in Int
        BY <2>1, <3>1
      <3>3. (ticks * interval) % n \in Int
        <4> HIDE DEF n
        <4> QED
          BY <2>3, <3>2, Remainder
      <3> QED
        BY <3>3 DEF Offset, Minute
    <2>5. \A i \in 1 .. Size : batch'[i] = Trending[Place(ticks, i - 1) + 1]
      <3> TAKE i \in 1 .. Size
      <3>1. Offset + i - 1 = Offset + (i - 1)
        BY <2>4
      <3> QED
        BY <2>2, <2>4, <3>1 DEF Place
    <2>6. ToSet(batch') = {Trending[Place(ticks, j) + 1] : j \in 0 .. Size - 1}
      <3>1. DOMAIN batch' = 1 .. Size
        BY <2>2
      <3>2. ToSet(batch') = {Trending[Place(ticks, i - 1) + 1] : i \in 1 .. Size}
        BY <2>5, <3>1 DEF ToSet
      <3>3. \A j \in 0 .. Size - 1 : j + 1 \in 1 .. Size /\ (j + 1) - 1 = j
        BY <2>3
      <3>4. \A i \in 1 .. Size : i - 1 \in 0 .. Size - 1
        BY <2>3
      <3> HIDE DEF n
      <3> QED
        BY <3>2, <3>3, <3>4
    <2>7. TakenUp' = {Trending[Place(t, j) + 1] : t \in 0 .. ticks, j \in 0 .. Size - 1}
      <3>1. ticks' - 1 = ticks
        BY <2>1
      <3> QED
        BY <2>1, <3>1 DEF TakenUp, Place
    <2>8. 0 .. ticks = (0 .. ticks - 1) \cup {ticks}
      BY <2>1
    <2>9. TakenUp' = TakenUp \cup ToSet(batch')
      <3> DEFINE Of(t) == {Trending[Place(t, j) + 1] : j \in 0 .. Size - 1}
      <3>1. TakenUp' = UNION {Of(t) : t \in 0 .. ticks}
        BY <2>7
      <3>2. TakenUp = UNION {Of(t) : t \in 0 .. ticks - 1}
        BY DEF TakenUp
      <3> HIDE DEF Of
      <3>3. TakenUp' = TakenUp \cup Of(ticks)
        BY <2>8, <3>1, <3>2
      <3> QED
        BY <2>6, <3>3 DEF Of
    <2>10. taken' = taken \cup ToSet(batch')
      BY <1>1 DEF BeginHarvest
    <2> QED
      BY <2>1, <2>9, <2>10 DEF HarvestInv
  <1>2. CASE Harvest \/ UNCHANGED datasetVars
    <2>1. UNCHANGED <<interval, ticks, taken>>
      BY <1>2 DEF Harvest, datasetVars
    <2> QED
      BY <2>1 DEF HarvestInv, TakenUp, Place
  <1> QED
    BY <1>1, <1>2 DEF DatasetNext

LEMMA HarvestSound == HarvestInv => HarvestCovers
  <1> SUFFICES ASSUME HarvestInv PROVE HarvestCovers
    OBVIOUS
  <1> DEFINE n == Len(Trending)
  <1>1. /\ n \in Nat \ {0} /\ DOMAIN Trending = 1 .. n
        /\ Size \in Nat \ {0} /\ Size <= Batch /\ Size <= n /\ (Size = Batch \/ Size = n)
    BY SizeIs
  <1>2. interval \in Nat \ {0} /\ Batch \in Nat \ {0} /\ ticks \in Nat
    BY DatasetAssumption DEF HarvestInv
  <1> HIDE DEF n
  <1>3. \A t \in Nat, j \in Nat : Place(t, j) \in 0 .. n - 1
    <2> TAKE t \in Nat, j \in Nat
    <2>1. t * interval \in Int
      BY <1>2
    <2>2. (t * interval) % n \in 0 .. n - 1
      BY <1>1, <2>1, Remainder
    <2>3. ((t * interval) % n) + j \in Int
      BY <2>2
    <2>4. (((t * interval) % n) + j) % n \in 0 .. n - 1
      BY <1>1, <2>3, Remainder
    <2> QED
      BY <2>4 DEF Place, n
  <1>4. ASSUME ticks >= n, Gcd(interval, n) <= Batch PROVE taken = ToSet(Trending)
    <2>1. taken \subseteq ToSet(Trending)
      <3> SUFFICES ASSUME NEW t \in 0 .. ticks - 1, NEW j \in 0 .. Size - 1
                   PROVE  Trending[Place(t, j) + 1] \in ToSet(Trending)
        BY DEF HarvestInv, TakenUp
      <3>1. Place(t, j) \in 0 .. n - 1
        BY <1>3
      <3>2. Place(t, j) + 1 \in 1 .. n
        BY <1>1, <3>1
      <3> QED
        BY <1>1, <3>2 DEF ToSet
    <2>2. ASSUME NEW i \in 1 .. n PROVE Trending[i] \in taken
      <3>1. i - 1 \in 0 .. n - 1
        BY <1>1
      <3>2. PICK t \in 0 .. n - 1, j \in 0 .. Batch - 1 :
                j < n /\ (((t * interval) % n) + j) % n = i - 1
        <4>1. Met(interval, n, Batch, i - 1)
          BY <1>1, <1>2, <1>4, <3>1, EveryPlace
        <4> QED
          BY <4>1 DEF Met
      <3>3. Place(t, j) = i - 1
        BY <3>2 DEF Place, n
      <3>4. t \in 0 .. ticks - 1 /\ j \in 0 .. Size - 1
        BY <1>1, <1>2, <1>4, <3>2
      <3>5. Place(t, j) + 1 = i
        BY <3>3
      <3> QED
        BY <3>4, <3>5 DEF HarvestInv, TakenUp
    <2> QED
      BY <1>1, <2>1, <2>2 DEF ToSet
  <1>5. ASSUME Gcd(interval, n) > Batch PROVE taken # ToSet(Trending)
    <2>1. Batch \in 0 .. n - 1
      <3>1. Gcd(interval, n) \in 1 .. n
        BY <1>1, <1>2, GcdDivides
      <3> QED
        BY <1>1, <1>2, <1>5, <3>1
    <2>2. Batch + 1 \in DOMAIN Trending
      BY <1>1, <2>1
    <2>3. ASSUME NEW t \in 0 .. ticks - 1, NEW j \in 0 .. Size - 1,
                 Trending[Place(t, j) + 1] = Trending[Batch + 1]
          PROVE  FALSE
      <3>1. Place(t, j) \in 0 .. n - 1
        BY <1>3
      <3>2. Place(t, j) + 1 \in DOMAIN Trending
        BY <1>1, <3>1
      <3>3. Place(t, j) + 1 = Batch + 1
        BY <2>2, <2>3, <3>2, DatasetAssumption DEF IsInjective
      <3>4. Place(t, j) = Batch
        BY <1>2, <3>1, <3>3
      <3>5. t \in Nat /\ j \in 0 .. Batch - 1
        BY <1>1, <1>2
      <3>6. (((t * interval) % n) + j) % n # Batch
        BY <1>1, <1>2, <1>5, <3>5, MissedPlace
      <3> QED
        BY <3>4, <3>6 DEF Place, n
    <2>4. Trending[Batch + 1] \notin taken
      BY <2>3 DEF HarvestInv, TakenUp
    <2> QED
      BY <2>2, <2>4 DEF ToSet
  <1> QED
    BY <1>4, <1>5 DEF HarvestCovers, n

---------------------------------------------------------------------------
(* The calibration *)

PerfRows == [profit : Int, cost : Int, roi : Int]

StoreInv ==
    /\ IsFiniteSet(DOMAIN store)
    /\ \A key \in DOMAIN store : store[key] \in PerfRows

LEMMA StoreInit == DatasetInit => StoreInv
  <1> SUFFICES ASSUME DatasetInit PROVE StoreInv
    OBVIOUS
  <1>1. DOMAIN store = {}
    BY DEF DatasetInit
  <1> QED
    BY <1>1, FS_EmptySet DEF StoreInv

\* What is recorded of one token adds finitely many rows.
LEMMA ObservedTyped ==
  ASSUME StoreInv, NEW token, NEW rows \in TopTraders, Observe(token, rows)
  PROVE  StoreInv'
  <1> DEFINE day == (Minute - interval) \div Day
             W == DOMAIN rows
             today == {<<wallet, token, day>> : wallet \in W}
             f == [wallet \in W |-> <<wallet, token, day>>]
  <1>1. PICK L \in SUBSET Traders : rows \in [L -> Rows]
    BY DEF TopTraders
  <1>2. IsFiniteSet(W)
    <2>1. W \in SUBSET Traders
      BY <1>1
    <2> QED
      BY <2>1, FS_Subset, DatasetAssumption
  <1>3. IsFiniteSet(today)
    <2>1. f \in Surjection(W, today)
      BY DEF Surjection
    <2> HIDE DEF f, today, W
    <2> QED
      BY <1>2, <2>1, FS_Surjection
  <1>4. store' = [key \in today \cup DOMAIN store |->
                     IF key \in today THEN rows[key[1]] ELSE store[key]]
    BY DEF Observe
  <1>5. \A key \in today : rows[key[1]] \in PerfRows
    <2> SUFFICES ASSUME NEW wallet \in W PROVE rows[wallet] \in PerfRows
      OBVIOUS
    <2>1. rows[wallet] \in Rows
      BY <1>1
    <2> QED
      BY <2>1, DatasetAssumption DEF PerfRows
  <1> HIDE DEF today
  <1>6. IsFiniteSet(today \cup DOMAIN store)
    BY <1>3, FS_Union DEF StoreInv
  <1> QED
    BY <1>4, <1>5, <1>6 DEF StoreInv

LEMMA StoreKept == StoreInv /\ [DatasetNext]_datasetVars => StoreInv'
  <1> SUFFICES ASSUME StoreInv, [DatasetNext]_datasetVars PROVE StoreInv'
    OBVIOUS
  <1>1. CASE Harvest
    <2>1. PICK rows \in TopTraders : Observe(Head(batch), rows)
      BY <1>1 DEF Harvest
    <2> QED
      BY <2>1, ObservedTyped
  <1>2. CASE BeginHarvest \/ UNCHANGED datasetVars
    BY <1>2 DEF BeginHarvest, datasetVars, StoreInv
  <1> QED
    BY <1>1, <1>2 DEF DatasetNext

RankOf(n) == (CutPercent * (n - 1) + 50) \div 100

Quarter(n) == (n + 1) \div 4

LEMMA RankIs == \A n \in Nat \ {0} : RankOf(n) \in 0 .. n - 1 /\ RankOf(n) <= Quarter(n)
  BY DEF RankOf, Quarter, CutPercent

\* The value at the nearest rank: no more than that many are below it, and more
\* than that many are not above it.
AtRank(K, f, rank) ==
    \E x \in K : /\ Cardinality({y \in K : f[y] < f[x]}) <= rank
                 /\ Cardinality({y \in K : f[y] <= f[x]}) > rank

LEMMA NearestRank ==
  ASSUME NEW K, IsFiniteSet(K), K # {}, NEW f \in [K -> Int], NEW rank \in 0 .. Cardinality(K) - 1
  PROVE  AtRank(K, f, rank)
  <1> DEFINE UpTo(x) == {y \in K : f[y] <= f[x]}
             W == {x \in K : Cardinality(UpTo(x)) > rank}
  <1>1. Cardinality(K) \in Nat
    BY FS_CardinalityType
  <1>2. W # {}
    <2>1. PICK x \in K : \A y \in K : f[y] <= f[x]
      BY LargestOf
    <2>2. UpTo(x) = K
      BY <2>1
    <2> HIDE DEF UpTo
    <2>3. Cardinality(UpTo(x)) > rank
      BY <1>1, <2>2
    <2> QED
      BY <2>3
  <1>3. PICK x \in W : \A y \in W : f[x] <= f[y]
    <2> DEFINE g == [y \in W |-> f[y]]
    <2>1. W \in SUBSET K
      OBVIOUS
    <2>2. IsFiniteSet(W)
      <3> HIDE DEF W
      <3> QED
        BY <2>1, FS_Subset
    <2>3. g \in [W -> Int]
      BY <2>1
    <2>4. \E x \in W : \A y \in W : g[x] <= g[y]
      <3> HIDE DEF g, W
      <3> QED
        BY <1>2, <2>2, <2>3, LeastOf
    <2> HIDE DEF W
    <2> QED
      BY <2>4
  <1> DEFINE Below == {y \in K : f[y] < f[x]}
  <1>4. IsFiniteSet(Below) /\ Cardinality(Below) \in Nat
    <2>1. Below \in SUBSET K
      OBVIOUS
    <2>2. IsFiniteSet(Below)
      <3> HIDE DEF Below
      <3> QED
        BY <2>1, FS_Subset
    <2> QED
      BY <2>2, FS_CardinalityType
  <1>5. ASSUME Cardinality(Below) > rank PROVE FALSE
    <2>1. Below # {}
      <3>1. Cardinality({}) = 0
        BY FS_EmptySet
      <3> HIDE DEF Below
      <3> QED
        BY <1>5, <3>1
    <2> DEFINE g == [y \in Below |-> f[y]]
    <2>2. g \in [Below -> Int]
      OBVIOUS
    <2>3. \E u \in Below : \A y \in Below : g[y] <= g[u]
      <3> HIDE DEF g, Below
      <3> QED
        BY <1>4, <2>1, <2>2, LargestOf
    <2>4. PICK u \in Below : \A y \in Below : f[y] <= f[u]
      BY <2>3
    <2>5. u \in K /\ x \in K /\ f[u] < f[x] /\ f[u] \in Int /\ f[x] \in Int
      BY <1>3
    <2>6. UpTo(u) = Below
      <3>1. \A y \in K : f[y] \in Int
        OBVIOUS
      <3>2. \A y \in K : f[y] <= f[u] => f[y] < f[x]
        BY <2>5, <3>1
      <3>3. \A y \in K : f[y] < f[x] => f[y] <= f[u]
        BY <2>4
      <3> QED
        BY <3>2, <3>3
    <2> HIDE DEF UpTo, Below
    <2>7. u \in W
      BY <1>5, <2>5, <2>6
    <2> HIDE DEF W
    <2>8. f[x] <= f[u]
      BY <1>3, <2>7
    <2> QED
      BY <2>5, <2>8
  <1>6. Cardinality(Below) <= rank
    <2> HIDE DEF Below
    <2> QED
      BY <1>1, <1>4, <1>5
  <1> QED
    BY <1>3, <1>6 DEF AtRank

\* Rounding to whole dollars moves a value up by half a dollar at most.
LEMMA RoundedNear ==
  ASSUME NEW v \in Int
  PROVE  Rounded(v) \in Int /\ 2 * Rounded(v) <= 2 * v + Dollar
  <1> DEFINE e == 2 * Dollar
             k == (2 * v + Dollar) \div e
  <1>1. Dollar \in Nat \ {0} /\ e \in Nat \ {0} /\ 2 * v + Dollar \in Int
    BY DatasetAssumption
  <1>2. k \in Int /\ e * k <= 2 * v + Dollar
    <2> HIDE DEF e
    <2> QED
      BY <1>1
  <1>3. Rounded(v) = k * Dollar
    BY DEF Rounded
  <1> HIDE DEF k
  <1>4. e * k = 2 * (k * Dollar)
    BY <1>1, <1>2
  <1> QED
    BY <1>1, <1>2, <1>3, <1>4

LEMMA RoundedNought == Rounded(0) = 0
  <1> DEFINE e == 2 * Dollar
             k == Dollar \div e
  <1>1. Dollar \in Nat \ {0} /\ e \in Nat \ {0}
    BY DatasetAssumption
  <1>2. k \in Int /\ e * k <= Dollar /\ Dollar < e * k + e
    <2> HIDE DEF e
    <2> QED
      BY <1>1
  <1>3. Rounded(0) = k * Dollar
    BY <1>1 DEF Rounded
  <1> HIDE DEF k
  <1>4. k = 0
    BY <1>1, <1>2
  <1> QED
    BY <1>1, <1>3, <1>4

\* A quartile is a value of the observations, and a quarter of them is below it.
LEMMA CostQuartile ==
  ASSUME StoreInv, NEW read \in SUBSET DOMAIN store, NEW S, S = SpentIn(read), S # {}
  PROVE  LET v == Percentile(CostAt, S, CutPercent)
         IN  /\ v \in {CostAt(x) : x \in S}
             /\ Cardinality({x \in S : CostAt(x) < v}) <= Quarter(Cardinality(S))
  <1> DEFINE v == Percentile(CostAt, S, CutPercent)
             rank == RankOf(Cardinality(S))
             f == [x \in S |-> CostAt(x)]
             Good(w) == /\ Cardinality({x \in S : CostAt(x) < w}) <= rank
                        /\ Cardinality({x \in S : CostAt(x) <= w}) > rank
  <1>1. IsFiniteSet(S)
    <2>1. S \in SUBSET DOMAIN store
      BY DEF SpentIn
    <2> QED
      BY <2>1, FS_Subset DEF StoreInv
  <1>2. f \in [S -> Int]
    BY DEF StoreInv, PerfRows, CostAt, SpentIn
  <1>3. Cardinality(S) \in Nat \ {0}
    BY <1>1, FS_CardinalityType, FS_EmptySet
  <1>4. rank \in 0 .. Cardinality(S) - 1 /\ rank <= Quarter(Cardinality(S))
    BY <1>3, RankIs
  <1>5. AtRank(S, f, rank)
    <2> HIDE DEF f, rank
    <2> QED
      BY <1>1, <1>2, <1>4, NearestRank
  <1>6. \E w \in {CostAt(x) : x \in S} : Good(w)
    <2>1. \A x \in S : {y \in S : f[y] < f[x]} = {y \in S : CostAt(y) < CostAt(x)}
      OBVIOUS
    <2>2. \A x \in S : {y \in S : f[y] <= f[x]} = {y \in S : CostAt(y) <= CostAt(x)}
      OBVIOUS
    <2> HIDE DEF f, rank
    <2> QED
      BY <1>5, <2>1, <2>2 DEF AtRank
  <1>7. v = CHOOSE w \in {CostAt(x) : x \in S} : Good(w)
    BY DEF Percentile, RankOf
  <1> HIDE DEF v, Good
  <1>8. v \in {CostAt(x) : x \in S} /\ Good(v)
    BY <1>6, <1>7
  <1>9. Cardinality({x \in S : CostAt(x) < v}) <= rank
    BY <1>8 DEF Good
  <1>10. Cardinality({x \in S : CostAt(x) < v}) \in Nat
    <2>1. {x \in S : CostAt(x) < v} \in SUBSET S
      OBVIOUS
    <2> QED
      BY <1>1, <2>1, FS_Subset, FS_CardinalityType
  <1>11. Cardinality({x \in S : CostAt(x) < v}) <= Quarter(Cardinality(S))
    <2> HIDE DEF rank
    <2>1. Quarter(Cardinality(S)) \in Int
      BY <1>3 DEF Quarter
    <2> QED
      BY <1>4, <1>9, <1>10, <2>1
  <1> QED
    BY <1>8, <1>11 DEF v

LEMMA ProfitQuartile ==
  ASSUME StoreInv, NEW read \in SUBSET DOMAIN store, NEW S, S = GainedIn(read), S # {}
  PROVE  LET v == Percentile(ProfitAt, S, CutPercent)
         IN  /\ v \in {ProfitAt(x) : x \in S}
             /\ Cardinality({x \in S : ProfitAt(x) < v}) <= Quarter(Cardinality(S))
  <1> DEFINE v == Percentile(ProfitAt, S, CutPercent)
             rank == RankOf(Cardinality(S))
             f == [x \in S |-> ProfitAt(x)]
             Good(w) == /\ Cardinality({x \in S : ProfitAt(x) < w}) <= rank
                        /\ Cardinality({x \in S : ProfitAt(x) <= w}) > rank
  <1>1. IsFiniteSet(S)
    <2>1. S \in SUBSET DOMAIN store
      BY DEF GainedIn
    <2> QED
      BY <2>1, FS_Subset DEF StoreInv
  <1>2. f \in [S -> Int]
    BY DEF StoreInv, PerfRows, ProfitAt, GainedIn
  <1>3. Cardinality(S) \in Nat \ {0}
    BY <1>1, FS_CardinalityType, FS_EmptySet
  <1>4. rank \in 0 .. Cardinality(S) - 1 /\ rank <= Quarter(Cardinality(S))
    BY <1>3, RankIs
  <1>5. AtRank(S, f, rank)
    <2> HIDE DEF f, rank
    <2> QED
      BY <1>1, <1>2, <1>4, NearestRank
  <1>6. \E w \in {ProfitAt(x) : x \in S} : Good(w)
    <2>1. \A x \in S : {y \in S : f[y] < f[x]} = {y \in S : ProfitAt(y) < ProfitAt(x)}
      OBVIOUS
    <2>2. \A x \in S : {y \in S : f[y] <= f[x]} = {y \in S : ProfitAt(y) <= ProfitAt(x)}
      OBVIOUS
    <2> HIDE DEF f, rank
    <2> QED
      BY <1>5, <2>1, <2>2 DEF AtRank
  <1>7. v = CHOOSE w \in {ProfitAt(x) : x \in S} : Good(w)
    BY DEF Percentile, RankOf
  <1> HIDE DEF v, Good
  <1>8. v \in {ProfitAt(x) : x \in S} /\ Good(v)
    BY <1>6, <1>7
  <1>9. Cardinality({x \in S : ProfitAt(x) < v}) <= rank
    BY <1>8 DEF Good
  <1>10. Cardinality({x \in S : ProfitAt(x) < v}) \in Nat
    <2>1. {x \in S : ProfitAt(x) < v} \in SUBSET S
      OBVIOUS
    <2> QED
      BY <1>1, <2>1, FS_Subset, FS_CardinalityType
  <1>11. Cardinality({x \in S : ProfitAt(x) < v}) <= Quarter(Cardinality(S))
    <2> HIDE DEF rank
    <2>1. Quarter(Cardinality(S)) \in Int
      BY <1>3 DEF Quarter
    <2> QED
      BY <1>4, <1>9, <1>10, <2>1
  <1> QED
    BY <1>8, <1>11 DEF v

\* What calibrate makes of the floors: a floor, or a quartile above it.
LEMMA CostFilter ==
  ASSUME StoreInv, NEW read \in SUBSET DOMAIN store, NEW S, S = SpentIn(read)
  PROVE  LET F == Calibrate(read).cost
         IN  /\ F \in Int /\ F >= FloorCost
             /\ Cardinality({key \in S : FloorCost <= CostAt(key) /\ ClearlyBelow(CostAt(key), F)})
                    <= Quarter(Cardinality(S))
             /\ F = FloorCost \/ \E x \in S : ~ClearlyBelow(CostAt(x), F)
  <1> DEFINE F == Calibrate(read).cost
             P == Percentile(CostAt, S, CutPercent)
             R == Rounded(P)
             Cut == {key \in S : FloorCost <= CostAt(key) /\ ClearlyBelow(CostAt(key), F)}
             Below == {x \in S : CostAt(x) < P}
  <1>1. FloorCost \in Nat /\ Dollar \in Nat \ {0}
    BY DatasetAssumption
  <1>2. IsFiniteSet(S) /\ Cardinality(S) \in Nat
    <2>1. S \in SUBSET DOMAIN store
      BY DEF SpentIn
    <2>2. IsFiniteSet(S)
      BY <2>1, FS_Subset DEF StoreInv
    <2> QED
      BY <2>2, FS_CardinalityType
  <1>3. Quarter(Cardinality(S)) \in Nat
    BY <1>2 DEF Quarter
  <1>4. \A x \in S : CostAt(x) \in Int
    BY DEF StoreInv, PerfRows, CostAt, SpentIn
  <1>5. \/ S = {} /\ P = 0
        \/ S # {} /\ P \in {CostAt(x) : x \in S} /\ Cardinality(Below) <= Quarter(Cardinality(S))
    <2>1. S = {} => P = 0
      BY DEF Percentile
    <2>2. S # {} => P \in {CostAt(x) : x \in S} /\ Cardinality(Below) <= Quarter(Cardinality(S))
      BY CostQuartile
    <2> HIDE DEF P, Below
    <2> QED
      BY <2>1, <2>2
  <1>6. P \in Int /\ R \in Int /\ 2 * R <= 2 * P + Dollar /\ (P = 0 => R = 0)
    <2> HIDE DEF P
    <2>1. P \in Int
      BY <1>4, <1>5
    <2> QED
      BY <2>1, RoundedNear, RoundedNought
  <1>7. F = FloorCost \/ F = Max({FloorCost, R})
    BY DEF Calibrate
  <1>8. \/ F = FloorCost
        \/ F = R /\ R >= FloorCost /\ S # {}
    <2> HIDE DEF F, P, R
    <2>1. Max({FloorCost, R}) = IF FloorCost >= R THEN FloorCost ELSE R
      BY <1>1, <1>6, MaxOfTwo
    <2> QED
      BY <1>1, <1>5, <1>6, <1>7, <2>1
  <1> HIDE DEF F, P, R, Below, Cut
  <1>9. CASE F = FloorCost
    <2>1. Cut = {}
      BY <1>1, <1>4, <1>9 DEF Cut, ClearlyBelow
    <2>2. Cardinality(Cut) = 0
      BY <2>1, FS_EmptySet
    <2> QED
      BY <1>1, <1>3, <1>9, <2>2 DEF F, Cut
  <1>10. CASE F = R /\ R >= FloorCost /\ S # {}
    <2>1. Cut \in SUBSET Below /\ Below \in SUBSET S
      BY <1>1, <1>4, <1>6, <1>10 DEF Cut, Below, ClearlyBelow
    <2>2. IsFiniteSet(Below) /\ Cardinality(Cut) <= Cardinality(Below)
      BY <1>2, <2>1, FS_Subset
    <2>3. Cardinality(Cut) \in Nat /\ Cardinality(Below) \in Nat
      BY <2>1, <2>2, FS_Subset, FS_CardinalityType
    <2>4. Cardinality(Below) <= Quarter(Cardinality(S)) /\ P \in {CostAt(x) : x \in S}
      BY <1>5, <1>10
    <2>5. Cardinality(Cut) <= Quarter(Cardinality(S))
      BY <1>3, <2>2, <2>3, <2>4
    <2>6. PICK x \in S : CostAt(x) = P
      BY <2>4
    <2>7. ~ClearlyBelow(CostAt(x), F)
      BY <1>1, <1>6, <1>10, <2>6 DEF ClearlyBelow
    <2>8. F \in Int /\ F >= FloorCost /\ \E y \in S : ~ClearlyBelow(CostAt(y), F)
      BY <1>6, <1>10, <2>7
    <2> QED
      BY <2>5, <2>8 DEF F, Cut
  <1> QED
    BY <1>8, <1>9, <1>10

LEMMA ProfitFilter ==
  ASSUME StoreInv, NEW read \in SUBSET DOMAIN store, NEW S, S = GainedIn(read)
  PROVE  LET F == Calibrate(read).profit
         IN  /\ F \in Int /\ F >= FloorProfit
             /\ Cardinality({key \in S : FloorProfit <= ProfitAt(key) /\ ClearlyBelow(ProfitAt(key), F)})
                    <= Quarter(Cardinality(S))
             /\ F = FloorProfit \/ \E x \in S : ~ClearlyBelow(ProfitAt(x), F)
  <1> DEFINE F == Calibrate(read).profit
             P == Percentile(ProfitAt, S, CutPercent)
             R == Rounded(P)
             Cut == {key \in S : FloorProfit <= ProfitAt(key) /\ ClearlyBelow(ProfitAt(key), F)}
             Below == {x \in S : ProfitAt(x) < P}
  <1>1. FloorProfit \in Nat /\ Dollar \in Nat \ {0}
    BY DatasetAssumption
  <1>2. IsFiniteSet(S) /\ Cardinality(S) \in Nat
    <2>1. S \in SUBSET DOMAIN store
      BY DEF GainedIn
    <2>2. IsFiniteSet(S)
      BY <2>1, FS_Subset DEF StoreInv
    <2> QED
      BY <2>2, FS_CardinalityType
  <1>3. Quarter(Cardinality(S)) \in Nat
    BY <1>2 DEF Quarter
  <1>4. \A x \in S : ProfitAt(x) \in Int
    BY DEF StoreInv, PerfRows, ProfitAt, GainedIn
  <1>5. \/ S = {} /\ P = 0
        \/ S # {} /\ P \in {ProfitAt(x) : x \in S} /\ Cardinality(Below) <= Quarter(Cardinality(S))
    <2>1. S = {} => P = 0
      BY DEF Percentile
    <2>2. S # {} => P \in {ProfitAt(x) : x \in S} /\ Cardinality(Below) <= Quarter(Cardinality(S))
      BY ProfitQuartile
    <2> HIDE DEF P, Below
    <2> QED
      BY <2>1, <2>2
  <1>6. P \in Int /\ R \in Int /\ 2 * R <= 2 * P + Dollar /\ (P = 0 => R = 0)
    <2> HIDE DEF P
    <2>1. P \in Int
      BY <1>4, <1>5
    <2> QED
      BY <2>1, RoundedNear, RoundedNought
  <1>7. F = FloorProfit \/ F = Max({FloorProfit, R})
    BY DEF Calibrate
  <1>8. \/ F = FloorProfit
        \/ F = R /\ R >= FloorProfit /\ S # {}
    <2> HIDE DEF F, P, R
    <2>1. Max({FloorProfit, R}) = IF FloorProfit >= R THEN FloorProfit ELSE R
      BY <1>1, <1>6, MaxOfTwo
    <2> QED
      BY <1>1, <1>5, <1>6, <1>7, <2>1
  <1> HIDE DEF F, P, R, Below, Cut
  <1>9. CASE F = FloorProfit
    <2>1. Cut = {}
      BY <1>1, <1>4, <1>9 DEF Cut, ClearlyBelow
    <2>2. Cardinality(Cut) = 0
      BY <2>1, FS_EmptySet
    <2> QED
      BY <1>1, <1>3, <1>9, <2>2 DEF F, Cut
  <1>10. CASE F = R /\ R >= FloorProfit /\ S # {}
    <2>1. Cut \in SUBSET Below /\ Below \in SUBSET S
      BY <1>1, <1>4, <1>6, <1>10 DEF Cut, Below, ClearlyBelow
    <2>2. IsFiniteSet(Below) /\ Cardinality(Cut) <= Cardinality(Below)
      BY <1>2, <2>1, FS_Subset
    <2>3. Cardinality(Cut) \in Nat /\ Cardinality(Below) \in Nat
      BY <2>1, <2>2, FS_Subset, FS_CardinalityType
    <2>4. Cardinality(Below) <= Quarter(Cardinality(S)) /\ P \in {ProfitAt(x) : x \in S}
      BY <1>5, <1>10
    <2>5. Cardinality(Cut) <= Quarter(Cardinality(S))
      BY <1>3, <2>2, <2>3, <2>4
    <2>6. PICK x \in S : ProfitAt(x) = P
      BY <2>4
    <2>7. ~ClearlyBelow(ProfitAt(x), F)
      BY <1>1, <1>6, <1>10, <2>6 DEF ClearlyBelow
    <2>8. F \in Int /\ F >= FloorProfit /\ \E y \in S : ~ClearlyBelow(ProfitAt(y), F)
      BY <1>6, <1>10, <2>7
    <2> QED
      BY <2>5, <2>8 DEF F, Cut
  <1> QED
    BY <1>8, <1>9, <1>10

LEMMA CalibrationSound == StoreInv => CalibrationKeeps
  <1> SUFFICES ASSUME StoreInv, NEW read \in Reads
               PROVE  LET b == Briefing(read)
                          Cut(values(_), keys, floor, limit) ==
                              Cardinality({key \in keys :
                                  floor <= values(key) /\ ClearlyBelow(values(key), limit)})
                      IN /\ b.filter.cost >= FloorCost /\ b.filter.profit >= FloorProfit
                         /\ Cut(CostAt, SpentIn(read), FloorCost, b.filter.cost)
                                <= Quarter(Cardinality(SpentIn(read)))
                         /\ Cut(ProfitAt, GainedIn(read), FloorProfit, b.filter.profit)
                                <= Quarter(Cardinality(GainedIn(read)))
                         /\ \A key \in TopBy(ProfitAt, DOMAIN store) :
                                CostAt(key) >= b.filter.cost /\ ProfitAt(key) >= FloorProfit =>
                                    \/ key \in b.profit
                                    \/ ~ClearlyBelow(ProfitAt(key), b.filter.profit)
                                       /\ b.profit = {}
    BY DEF CalibrationKeeps, Quarter
  <1> DEFINE f == Calibrate(read)
             qualifying == {key \in DOMAIN store : Passes(key, f)}
  <1>1. Briefing(read).filter = f /\ Briefing(read).profit = TopBy(ProfitAt, qualifying)
    BY DEF Briefing
  <1>2. read \in SUBSET DOMAIN store
    BY DEF Reads
  <1>3. /\ f.cost >= FloorCost
        /\ Cardinality({key \in SpentIn(read) :
                           FloorCost <= CostAt(key) /\ ClearlyBelow(CostAt(key), f.cost)})
               <= Quarter(Cardinality(SpentIn(read)))
    BY <1>2, CostFilter
  <1>4. /\ f.profit \in Int /\ f.profit >= FloorProfit
        /\ Cardinality({key \in GainedIn(read) :
                           FloorProfit <= ProfitAt(key) /\ ClearlyBelow(ProfitAt(key), f.profit)})
               <= Quarter(Cardinality(GainedIn(read)))
        /\ \/ f.profit = FloorProfit
           \/ \E x \in GainedIn(read) : ~ClearlyBelow(ProfitAt(x), f.profit)
    BY <1>2, ProfitFilter
  <1>5. ASSUME NEW key \in TopBy(ProfitAt, DOMAIN store),
               CostAt(key) >= f.cost, ProfitAt(key) >= FloorProfit
        PROVE  \/ key \in TopBy(ProfitAt, qualifying)
               \/ ~ClearlyBelow(ProfitAt(key), f.profit) /\ TopBy(ProfitAt, qualifying) = {}
    <2>1. key \in DOMAIN store /\ \A y \in DOMAIN store : ProfitAt(y) <= ProfitAt(key)
      BY DEF TopBy
    <2>2. GainedIn(read) \subseteq DOMAIN store
      BY <1>2 DEF GainedIn
    <2>3. \A y \in DOMAIN store : ProfitAt(y) \in Int
      BY DEF StoreInv, PerfRows, ProfitAt
    <2> HIDE DEF f
    <2>4. CASE ProfitAt(key) >= f.profit
      <3>1. key \in qualifying
        BY <1>5, <2>1, <2>4 DEF Passes
      <3>2. \A y \in qualifying : ProfitAt(y) <= ProfitAt(key)
        BY <2>1
      <3> HIDE DEF qualifying
      <3> QED
        BY <3>1, <3>2 DEF TopBy
    <2>5. CASE ~(ProfitAt(key) >= f.profit)
      <3>1. PICK x \in GainedIn(read) : ~ClearlyBelow(ProfitAt(x), f.profit)
        BY <1>4, <1>5, <2>5
      <3>2. ProfitAt(x) <= ProfitAt(key) /\ ProfitAt(x) \in Int /\ ProfitAt(key) \in Int
            /\ f.profit \in Int /\ Dollar \in Int
        BY <1>4, <2>1, <2>2, <2>3, <3>1, DatasetAssumption
      <3>3. ~ClearlyBelow(ProfitAt(key), f.profit)
        BY <3>1, <3>2 DEF ClearlyBelow
      <3>4. qualifying = {}
        BY <1>4, <2>1, <2>3, <2>5 DEF Passes
      <3>5. TopBy(ProfitAt, qualifying) = {}
        BY <3>4 DEF TopBy
      <3> QED
        BY <3>3, <3>5
    <2> QED
      BY <2>4, <2>5
  <1> HIDE DEF f, qualifying
  <1> QED
    BY <1>1, <1>3, <1>4, <1>5

\* The ticks take up every trending token if and only if their batch bridges the
\* common divisor, and a calibrated filter cuts, past its floor and but for its
\* rounding, at most a quarter of what was read, for every ranking, batch,
\* interval, set of rows and part of the store read (intelBuilder.ts,
\* calibration.ts).
THEOREM DatasetIsSound == DatasetSpec => []DatasetSound
  <1>1. DatasetInit => HarvestInv /\ StoreInv
    BY HarvestInit, StoreInit
  <1>2. (HarvestInv /\ StoreInv) /\ [DatasetNext]_datasetVars => (HarvestInv /\ StoreInv)'
    BY HarvestKept, StoreKept
  <1>3. HarvestInv /\ StoreInv => DatasetSound
    BY HarvestSound, CalibrationSound DEF DatasetSound
  <1> QED
    BY <1>1, <1>2, <1>3, PTL DEF DatasetSpec

---------------------------------------------------------------------------
(* The detector *)

Lookups(found) == \A w \in DOMAIN found : found[w] \in Records

DetectorInv == observed \in Seq(Entries) /\ Lookups(funding)

Members(seen, found, f) == GroupOf(seen, found, f).members

\* Whose groups are large enough.
Anchors(seen, found) ==
    {f \in {FunderOf(seen[i], found) : i \in Eligible(seen, found)} :
        Cardinality(Members(seen, found, f)) >= MinCluster}

LEMMA EligibleAre ==
  ASSUME NEW seen \in Seq(Entries), NEW found, Lookups(found)
  PROVE  /\ IsFiniteSet(Eligible(seen, found))
         /\ \A i \in Eligible(seen, found) : i \in DOMAIN seen /\ FunderOf(seen[i], found) \in Nat
  <1> DEFINE E == Eligible(seen, found)
  <1>1. E \in SUBSET (1 .. Len(seen)) /\ DOMAIN seen = 1 .. Len(seen) /\ Len(seen) \in Nat
    BY DEF Eligible, Real
  <1>2. IsFiniteSet(E)
    <2> HIDE DEF E
    <2>1. IsFiniteSet(1 .. Len(seen))
      BY <1>1, FS_Interval
    <2> QED
      BY <1>1, <2>1, FS_Subset
  <1>3. ASSUME NEW i \in E PROVE FunderOf(seen[i], found) \in Nat
    <2>1. FunderOf(seen[i], found) # NotKnown
      BY <1>3 DEF Eligible
    <2>2. seen[i].wallet \in DOMAIN found /\ FunderOf(seen[i], found) = found[seen[i].wallet].funder
      BY <2>1 DEF FunderOf
    <2>3. found[seen[i].wallet] \in Records
      BY <2>2 DEF Lookups
    <2> QED
      BY <2>1, <2>2, <2>3, CoordinationAssumption
  <1> QED
    BY <1>1, <1>2, <1>3

LEMMA MembersAre ==
  ASSUME NEW seen \in Seq(Entries), NEW found, Lookups(found), NEW f
  PROVE  /\ Members(seen, found, f) = {i \in Eligible(seen, found) : FunderOf(seen[i], found) = f}
         /\ IsFiniteSet(Members(seen, found, f))
         /\ Cardinality(Members(seen, found, f)) \in Nat
  <1> DEFINE M == Members(seen, found, f)
  <1>1. M = {i \in Eligible(seen, found) : FunderOf(seen[i], found) = f}
    BY DEF Members, GroupOf
  <1>2. M \in SUBSET Eligible(seen, found)
    BY <1>1
  <1> HIDE DEF M
  <1>3. IsFiniteSet(M) /\ Cardinality(M) \in Nat
    BY <1>2, EligibleAre, FS_Subset, FS_CardinalityType
  <1> QED
    BY <1>1, <1>3 DEF M

LEMMA AnchorsAre ==
  ASSUME NEW seen \in Seq(Entries), NEW found, Lookups(found)
  PROVE  /\ IsFiniteSet(Anchors(seen, found)) /\ Anchors(seen, found) \in SUBSET Nat
         /\ Best(seen, found) =
              {g \in {GroupOf(seen, found, f) : f \in Anchors(seen, found)} :
                  \A f \in Anchors(seen, found) :
                      GroupOf(seen, found, f) # g => Beats(g, GroupOf(seen, found, f))}
  <1> DEFINE E == Eligible(seen, found)
             F == {FunderOf(seen[i], found) : i \in E}
             A == Anchors(seen, found)
             funder == [i \in E |-> FunderOf(seen[i], found)]
  <1>1. IsFiniteSet(F)
    <2>1. funder \in Surjection(E, F)
      BY DEF Surjection
    <2>2. IsFiniteSet(E)
      BY EligibleAre
    <2> HIDE DEF funder, E, F
    <2> QED
      BY <2>1, <2>2, FS_Surjection
  <1>2. F \in SUBSET Nat
    BY EligibleAre
  <1>3. A \in SUBSET F
    BY DEF Anchors
  <1>4. IsFiniteSet(A) /\ A \in SUBSET Nat
    <2> HIDE DEF A, F
    <2> QED
      BY <1>1, <1>2, <1>3, FS_Subset
  <1>5. {g \in {GroupOf(seen, found, f) : f \in F} : Cardinality(g.members) >= MinCluster}
          = {GroupOf(seen, found, f) : f \in A}
    BY DEF Anchors, Members
  <1>6. Best(seen, found) =
          {g \in {GroupOf(seen, found, f) : f \in A} :
              \A h \in {GroupOf(seen, found, f) : f \in A} \ {g} : Beats(g, h)}
    BY <1>5 DEF Best
  <1>7. Best(seen, found) =
          {g \in {GroupOf(seen, found, f) : f \in A} :
              \A f \in A : GroupOf(seen, found, f) # g => Beats(g, GroupOf(seen, found, f))}
    <2> HIDE DEF A
    <2> QED
      BY <1>6
  <1> QED
    BY <1>4, <1>7

\* If a group is large enough, one is best.
LEMMA BestExists ==
  ASSUME NEW seen \in Seq(Entries), NEW found, Lookups(found), Anchors(seen, found) # {}
  PROVE  Best(seen, found) # {}
  <1> DEFINE A == Anchors(seen, found)
             size == [f \in A |-> Cardinality(Members(seen, found, f))]
  <1>1. IsFiniteSet(A) /\ A \in SUBSET Nat /\ A # {}
    BY AnchorsAre
  <1>2. size \in [A -> Int] /\ \A f \in A : size[f] = Cardinality(GroupOf(seen, found, f).members)
    BY MembersAre DEF Members
  <1> HIDE DEF A, size
  <1>3. PICK top \in A : \A f \in A : size[f] <= size[top]
    BY <1>1, <1>2, LargestOf
  <1> DEFINE T == {f \in A : size[f] = size[top]}
             id == [f \in T |-> f]
  <1>4. IsFiniteSet(T) /\ T # {} /\ T \in SUBSET A
    <2>1. T \in SUBSET A /\ T # {}
      OBVIOUS
    <2> HIDE DEF T
    <2> QED
      BY <1>1, <2>1, FS_Subset
  <1>5. id \in [T -> Int]
    <2> HIDE DEF T
    <2>1. T \in SUBSET Int
      BY <1>1, <1>4
    <2> QED
      BY <2>1
  <1>6. \E x \in T : \A f \in T : id[x] <= id[f]
    <2> HIDE DEF T, id
    <2> QED
      BY <1>4, <1>5, LeastOf
  <1>7. PICK x \in T : \A f \in T : x <= f
    BY <1>6
  <1>8. ASSUME NEW f \in A, GroupOf(seen, found, f) # GroupOf(seen, found, x)
        PROVE  Beats(GroupOf(seen, found, x), GroupOf(seen, found, f))
    <2>1. f # x /\ x \in A /\ f \in Nat /\ x \in Nat
      BY <1>1, <1>8
    <2>2. size[f] <= size[x] /\ size[x] \in Int /\ size[f] \in Int
      BY <1>2, <1>3
    <2>3. size[f] = size[x] => x < f
      BY <1>7, <2>1
    <2>4. size[x] > size[f] \/ (size[x] = size[f] /\ x < f)
      BY <2>2, <2>3
    <2>5. GroupOf(seen, found, x).funder = x /\ GroupOf(seen, found, f).funder = f
      BY DEF GroupOf
    <2> QED
      BY <1>2, <2>1, <2>4, <2>5 DEF Beats
  <1>9. GroupOf(seen, found, x) \in Best(seen, found)
    BY <1>8, AnchorsAre DEF A
  <1> QED
    BY <1>9

\* What is reported is a best group, or nothing when no group is large enough.
LEMMA DetectIs ==
  ASSUME NEW seen \in Seq(Entries), NEW found, Lookups(found)
  PROVE  LET r == Detect(seen, found)
         IN  \/ Anchors(seen, found) = {} /\ r.cluster = {} /\ r.anchor = NotKnown
             \/ /\ r.anchor \in Anchors(seen, found)
                /\ r.cluster = Members(seen, found, r.anchor)
                /\ \A f \in Anchors(seen, found) : f # r.anchor =>
                      \/ Cardinality(Members(seen, found, f)) < Cardinality(r.cluster)
                      \/ Cardinality(Members(seen, found, f)) = Cardinality(r.cluster) /\ r.anchor < f
                /\ (\E i \in r.cluster : seen[i].entryTime = NotKnown) => r.status = "CANDIDATE"
  <1> DEFINE r == Detect(seen, found)
             A == Anchors(seen, found)
  <1>1. CASE A = {}
    <2>1. Best(seen, found) = {}
      BY <1>1, AnchorsAre
    <2>2. r = NoCluster(seen, found)
      BY <2>1 DEF Detect
    <2> QED
      BY <1>1, <2>2 DEF NoCluster
  <1>2. CASE A # {}
    <2>1. Best(seen, found) # {}
      BY <1>2, BestExists
    <2> DEFINE g == CHOOSE x \in Best(seen, found) : TRUE
    <2>2. g \in Best(seen, found)
      BY <2>1
    <2>3. r = Describe(g, seen, found)
      BY <2>1 DEF Detect
    <2> HIDE DEF g
    <2>4. r.cluster = g.members /\ r.anchor = g.funder
      BY <2>3 DEF Describe
    <2>5. PICK x \in A : g = GroupOf(seen, found, x)
      BY <2>2, AnchorsAre
    <2>6. r.anchor = x /\ r.cluster = Members(seen, found, x)
      BY <2>4, <2>5 DEF GroupOf, Members
    <2>7. ASSUME NEW f \in A, f # x
          PROVE  \/ Cardinality(Members(seen, found, f)) < Cardinality(r.cluster)
                 \/ Cardinality(Members(seen, found, f)) = Cardinality(r.cluster) /\ x < f
      <3> DEFINE h == GroupOf(seen, found, f)
      <3>1. h.funder = f /\ g.funder = x
        BY <2>5 DEF GroupOf
      <3>2. h # g
        BY <2>7, <3>1
      <3>3. Beats(g, h)
        BY <2>2, <2>7, <3>2, AnchorsAre
      <3>4. Cardinality(h.members) \in Nat /\ Cardinality(g.members) \in Nat
        BY <2>5, MembersAre DEF Members
      <3> QED
        BY <2>4, <3>1, <3>3, <3>4 DEF Beats, Members
    <2>8. ASSUME NEW i \in r.cluster, seen[i].entryTime = NotKnown PROVE r.status = "CANDIDATE"
      <3>1. i \in g.members
        BY <2>4, <2>8
      <3>2. NotKnown \in {seen[k].entryTime : k \in g.members}
        BY <2>8, <3>1
      <3>3. WindowOf({seen[k].entryTime : k \in g.members}) = NotKnown
        BY <3>2 DEF WindowOf
      <3> QED
        BY <2>3, <3>3 DEF Describe
    <2> QED
      BY <2>6, <2>7, <2>8
  <1> QED
    BY <1>1, <1>2

\* One more wallet, or a funder where none was found, takes no member away.
LEMMA MembersStay ==
  ASSUME DetectorInv, CoordinationNext,
         \A wallet \in DOMAIN funding :
             funding[wallet].funder # NotKnown => funding'[wallet] = funding[wallet]
  PROVE  /\ observed' \in Seq(Entries) /\ Lookups(funding')
         /\ \A i \in Eligible(observed, funding) :
               /\ i \in Eligible(observed', funding')
               /\ FunderOf(observed'[i], funding') = FunderOf(observed[i], funding)
  <1>1. ASSUME NEW entry \in Entries, See(entry)
        PROVE  /\ observed' \in Seq(Entries) /\ funding' = funding
               /\ \A i \in DOMAIN observed : i \in DOMAIN observed' /\ observed'[i] = observed[i]
    BY <1>1 DEF See, DetectorInv
  <1>2. ASSUME NEW record \in Records, Resolve(record)
        PROVE  observed' = observed /\ Lookups(funding') /\ DOMAIN funding \subseteq DOMAIN funding'
    <2>1. funding' = [wallet \in DOMAIN funding \cup {record.wallet} |->
                         IF wallet = record.wallet THEN record ELSE funding[wallet]]
      BY <1>2 DEF Resolve
    <2>2. observed' = observed
      BY <1>2 DEF Resolve
    <2> QED
      BY <2>1, <2>2 DEF DetectorInv, Lookups
  <1>3. /\ observed' \in Seq(Entries) /\ Lookups(funding') /\ DOMAIN funding \subseteq DOMAIN funding'
        /\ \A i \in DOMAIN observed : i \in DOMAIN observed' /\ observed'[i] = observed[i]
    <2>1. CASE \E entry \in Entries : See(entry)
      BY <1>1, <2>1 DEF DetectorInv, Lookups
    <2>2. CASE \E record \in Records : Resolve(record)
      BY <1>2, <2>2 DEF DetectorInv
    <2> QED
      BY <2>1, <2>2 DEF CoordinationNext
  <1>4. ASSUME NEW i \in Eligible(observed, funding)
        PROVE  /\ i \in Eligible(observed', funding')
               /\ FunderOf(observed'[i], funding') = FunderOf(observed[i], funding)
    <2> DEFINE w == observed[i].wallet
    <2>1. i \in DOMAIN observed /\ observed[i].real /\ FunderOf(observed[i], funding) # NotKnown /\ ~funding[w].infra
      BY DEF Eligible, Real
    <2>2. w \in DOMAIN funding /\ FunderOf(observed[i], funding) = funding[w].funder
      BY <2>1 DEF FunderOf
    <2>3. funding'[w] = funding[w]
      BY <2>1, <2>2
    <2>4. i \in DOMAIN observed' /\ observed'[i] = observed[i] /\ w \in DOMAIN funding'
      BY <1>3, <2>1, <2>2
    <2>5. FunderOf(observed'[i], funding') = FunderOf(observed[i], funding)
      BY <2>2, <2>3, <2>4 DEF FunderOf
    <2> QED
      BY <2>1, <2>3, <2>4, <2>5 DEF Eligible, Real
  <1> QED
    BY <1>3, <1>4

\* A group does not shrink, and one that is large enough stays so.
LEMMA GroupsStay ==
  ASSUME DetectorInv, observed' \in Seq(Entries), Lookups(funding'),
         \A i \in Eligible(observed, funding) :
               /\ i \in Eligible(observed', funding')
               /\ FunderOf(observed'[i], funding') = FunderOf(observed[i], funding),
         NEW f \in Anchors(observed, funding)
  PROVE  /\ f \in Anchors(observed', funding')
         /\ Cardinality(Members(observed, funding, f)) <= Cardinality(Members(observed', funding', f))
  <1> DEFINE M == Members(observed, funding, f)
             N == Members(observed', funding', f)
  <1>0. observed \in Seq(Entries) /\ Lookups(funding)
    BY DEF DetectorInv
  <1>1. M = {i \in Eligible(observed, funding) : FunderOf(observed[i], funding) = f} /\ Cardinality(M) \in Nat
    BY <1>0, MembersAre
  <1>2. /\ N = {i \in Eligible(observed', funding') : FunderOf(observed'[i], funding') = f}
        /\ IsFiniteSet(N) /\ Cardinality(N) \in Nat
    BY MembersAre
  <1> HIDE DEF M, N
  <1>3. M \in SUBSET N
    BY <1>1, <1>2
  <1>4. Cardinality(M) <= Cardinality(N)
    BY <1>2, <1>3, FS_Subset
  <1>5. PICK i \in Eligible(observed, funding) : f = FunderOf(observed[i], funding)
    BY DEF Anchors
  <1>6. i \in Eligible(observed', funding') /\ f = FunderOf(observed'[i], funding')
    BY <1>5
  <1>7. Cardinality(M) >= MinCluster /\ MinCluster \in Nat
    BY CoordinationAssumption DEF Anchors, M
  <1>8. Cardinality(N) >= MinCluster
    BY <1>1, <1>2, <1>4, <1>7
  <1> QED
    BY <1>4, <1>6, <1>8 DEF Anchors, M, N

LEMMA DetectorKept == DetectorInv /\ [CoordinationNext]_coordinationVars => DetectorInv'
  <1> SUFFICES ASSUME DetectorInv, [CoordinationNext]_coordinationVars PROVE DetectorInv'
    OBVIOUS
  <1>1. ASSUME NEW entry \in Entries, See(entry) PROVE DetectorInv'
    BY <1>1 DEF See, DetectorInv, Lookups
  <1>2. ASSUME NEW record \in Records, Resolve(record) PROVE DetectorInv'
    BY <1>2 DEF Resolve, DetectorInv, Lookups
  <1>3. CASE UNCHANGED coordinationVars
    BY <1>3 DEF coordinationVars, DetectorInv, Lookups
  <1> QED
    BY <1>1, <1>2, <1>3 DEF CoordinationNext

\* What the detector learns links more wallets and never fewer, whatever the
\* thresholds, and however many wallets and funders there are: no cluster is
\* lost or shrinks, the anchor moves only to one that is ahead, and an unknown
\* entry time keeps a cluster a CANDIDATE (detectCoordination).
THEOREM LinksAreKept == CoordinationSpec => MoreNeverUnlinks
  <1>1. CoordinationInit => DetectorInv
    BY DEF CoordinationInit, DetectorInv, Lookups
  <1>2. ASSUME DetectorInv, CoordinationNext,
               \A wallet \in DOMAIN funding :
                   funding[wallet].funder # NotKnown => funding'[wallet] = funding[wallet]
        PROVE  LET was == Detect(observed, funding)
                   is  == Detect(observed', funding')
               IN  /\ Cardinality(is.cluster) >= Cardinality(was.cluster)
                   /\ is.anchor # was.anchor /\ was.anchor # NotKnown =>
                          \/ Cardinality(is.cluster) > Cardinality(was.cluster)
                          \/ is.anchor < was.anchor
                   /\ (\E i \in is.cluster : observed'[i].entryTime = NotKnown)
                          => is.status = "CANDIDATE"
    <2> DEFINE was == Detect(observed, funding)
               is == Detect(observed', funding')
               A == Anchors(observed, funding)
               B == Anchors(observed', funding')
               Before(f) == Cardinality(Members(observed, funding, f))
               After(f) == Cardinality(Members(observed', funding', f))
    <2>1. /\ observed' \in Seq(Entries) /\ Lookups(funding')
          /\ observed \in Seq(Entries) /\ Lookups(funding)
          /\ \A f \in A : f \in B /\ Before(f) <= After(f)
      BY <1>2, MembersStay, GroupsStay DEF DetectorInv
    <2>2. \A f : Before(f) \in Nat /\ After(f) \in Nat
      BY <2>1, MembersAre
    <2>3. A \in SUBSET Nat /\ B \in SUBSET Nat
      BY <2>1, AnchorsAre
    <2>4. \/ A = {} /\ was.cluster = {} /\ was.anchor = NotKnown
          \/ was.anchor \in A /\ Cardinality(was.cluster) = Before(was.anchor)
      BY <2>1, DetectIs
    <2>5. \/ B = {} /\ is.cluster = {} /\ is.anchor = NotKnown
          \/ /\ is.anchor \in B /\ Cardinality(is.cluster) = After(is.anchor)
             /\ \A f \in B : f # is.anchor =>
                   After(f) < After(is.anchor) \/ (After(f) = After(is.anchor) /\ is.anchor < f)
             /\ (\E i \in is.cluster : observed'[i].entryTime = NotKnown) => is.status = "CANDIDATE"
      BY <2>1, DetectIs
    <2> HIDE DEF was, is, A, B, Before, After
    <2>6. Cardinality({}) = 0
      BY FS_EmptySet
    <2>7. CASE was.anchor \in A /\ Cardinality(was.cluster) = Before(was.anchor)
      <3> DEFINE a == was.anchor
                 b == is.anchor
      <3>1. a \in B /\ Before(a) <= After(a) /\ Before(a) \in Nat /\ After(a) \in Nat /\ After(b) \in Nat
        BY <2>1, <2>2, <2>7
      <3>2. /\ b \in B /\ Cardinality(is.cluster) = After(b)
            /\ a # b => After(a) < After(b) \/ (After(a) = After(b) /\ b < a)
            /\ (\E i \in is.cluster : observed'[i].entryTime = NotKnown) => is.status = "CANDIDATE"
        BY <2>5, <3>1
      <3> HIDE DEF a, b
      <3>3. After(b) >= Before(a) /\ (a # b => After(b) > Before(a) \/ b < a)
        BY <3>1, <3>2
      <3> QED
        BY <2>7, <3>2, <3>3 DEF was, is, a, b
    <2>8. CASE A = {} /\ was.cluster = {} /\ was.anchor = NotKnown
      <3>1. Cardinality(is.cluster) \in Nat
        BY <2>2, <2>5, <2>6
      <3> QED
        BY <2>5, <2>6, <2>8, <3>1 DEF was, is
    <2> QED
      BY <2>4, <2>7, <2>8
  <1>3. DetectorInv /\ [CoordinationNext]_coordinationVars =>
            [(\A wallet \in DOMAIN funding :
                funding[wallet].funder # NotKnown => funding'[wallet] = funding[wallet])
            => LET was == Detect(observed, funding)
                   is  == Detect(observed', funding')
               IN  /\ Cardinality(is.cluster) >= Cardinality(was.cluster)
                   /\ is.anchor # was.anchor /\ was.anchor # NotKnown =>
                          \/ Cardinality(is.cluster) > Cardinality(was.cluster)
                          \/ is.anchor < was.anchor
                   /\ (\E i \in is.cluster : observed'[i].entryTime = NotKnown)
                          => is.status = "CANDIDATE"]_coordinationVars
    BY <1>2
  <1> QED
    BY <1>1, <1>3, DetectorKept, PTL DEF CoordinationSpec, MoreNeverUnlinks

---------------------------------------------------------------------------
(* What one more observation leaves as it was *)

HistoryInv == log \in Seq(Sightings) /\ decision \in Decisions \cup {Unsealed}

\* more is items and one that arrived after them.
OneMoreOf(items, o, more) ==
    /\ items \in Seq(Sightings) /\ o \in Sightings /\ more \in Seq(Sightings)
    /\ Len(items) \in Nat
    /\ DOMAIN items = 1 .. Len(items) /\ DOMAIN more = 1 .. Len(items) + 1
    /\ \A i \in DOMAIN items : items[i] \in Sightings /\ more[i] = items[i]
    /\ more[Len(items) + 1] = o

LEMMA ArrivalIs ==
  ASSUME HistoryInv, NEW o \in Sightings, Arrive(o)
  PROVE  OneMoreOf(log, o, log') /\ Last(log') = o
  BY DEF HistoryInv, Arrive, OneMoreOf, Last

LEMMA SightingsAre ==
  \A o \in Sightings : o.at \in Int /\ o.key \in Int /\ o.price \in Int
  <1>1. \A o \in Sightings : {o.at, o.key, o.price} \subseteq Int
    BY HistoryAssumption
  <1> QED
    BY <1>1

\* Observations that were there are kept, or not, as before, unless the new one
\* is of their identity.
LEMMA KeptAsBefore ==
  ASSUME NEW items, NEW o, NEW more, OneMoreOf(items, o, more), NEW lane,
         NEW x, x.at < o.at, x.at \in Int
  PROVE  x \in LaneOf(more, lane) <=> x \in LaneOf(items, lane)
  <1> DEFINE n == Len(items)
             P == {i \in DOMAIN items : items[i].lane = lane}
             Q == {i \in DOMAIN more : more[i].lane = lane}
  <1>1. P \subseteq Q /\ Q \subseteq P \cup {n + 1} /\ P \subseteq 1 .. n /\ n \in Nat
    BY DEF OneMoreOf
  <1>2. \A i \in P : more[i] = items[i]
    BY DEF OneMoreOf
  <1>3. more[n + 1] = o /\ o.at \in Int
    BY SightingsAre DEF OneMoreOf
  <1>4. x \in LaneOf(items, lane) <=>
          \E i \in P : x = items[i] /\ \A j \in P : SameIdentity(items[j], items[i]) => ~Comes(items, Precedes, j, i)
    BY DEF LaneOf, SortDedupe
  <1>5. x \in LaneOf(more, lane) <=>
          \E i \in Q : x = more[i] /\ \A j \in Q : SameIdentity(more[j], more[i]) => ~Comes(more, Precedes, j, i)
    BY DEF LaneOf, SortDedupe
  <1> HIDE DEF P, Q, n
  <1>6. \A i \in P, j \in P : Comes(more, Precedes, j, i) <=> Comes(items, Precedes, j, i)
    BY <1>2 DEF Comes
  <1>7. ASSUME NEW i \in P, x = items[i]
        PROVE  (\A j \in P : SameIdentity(items[j], items[i]) => ~Comes(items, Precedes, j, i))
               <=> (\A j \in Q : SameIdentity(more[j], more[i]) => ~Comes(more, Precedes, j, i))
    <2>1. ~SameIdentity(more[n + 1], more[i])
      BY <1>2, <1>3, <1>7 DEF SameIdentity
    <2> QED
      BY <1>1, <1>2, <1>6, <2>1
  <1>8. \A i \in Q : x = more[i] => i \in P
    BY <1>1, <1>3
  <1> QED
    BY <1>1, <1>2, <1>4, <1>5, <1>7, <1>8

\* One that was there before changes no lane.
LEMMA RepeatChangesNothing ==
  ASSUME NEW items, NEW o, NEW more, OneMoreOf(items, o, more), o \in ToSet(items)
  PROVE  ToSet(more) = ToSet(items) /\ \A lane : LaneOf(more, lane) = LaneOf(items, lane)
  <1> DEFINE n == Len(items)
  <1>1. PICK d \in DOMAIN items : items[d] = o
    BY DEF ToSet
  <1>2. ToSet(more) = ToSet(items)
    <2>1. DOMAIN more = DOMAIN items \cup {n + 1} /\ \A i \in DOMAIN items : more[i] = items[i]
      BY DEF OneMoreOf
    <2>2. more[n + 1] = items[d]
      BY <1>1 DEF OneMoreOf
    <2> HIDE DEF n
    <2> QED
      BY <2>1, <2>2 DEF ToSet
  <1>3. ASSUME NEW lane PROVE LaneOf(more, lane) = LaneOf(items, lane)
    <2> DEFINE P == {i \in DOMAIN items : items[i].lane = lane}
               Q == {i \in DOMAIN more : more[i].lane = lane}
               Free(s, R, i) == \A j \in R : SameIdentity(s[j], s[i]) => ~Comes(s, Precedes, j, i)
    <2>1. P \subseteq Q /\ Q \subseteq P \cup {n + 1} /\ P \subseteq 1 .. n /\ n \in Nat
      BY DEF OneMoreOf
    <2>2. \A i \in P : more[i] = items[i]
      BY DEF OneMoreOf
    <2>3. more[n + 1] = o /\ more[d] = o /\ d \in 1 .. n
      BY <1>1 DEF OneMoreOf
    <2>4. o.at \in Int /\ o.key \in Int
      BY SightingsAre DEF OneMoreOf
    <2>5. LaneOf(items, lane) = {items[i] : i \in {k \in P : Free(items, P, k)}}
      BY DEF LaneOf, SortDedupe
    <2>6. LaneOf(more, lane) = {more[i] : i \in {k \in Q : Free(more, Q, k)}}
      BY DEF LaneOf, SortDedupe
    <2>7. n + 1 \in Q => d \in P
      BY <1>1, <2>3
    <2> HIDE DEF P, Q, n
    <2>8. \A i \in P, j \in P : Comes(more, Precedes, j, i) <=> Comes(items, Precedes, j, i)
      BY <2>2 DEF Comes
    <2>9. n + 1 \in Q => ~Free(more, Q, n + 1)
      <3>1. SameIdentity(o, o) /\ ~Precedes(o, o)
        BY <2>4 DEF SameIdentity, Precedes
      <3>2. Comes(more, Precedes, d, n + 1)
        BY <2>1, <2>3, <3>1 DEF Comes
      <3> QED
        BY <2>1, <2>3, <2>7, <3>1, <3>2
    <2>10. ASSUME NEW i \in P PROVE Free(items, P, i) <=> Free(more, Q, i)
      <3>1. Free(more, Q, i) => Free(items, P, i)
        BY <2>1, <2>2, <2>8
      <3>2. ASSUME Free(items, P, i), n + 1 \in Q, SameIdentity(more[n + 1], more[i]), Comes(more, Precedes, n + 1, i)
            PROVE  FALSE
        <4>1. i < n + 1 /\ i \in Nat /\ n + 1 \in Nat
          BY <2>1
        <4>2. Precedes(o, items[i])
          BY <2>2, <2>3, <3>2, <4>1 DEF Comes
        <4>3. d \in P /\ items[d] = o
          BY <1>1, <2>7, <3>2
        <4>4. Comes(items, Precedes, d, i) /\ SameIdentity(items[d], items[i])
          BY <2>2, <2>3, <3>2, <4>2, <4>3 DEF Comes
        <4> QED
          BY <3>2, <4>3, <4>4
      <3> QED
        BY <2>1, <2>2, <2>8, <3>1, <3>2
    <2>11. {k \in P : Free(items, P, k)} = {k \in Q : Free(more, Q, k)}
      BY <2>1, <2>9, <2>10
    <2> HIDE DEF Free
    <2> QED
      BY <2>2, <2>5, <2>6, <2>11
  <1> QED
    BY <1>2, <1>3

\* What is at the same places is listed in the same order.
LEMMA SortedAlike ==
  ASSUME NEW items, NEW more, NEW S, IsFiniteSet(S), \A i \in S : more[i] = items[i]
  PROVE  Sorted(more, S) = Sorted(items, S)
  <1> DEFINE n == Cardinality(S)
             F == [1 .. n -> S]
             Orders(s) == {order \in F : \A k \in 2 .. n : Comes(s, Earlier, order[k - 1], order[k])}
             Listings(s) == {[k \in 1 .. n |-> s[order[k]]] : order \in Orders(s)}
  <1>1. n \in Nat
    BY FS_CardinalityType
  <1>2. ASSUME NEW order \in F, NEW k \in 2 .. n
        PROVE  Comes(items, Earlier, order[k - 1], order[k]) <=> Comes(more, Earlier, order[k - 1], order[k])
    <2>1. k - 1 \in 1 .. n /\ k \in 1 .. n
      BY <1>1
    <2>2. order[k - 1] \in S /\ order[k] \in S
      BY <2>1
    <2> QED
      BY <2>2 DEF Comes
  <1>3. Orders(items) = Orders(more)
    BY <1>2
  <1>4. \A order \in F : [k \in 1 .. n |-> items[order[k]]] = [k \in 1 .. n |-> more[order[k]]]
    OBVIOUS
  <1>5. Listings(items) = Listings(more)
    <2>1. \A s : Orders(s) \subseteq F
      OBVIOUS
    <2> HIDE DEF Orders, F
    <2> QED
      BY <1>3, <1>4, <2>1
  <1> HIDE DEF Listings
  <1>6. (CHOOSE s \in Listings(items) : TRUE) = (CHOOSE s \in Listings(more) : TRUE)
    BY <1>5
  <1> QED
    BY <1>6 DEF Sorted, Listings

\* A frame sees nothing of what comes after its instant.
LEMMA FramesStand ==
  ASSUME NEW items, NEW o, NEW more, OneMoreOf(items, o, more), NEW t \in Instants(ToSet(items)), t < o.at
  PROVE  Replay(more)[t] = Replay(items)[t]
  <1> DEFINE S == {i \in DOMAIN items : items[i].at <= t}
             T == {i \in DOMAIN more : more[i].at <= t}
  <1>1. t \in Int /\ o.at \in Int
    BY SightingsAre DEF OneMoreOf, Instants, ToSet
  <1>2. t \in Instants(ToSet(more))
    BY DEF OneMoreOf, Instants, ToSet
  <1>3. S = T
    BY <1>1 DEF OneMoreOf
  <1>4. \A i \in S : more[i] = items[i]
    BY DEF OneMoreOf
  <1>5. Sorted(more, S) = Sorted(items, S)
    <2>1. S \in SUBSET (1 .. Len(items)) /\ Len(items) \in Nat
      BY DEF OneMoreOf
    <2> HIDE DEF S
    <2>2. IsFiniteSet(S)
      <3>1. IsFiniteSet(1 .. Len(items))
        BY <2>1, FS_Interval
      <3> QED
        BY <2>1, <3>1, FS_Subset
    <2> QED
      BY <1>4, <2>2, SortedAlike
  <1> HIDE DEF S, T
  <1>6. Visible(items, t) = Sorted(items, S) /\ Visible(more, t) = Sorted(more, T)
    BY DEF Visible, S, T
  <1> QED
    BY <1>2, <1>3, <1>5, <1>6 DEF Replay

LEMMA LargestIn ==
  ASSUME NEW K, IsFiniteSet(K), K # {}, K \subseteq Int
  PROVE  Max(K) \in K /\ \A y \in K : y <= Max(K)
  <1> DEFINE id == [x \in K |-> x]
  <1>1. id \in [K -> Int]
    OBVIOUS
  <1>2. \E x \in K : \A y \in K : id[y] <= id[x]
    <2> HIDE DEF id
    <2> QED
      BY <1>1, LargestOf
  <1>3. \E x \in K : \A y \in K : x >= y
    BY <1>2
  <1>4. Max(K) \in K /\ \A y \in K : Max(K) >= y
    BY <1>3 DEF Max
  <1> QED
    BY <1>4

LEMMA LeastIn ==
  ASSUME NEW K, IsFiniteSet(K), K # {}, K \subseteq Int
  PROVE  Min(K) \in K /\ \A y \in K : Min(K) <= y
  <1> DEFINE id == [x \in K |-> x]
  <1>1. id \in [K -> Int]
    OBVIOUS
  <1>2. \E x \in K : \A y \in K : id[x] <= id[y]
    <2> HIDE DEF id
    <2> QED
      BY <1>1, LeastOf
  <1>3. \E x \in K : \A y \in K : x <= y
    BY <1>2
  <1>4. Min(K) \in K /\ \A y \in K : Min(K) <= y
    BY <1>3 DEF Min
  <1> QED
    BY <1>4

LEMMA FutureIs ==
  ASSUME NEW items \in Seq(Sightings), NEW d \in Decisions
  PROVE  /\ IsFiniteSet(Future(items, d)) /\ Future(items, d) \subseteq 1 .. Len(items)
         /\ Len(items) \in Nat /\ d.at \in Int
         /\ \A i \in Future(items, d) : /\ items[i] \in Sightings /\ items[i].at \in Int
                                       /\ FavorableOf(items[i], d) \in Int
  <1> DEFINE F == Future(items, d)
  <1>1. F \in SUBSET (1 .. Len(items)) /\ Len(items) \in Nat /\ DOMAIN items = 1 .. Len(items)
    BY DEF Future
  <1>2. IsFiniteSet(F)
    <2> HIDE DEF F
    <2>1. IsFiniteSet(1 .. Len(items))
      BY <1>1, FS_Interval
    <2> QED
      BY <1>1, <2>1, FS_Subset
  <1>3. d.at \in Int /\ d.reference \in Int
    BY HistoryAssumption
  <1>4. ASSUME NEW i \in F
        PROVE  items[i] \in Sightings /\ items[i].at \in Int /\ FavorableOf(items[i], d) \in Int
    <2>1. items[i] \in Sightings
      BY <1>1
    <2>2. items[i].at \in Int /\ items[i].price \in Int
      BY <2>1, SightingsAre
    <2> QED
      BY <1>3, <2>1, <2>2 DEF FavorableOf, MoveOf
  <1> QED
    BY <1>1, <1>2, <1>3, <1>4

\* Sorted, one of finitely many places is the last.
LEMMA LatestIs ==
  ASSUME NEW items \in Seq(Sightings), NEW d \in Decisions, Future(items, d) # {}
  PROVE  Latest(items, Future(items, d)) \in Future(items, d)
  <1> DEFINE F == Future(items, d)
             n == Len(items)
             when == [i \in F |-> items[i].at]
  <1>1. IsFiniteSet(F) /\ F # {} /\ F \subseteq 1 .. n /\ n \in Nat /\ \A i \in F : items[i].at \in Int
    BY FutureIs
  <1> HIDE DEF F, n
  <1>2. when \in [F -> Int]
    BY <1>1
  <1>3. \E x \in F : \A y \in F : when[y] <= when[x]
    <2> HIDE DEF when
    <2> QED
      BY <1>1, <1>2, LargestOf
  <1>4. PICK top \in F : \A y \in F : items[y].at <= items[top].at
    BY <1>3
  <1> DEFINE T == {i \in F : items[i].at = items[top].at}
             last == Max(T)
  <1>5. last \in T /\ \A y \in T : y <= last
    <2>1. T # {} /\ T \in SUBSET (1 .. n)
      BY <1>1
    <2> HIDE DEF T
    <2> QED
      BY <1>1, <2>1, LargestNumber
  <1> HIDE DEF last
  <1>6. ASSUME NEW j \in F \ {last} PROVE Comes(items, Earlier, j, last)
    <2>1. /\ last \in F /\ items[last].at = items[top].at /\ j \in F
          /\ items[j].at \in Int /\ items[last].at \in Int
      BY <1>1, <1>5
    <2>2. items[j].at <= items[last].at /\ j \in Int /\ last \in Int
      <3>1. items[j].at <= items[top].at
        BY <1>4, <2>1
      <3>2. items[j].at <= items[last].at
        BY <2>1, <3>1
      <3>3. j \in 1 .. n /\ last \in 1 .. n
        BY <1>1, <2>1
      <3>4. j \in Int /\ last \in Int
        BY <1>1, <3>3
      <3> QED
        BY <3>2, <3>4
    <2>3. CASE items[j].at = items[last].at
      <3>1. j <= last /\ j # last
        BY <1>5, <2>1, <2>3
      <3> QED
        BY <2>1, <2>2, <2>3, <3>1 DEF Comes, Earlier
    <2>4. CASE items[j].at # items[last].at
      BY <2>1, <2>2, <2>4 DEF Comes, Earlier
    <2> QED
      BY <2>3, <2>4
  <1>7. \E i \in F : \A j \in F \ {i} : Comes(items, Earlier, j, i)
    BY <1>5, <1>6
  <1>8. Latest(items, F) \in F
    BY <1>7 DEF Latest
  <1> QED
    BY <1>8 DEF F

Gains(items, d) == {FavorableOf(items[i], d) : i \in Future(items, d)}

Losses(items, d) == {0 - g : g \in Gains(items, d)}

Crossed(items, d) ==
    {items[i].at - d.at : i \in {k \in Future(items, d) : FavorableOf(items[k], d) >= Threshold}}

LEMMA OutcomeIs ==
  ASSUME NEW items \in Seq(Sightings), NEW d \in Decisions
  PROVE  LET r == Outcome(items, d)
         IN  /\ r.mfe = Max(Gains(items, d) \cup {0})
             /\ r.mae = Max(Losses(items, d) \cup {0})
             /\ r.crossings = IF Crossed(items, d) = {} THEN {} ELSE {Min(Crossed(items, d))}
             /\ r.verdict = "CONFIRMED" => Crossed(items, d) # {}
  <1> DEFINE F == Future(items, d)
             r == Outcome(items, d)
  <1>1. CASE F = {}
    <2>1. Gains(items, d) = {} /\ Losses(items, d) = {} /\ Crossed(items, d) = {}
      BY <1>1 DEF Gains, Losses, Crossed
    <2>2. Max({0}) = 0
      BY DEF Max
    <2>3. r = [direction |-> "UNKNOWN", magnitude |-> 0, mfe |-> 0, mae |-> 0,
               crossings |-> {}, verdict |-> "NO_FUTURE_DATA"]
      BY <1>1 DEF Outcome
    <2>4. Max(Gains(items, d) \cup {0}) = 0 /\ Max(Losses(items, d) \cup {0}) = 0
      BY <2>1, <2>2
    <2> HIDE DEF r
    <2> QED
      BY <2>1, <2>3, <2>4 DEF r
  <1>2. CASE F # {}
    <2> DEFINE last == items[Latest(items, F)]
    <2>1. /\ r.mfe = Max(Gains(items, d) \cup {0})
          /\ r.mae = Max(Losses(items, d) \cup {0})
          /\ r.crossings = IF Crossed(items, d) = {} THEN {} ELSE {Min(Crossed(items, d))}
      BY <1>2 DEF Outcome, Gains, Losses, Crossed
    <2>2. r.verdict = "CONFIRMED" => FavorableOf(last, d) >= Threshold
      BY <1>2 DEF Outcome
    <2>3. Latest(items, F) \in F
      BY <1>2, LatestIs
    <2>4. r.verdict = "CONFIRMED" => Crossed(items, d) # {}
      <3> HIDE DEF r
      <3> QED
        BY <2>2, <2>3 DEF Crossed
    <2> QED
      BY <2>1, <2>4
  <1> QED
    BY <1>1, <1>2

\* What has not come after a decision does not judge it.
LEMMA OutcomeStands ==
  ASSUME NEW items, NEW o, NEW more, OneMoreOf(items, o, more), NEW d \in Decisions, o.at <= d.at
  PROVE  Outcome(more, d) = Outcome(items, d)
  <1> DEFINE F == Future(items, d)
             n == Len(items)
  <1>1. items \in Seq(Sightings) /\ d.at \in Int /\ o.at \in Int
    BY FutureIs, SightingsAre DEF OneMoreOf
  <1>2. Future(more, d) = F
    BY <1>1 DEF Future, OneMoreOf
  <1>3. \A i \in F : more[i] = items[i]
    BY DEF Future, OneMoreOf
  <1> HIDE DEF F
  <1>4. CASE F = {}
    BY <1>2, <1>4 DEF Outcome, F
  <1>5. CASE F # {}
    <2>1. Latest(more, F) = Latest(items, F)
      <3>1. \A i \in F : (\A j \in F \ {i} : Comes(items, Earlier, j, i))
                         <=> (\A j \in F \ {i} : Comes(more, Earlier, j, i))
        BY <1>3 DEF Comes
      <3> QED
        BY <3>1 DEF Latest
    <2>2. Latest(items, F) \in F
      BY <1>1, <1>5, LatestIs DEF F
    <2>3. more[Latest(more, F)] = items[Latest(items, F)]
      BY <1>3, <2>1, <2>2
    <2>4. Gains(more, d) = Gains(items, d) /\ Crossed(more, d) = Crossed(items, d)
      BY <1>2, <1>3 DEF Gains, Crossed, F
    <2> QED
      BY <1>2, <1>5, <2>3, <2>4 DEF Outcome, Gains, Crossed, F
  <1> QED
    BY <1>4, <1>5

LEMMA LargestGrows ==
  ASSUME NEW K, NEW L, K \subseteq L, IsFiniteSet(K), IsFiniteSet(L), L \subseteq Int
  PROVE  Max(L \cup {0}) >= Max(K \cup {0})
  <1> DEFINE A == K \cup {0}
             B == L \cup {0}
  <1>1. IsFiniteSet(A) /\ IsFiniteSet(B)
    BY FS_AddElement
  <1>2. A # {} /\ B # {} /\ A \subseteq B /\ B \subseteq Int
    OBVIOUS
  <1> HIDE DEF A, B
  <1>3. Max(A) \in A /\ Max(B) \in B /\ \A y \in B : y <= Max(B)
    BY <1>1, <1>2, LargestIn
  <1>4. Max(A) <= Max(B) /\ Max(A) \in Int /\ Max(B) \in Int
    BY <1>2, <1>3
  <1>5. Max(B) >= Max(A)
    BY <1>4
  <1> QED
    BY <1>5 DEF A, B

LEMMA ReckonedIs ==
  ASSUME NEW s \in Seq(Sightings), NEW d \in Decisions
  PROVE  /\ IsFiniteSet(Gains(s, d)) /\ Gains(s, d) \subseteq Int
         /\ IsFiniteSet(Losses(s, d)) /\ Losses(s, d) \subseteq Int
         /\ IsFiniteSet(Crossed(s, d)) /\ Crossed(s, d) \subseteq Int
  <1> DEFINE F == Future(s, d)
             C == {k \in F : FavorableOf(s[k], d) >= Threshold}
             G == Gains(s, d)
             gain == [i \in F |-> FavorableOf(s[i], d)]
             loss == [g \in G |-> 0 - g]
             at == [i \in C |-> s[i].at - d.at]
  <1>1. IsFiniteSet(F) /\ d.at \in Int /\ \A i \in F : s[i].at \in Int /\ FavorableOf(s[i], d) \in Int
    BY FutureIs
  <1>2. G = {FavorableOf(s[i], d) : i \in F}
    BY DEF Gains
  <1>3. Losses(s, d) = {0 - g : g \in G}
    BY DEF Losses
  <1>4. Crossed(s, d) = {s[i].at - d.at : i \in C}
    BY DEF Crossed
  <1> HIDE DEF F, G
  <1>5. IsFiniteSet(C)
    <2>1. C \in SUBSET F
      OBVIOUS
    <2> HIDE DEF C
    <2> QED
      BY <1>1, <2>1, FS_Subset
  <1>6. gain \in Surjection(F, G)
    BY <1>2 DEF Surjection
  <1>7. loss \in Surjection(G, Losses(s, d))
    BY <1>3 DEF Surjection
  <1>8. at \in Surjection(C, Crossed(s, d))
    <2> HIDE DEF C
    <2> QED
      BY <1>4 DEF Surjection
  <1>9. G \subseteq Int /\ Losses(s, d) \subseteq Int /\ Crossed(s, d) \subseteq Int
    BY <1>1, <1>2, <1>3, <1>4
  <1> HIDE DEF gain, loss, at, C
  <1>10. IsFiniteSet(G)
    BY <1>1, <1>6, FS_Surjection
  <1>11. IsFiniteSet(Losses(s, d)) /\ IsFiniteSet(Crossed(s, d))
    BY <1>5, <1>7, <1>8, <1>10, FS_Surjection
  <1> QED
    BY <1>9, <1>10, <1>11 DEF G

\* One more observation takes no excursion and no crossing back.
LEMMA ExcursionsGrow ==
  ASSUME NEW items, NEW o, NEW more, OneMoreOf(items, o, more), NEW d \in Decisions
  PROVE  LET was == Outcome(items, d)
             is  == Outcome(more, d)
         IN  /\ is.mfe >= was.mfe /\ is.mae >= was.mae
             /\ \A t \in was.crossings : \E u \in is.crossings : u <= t
             /\ is.verdict = "CONFIRMED" => is.crossings # {}
  <1> DEFINE was == Outcome(items, d)
             is == Outcome(more, d)
             F == Future(items, d)
             G == Future(more, d)
  <1>1. items \in Seq(Sightings) /\ more \in Seq(Sightings)
    BY DEF OneMoreOf
  <1>2. F \subseteq G /\ \A i \in F : more[i] = items[i]
    BY DEF Future, OneMoreOf
  <1>3. /\ Gains(items, d) \subseteq Gains(more, d)
        /\ Losses(items, d) \subseteq Losses(more, d)
        /\ Crossed(items, d) \subseteq Crossed(more, d)
    <2> HIDE DEF F, G
    <2>1. Gains(items, d) = {FavorableOf(items[i], d) : i \in F} /\ Gains(more, d) = {FavorableOf(more[i], d) : i \in G}
      BY DEF Gains, F, G
    <2>2. Gains(items, d) \subseteq Gains(more, d)
      BY <1>2, <2>1
    <2>3. Crossed(items, d) \subseteq Crossed(more, d)
      BY <1>2 DEF Crossed, F, G
    <2> QED
      BY <2>2, <2>3 DEF Losses
  <1>4. \A s \in {items, more} :
            /\ IsFiniteSet(Gains(s, d)) /\ Gains(s, d) \subseteq Int
            /\ IsFiniteSet(Losses(s, d)) /\ Losses(s, d) \subseteq Int
            /\ IsFiniteSet(Crossed(s, d)) /\ Crossed(s, d) \subseteq Int
    BY <1>1, ReckonedIs
  <1>5. \A s \in {items, more} :
            /\ Outcome(s, d).mfe = Max(Gains(s, d) \cup {0})
            /\ Outcome(s, d).mae = Max(Losses(s, d) \cup {0})
            /\ Outcome(s, d).crossings = IF Crossed(s, d) = {} THEN {} ELSE {Min(Crossed(s, d))}
            /\ Outcome(s, d).verdict = "CONFIRMED" => Crossed(s, d) # {}
    BY <1>1, OutcomeIs
  <1>6. is.mfe >= was.mfe
    BY <1>3, <1>4, <1>5, LargestGrows
  <1>7. is.mae >= was.mae
    BY <1>3, <1>4, <1>5, LargestGrows
  <1>8. \A t \in was.crossings : \E u \in is.crossings : u <= t
    <2>1. CASE Crossed(items, d) = {}
      BY <1>5, <2>1
    <2>2. CASE Crossed(items, d) # {}
      <3>1. Min(Crossed(items, d)) \in Crossed(items, d)
        BY <1>4, <2>2, LeastIn
      <3>2. Crossed(more, d) # {} /\ Min(Crossed(items, d)) \in Crossed(more, d)
        BY <1>3, <3>1
      <3>3. Min(Crossed(more, d)) <= Min(Crossed(items, d))
        BY <1>4, <3>2, LeastIn
      <3> QED
        BY <1>5, <2>2, <3>2, <3>3
    <2> QED
      BY <2>1, <2>2
  <1>9. is.verdict = "CONFIRMED" => is.crossings # {}
    BY <1>5
  <1> QED
    BY <1>6, <1>7, <1>8, <1>9

LEMMA LanesStand ==
  ASSUME NEW items, NEW o, NEW more, OneMoreOf(items, o, more)
  PROVE  SeenBefore(Timeline(more).lanes, o.at) = SeenBefore(Timeline(items).lanes, o.at)
  <1> DEFINE D == DOMAIN RequiredCoverage
  <1>1. /\ Timeline(items).lanes = [lane \in D |-> LaneOf(items, lane)]
        /\ Timeline(more).lanes = [lane \in D |-> LaneOf(more, lane)]
    BY DEF Timeline
  <1>2. \A s \in {items, more} : \A lane : \A x \in LaneOf(s, lane) : x.at \in Int
    <2> SUFFICES ASSUME NEW s \in {items, more}, NEW lane, NEW x \in LaneOf(s, lane)
                 PROVE  x.at \in Int
      OBVIOUS
    <2>1. s \in Seq(Sightings)
      BY DEF OneMoreOf
    <2>2. PICK i \in DOMAIN s : x = s[i]
      BY DEF LaneOf, SortDedupe
    <2>3. s[i] \in Sightings
      BY <2>1
    <2> QED
      BY <2>2, <2>3, SightingsAre
  <1>3. \A lane : {x \in LaneOf(more, lane) : x.at < o.at} = {x \in LaneOf(items, lane) : x.at < o.at}
    BY <1>2, KeptAsBefore
  <1> HIDE DEF D
  <1>4. /\ SeenBefore(Timeline(items).lanes, o.at) = [lane \in D |-> {x \in LaneOf(items, lane) : x.at < o.at}]
        /\ SeenBefore(Timeline(more).lanes, o.at) = [lane \in D |-> {x \in LaneOf(more, lane) : x.at < o.at}]
    BY <1>1 DEF SeenBefore
  <1> QED
    BY <1>3, <1>4

LEMMA RepeatStands ==
  ASSUME NEW items, NEW o, NEW more, OneMoreOf(items, o, more), o \in ToSet(items)
  PROVE  Timeline(more) = Timeline(items)
  <1>1. ToSet(more) = ToSet(items) /\ \A lane : LaneOf(more, lane) = LaneOf(items, lane)
    BY RepeatChangesNothing
  <1>2. CoverageHolds(more) = CoverageHolds(items)
    BY <1>1 DEF CoverageHolds
  <1>3. [lane \in DOMAIN RequiredCoverage |-> LaneOf(more, lane)]
          = [lane \in DOMAIN RequiredCoverage |-> LaneOf(items, lane)]
    BY <1>1
  <1> QED
    BY <1>1, <1>2, <1>3 DEF Timeline

LEMMA HistoryKept == HistoryInv /\ [HistoryNext]_historyVars => HistoryInv'
  <1> SUFFICES ASSUME HistoryInv, [HistoryNext]_historyVars PROVE HistoryInv'
    OBVIOUS
  <1>1. ASSUME NEW o \in Sightings, Arrive(o) PROVE HistoryInv'
    BY <1>1 DEF Arrive, HistoryInv
  <1>2. ASSUME NEW d \in Decisions, Seal(d) PROVE HistoryInv'
    BY <1>2 DEF Seal, HistoryInv
  <1>3. CASE UNCHANGED historyVars
    BY <1>3 DEF historyVars, HistoryInv
  <1> QED
    BY <1>1, <1>2, <1>3 DEF HistoryNext

\* The past has one answer, for any observations, lanes and keys in any order of
\* arrival, any decision and any threshold: a late one changes no earlier
\* instant and no judged decision, a repeated one nothing, and none takes an
\* excursion or a crossing back (buildTokenTimeline, replay, evaluateOutcome).
THEOREM ThePastStands == HistorySpec => PastStands
  <1>1. HistoryInit => HistoryInv
    BY DEF HistoryInit, HistoryInv
  <1>2. ASSUME HistoryInv, HistoryNext, log' # log
        PROVE
         LET o    == Last(log')
             old  == Timeline(log)
             new  == Timeline(log')
             was  == Outcome(log, decision)
             is   == Outcome(log', decision)
         IN  /\ new.ok => SeenBefore(new.lanes, o.at) = SeenBefore(old.lanes, o.at)
             /\ o \in ToSet(log) => new = old
             /\ \A t \in Instants(ToSet(log)) : t < o.at => Replay(log')[t] = Replay(log)[t]
             /\ decision # Unsealed =>
                    /\ o.at <= decision.at => is = was
                    /\ is.mfe >= was.mfe /\ is.mae >= was.mae
                    /\ \A t \in was.crossings : \E u \in is.crossings : u <= t
                    /\ is.verdict = "CONFIRMED" => is.crossings # {}
    <2>1. PICK o \in Sightings : Arrive(o)
      BY <1>2 DEF HistoryNext, Seal
    <2>2. OneMoreOf(log, o, log') /\ Last(log') = o
      BY <1>2, <2>1, ArrivalIs
    <2>3. SeenBefore(Timeline(log').lanes, o.at) = SeenBefore(Timeline(log).lanes, o.at)
      BY <2>2, LanesStand
    <2>4. o \in ToSet(log) => Timeline(log') = Timeline(log)
      BY <2>2, RepeatStands
    <2>5. \A t \in Instants(ToSet(log)) : t < o.at => Replay(log')[t] = Replay(log)[t]
      BY <2>2, FramesStand
    <2>6. decision # Unsealed => decision \in Decisions
      BY <1>2 DEF HistoryInv
    <2>7. decision \in Decisions =>
              /\ o.at <= decision.at => Outcome(log', decision) = Outcome(log, decision)
              /\ Outcome(log', decision).mfe >= Outcome(log, decision).mfe
              /\ Outcome(log', decision).mae >= Outcome(log, decision).mae
              /\ \A t \in Outcome(log, decision).crossings : \E u \in Outcome(log', decision).crossings : u <= t
              /\ Outcome(log', decision).verdict = "CONFIRMED" => Outcome(log', decision).crossings # {}
      BY <2>2, OutcomeStands, ExcursionsGrow
    <2> QED
      BY <2>2, <2>3, <2>4, <2>5, <2>6, <2>7
  <1>3. HistoryInv /\ [HistoryNext]_historyVars =>
      [log' # log =>
       LET o    == Last(log')
           old  == Timeline(log)
           new  == Timeline(log')
           was  == Outcome(log, decision)
           is   == Outcome(log', decision)
       IN  /\ new.ok => SeenBefore(new.lanes, o.at) = SeenBefore(old.lanes, o.at)
           /\ o \in ToSet(log) => new = old
           /\ \A t \in Instants(ToSet(log)) : t < o.at => Replay(log')[t] = Replay(log)[t]
           /\ decision # Unsealed =>
                  /\ o.at <= decision.at => is = was
                  /\ is.mfe >= was.mfe /\ is.mae >= was.mae
                  /\ \A t \in was.crossings : \E u \in is.crossings : u <= t
                  /\ is.verdict = "CONFIRMED" => is.crossings # {}]_historyVars
    BY <1>2
  <1> QED
    BY <1>1, <1>3, HistoryKept, PTL DEF HistorySpec, PastStands
=============================================================================
