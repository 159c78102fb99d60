--------------------------- MODULE ScanApi_proofs ---------------------------
(***************************************************************************)
(* Theorems about POST /scan, for any users, requests, payments, packs and *)
(* prices, any set of faults and any number of restarts: what a delivered  *)
(* result cost, how often the grant is given, and how far the daily cap is *)
(* overshot.  A restart forgets accounts and charges, so the two of them   *)
(* about money are about behaviours up to the first restart.               *)
(*                                                                         *)
(* With only the failures the code catches (OnlyCaught) and packs that are *)
(* worth whole scans (WholeCredits), the handler implements PaidScan and a *)
(* failed scan is free.  The refinement maps a user's free scans and       *)
(* balance to a purse of credits, and a request to how far its scan is.    *)
(***************************************************************************)
EXTENDS BalanceLedger_proofs, ScanApi

PcStates == {"idle", "gated"} \cup Service!Holding \cup Service!Ended

\* Requests that are past the cap's check and not yet counted.
Uncounted(u) ==
    {o \in Ops : OpUser[o] = u /\ api[o] \in {"admitted", "issuing", "scanning", "recording"}}

\* How the request o stands to its charge: there is none before the handler
\* charges, the pipeline runs only after, the charge is o's own and of the kind
\* the handler remembers, and it is given back only to a request that ended
\* without a result.
ChargeOf(o) ==
    /\ api[o] \in {"idle", "entered", "checking", "admitted"} => source[o] = "NONE"
    /\ api[o] \in {"issuing", "scanning", "recording"} => source[o] # "NONE"
    /\ source[o] = "NONE" => pc[o] = "idle" /\ movements[o] = NoMovement
    /\ source[o] \in {"FREE", "BALANCE"} =>
         /\ movements[o] # NoMovement
         /\ movements[o].user = OpUser[o]
         /\ source[o] = "FREE" => movements[o].kind = "FREE_DEBIT"
    /\ o \in refunded => api[o] = "failed" /\ pc[o] # "ok"

\* The tier of a user only rises, unless a restart forgets it.
TierLasts == restarts = 0 \/ TierPacks = {}

ApiInv ==
    /\ restarts \in Nat
    /\ api \in [Ops -> {"idle"} \cup Open \cup Answers]
    /\ source \in [Ops -> Sources]
    /\ used \in [Users -> Nat]
    /\ pc \in [Ops -> PcStates]
    /\ LedgerInv
    /\ \A u \in Users : Cardinality(InFlight(u)) <= MaxInFlight

MoneyInv == restarts = 0 => BooksBalance /\ \A o \in Ops : ChargeOf(o)

\* A request that is past the check counts already.
CapOf(u) ==
    Capped(u) => used[u] + Cardinality(Uncounted(u)) <= DailyCap + MaxInFlight - 1

CapInv ==
    /\ TierPacks = {} => \A u \in Users : Require(u).tier = "STANDARD"
    /\ TierLasts => \A u \in Users : CapOf(u)

---------------------------------------------------------------------------
(* The pipeline, seen from the handler *)

\* A step of the pipeline moves its own call, which had not ended.
LEMMA ScanMoves ==
  ASSUME ApiInv, NEW o \in Ops, Service!CallStep(o)
  PROVE  /\ pc' \in [Ops -> PcStates]
         /\ pc[o] \notin {"ok", "reused", "refused", "failed", "threw", "crashed"}
         /\ \A d \in Ops : d # o => pc'[d] = pc[d]
         /\ restarts' = restarts
  <1>1. \E to \in PcStates : Service!Goto(o, to)
    BY DEF Service!CallStep, Service!Gate, Service!GateThrows, Service!Consume, Service!Refuse,
           Service!Reserve, Service!UndoReserve, Service!Mark, Service!Produce,
           Service!ProduceNothing, Service!AcquireThrows, Service!Persist,
           Service!RecordFailure, Service!Release, Service!DbStep,
           PcStates, Service!Holding, Service!Ended
  <1>2. pc[o] \notin {"ok", "reused", "refused", "failed", "threw", "crashed"}
    BY DEF Service!CallStep, Service!Gate, Service!GateThrows, Service!Consume, Service!Refuse,
           Service!Reserve, Service!UndoReserve, Service!Mark, Service!Produce,
           Service!ProduceNothing, Service!AcquireThrows, Service!Persist,
           Service!RecordFailure, Service!Release
  <1>3. restarts' = restarts
    BY DEF Service!CallStep, Service!Gate, Service!GateThrows, Service!Consume, Service!Refuse,
           Service!Reserve, Service!UndoReserve, Service!Mark, Service!Produce,
           Service!ProduceNothing, Service!AcquireThrows, Service!Persist,
           Service!RecordFailure, Service!Release, Service!DbStep
  <1> QED
    BY <1>1, <1>2, <1>3 DEF Service!Goto, ApiInv

---------------------------------------------------------------------------
(* The books *)

\* What a step that is not a restart does to the accounts.
BookKept ==
    /\ accounts' \in [Users -> Account \cup {NoAccount}]
    /\ BookStep
    /\ \A u \in Users : Require(u)'.tier \in {Require(u).tier, "COMMAND"}
    /\ TierPacks = {} => \A u \in Users : Require(u)'.tier = Require(u).tier

LEMMA UntouchedBooks ==
  ASSUME ApiInv, UNCHANGED <<accounts, movements, refunded>>
  PROVE  BookKept
  <1>1. \A u \in Users : Require(u)' = Require(u)
    BY DEF Require
  <1>2. Quiet
    BY <1>1 DEF Quiet
  <1> QED
    BY <1>1, <1>2 DEF BookKept, BookStep, ApiInv, LedgerInv, LedgerTypeOK

LEMMA EnterBooks ==
  ASSUME ApiInv, NEW u \in Users, Register(u)
  PROVE  BookKept /\ UNCHANGED <<movements, refunded>>
  <1>1. Quiet /\ accounts' \in [Users -> Account \cup {NoAccount}]
    BY RegisterBooks DEF ApiInv
  <1>2. \A v \in Users : Require(v)' = Require(v)
    <2>1. Require(u) \in Account
      BY RequireTyped DEF ApiInv, LedgerInv
    <2> QED
      BY <2>1, SetAccountRequire DEF ApiInv, LedgerInv, Register
  <1> QED
    BY <1>1, <1>2 DEF BookKept, BookStep, Register

LEMMA ChargeKeepsBooks ==
  ASSUME ApiInv, NEW o \in Ops, Charge(OpUser[o], o, Price, TRUE)
  PROVE  BookKept
  <1>1. OpUser[o] \in Users /\ Price \in Nat /\ o \in MovementIds
    BY ApiAssumption, SettlementAssumption DEF MovementIds
  <1>2. /\ accounts' \in [Users -> Account \cup {NoAccount}]
        /\ \A v \in Users : Require(v)'.tier = Require(v).tier
        /\ movements[o] # NoMovement => Quiet
        /\ movements[o] = NoMovement =>
             Booking(OpUser[o], o, "FREE_DEBIT", 0) \/ Booking(OpUser[o], o, "DEBIT", Price)
    BY <1>1, ChargeBooks DEF ApiInv
  <1>3. BookStep
    BY <1>1, <1>2 DEF BookStep
  <1> QED
    BY <1>2, <1>3 DEF BookKept

LEMMA RefundKeepsBooks ==
  ASSUME ApiInv, NEW o \in Ops, Refund(OpUser[o], o)
  PROVE  BookKept /\ UNCHANGED movements /\ refunded' \subseteq refunded \cup {o}
  <1>1. OpUser[o] \in Users /\ o \in MovementIds
    BY ApiAssumption DEF MovementIds
  <1>2. /\ accounts' \in [Users -> Account \cup {NoAccount}]
        /\ UNCHANGED movements
        /\ \A v \in Users : Require(v)'.tier = Require(v).tier
        /\ CanRefund(OpUser[o], o) => GivingBack(OpUser[o], o)
        /\ ~CanRefund(OpUser[o], o) => Quiet
    BY <1>1, RefundBooks DEF ApiInv
  <1>3. BookStep /\ refunded' \subseteq refunded \cup {o}
    BY <1>1, <1>2 DEF BookStep, GivingBack, Quiet
  <1> QED
    BY <1>2, <1>3 DEF BookKept

LEMMA SettleKeepsBooks ==
  ASSUME ApiInv, NEW p \in Payments, NEW paid \in PaidAmounts, Settle(p, paid)
  PROVE  /\ BookKept
         /\ \A o \in Ops : movements'[o] = movements[o]
         /\ UNCHANGED refunded
  <1> DEFINE n == PackPrice[PackOf[p]] + PackBonus[PackOf[p]]
             tiered == p \notin settled /\ PackOf[p] \in TierPacks
             u == PayerOf[p]
  <1>1. n \in Nat /\ u \in Users /\ tiered \in BOOLEAN /\ p \in MovementIds
    BY SettlementAssumption DEF MovementIds
  <1>2. CASE Underpaid(p, paid)
    <2>1. UNCHANGED <<accounts, movements, refunded>>
      BY <1>2 DEF Settle, settlementVars
    <2> QED
      BY <2>1, UntouchedBooks
  <1>3. CASE ~Underpaid(p, paid)
    <2>1. TopUp(p, u, n, tiered)
      BY <1>3 DEF Settle
    <2>2. /\ accounts' \in [Users -> Account \cup {NoAccount}]
          /\ UNCHANGED refunded
          /\ movements[p] # NoMovement => Quiet
          /\ movements[p] = NoMovement => Booking(u, p, "TOPUP", n)
          /\ OthersStay(u)
          /\ Require(u)'.tier = IF tiered THEN "COMMAND" ELSE Require(u).tier
      <3> HIDE DEF n, u, tiered
      <3> QED
        BY <1>1, <2>1, TopUpBooks DEF ApiInv
    <2>3. BookStep
      <3> HIDE DEF n, u, tiered
      <3> QED
        BY <1>1, <2>2 DEF BookStep
    <2>4. TierPacks = {} => ~tiered
      OBVIOUS
    <2>5. BookKept
      <3> HIDE DEF n, u, tiered
      <3> QED
        BY <1>1, <2>2, <2>3, <2>4 DEF BookKept, OthersStay
    <2>6. \A o \in Ops : movements'[o] = movements[o]
      <3>1. \A j \in MovementIds : j # p => movements'[j] = movements[j]
        BY <2>2, LedgerAssumption DEF Quiet, Booking, Record, ApiInv, LedgerInv, LedgerTypeOK
      <3> QED
        BY <3>1, LedgerAssumption DEF MovementIds
    <2> QED
      BY <2>2, <2>5, <2>6
  <1> QED
    BY <1>2, <1>3

---------------------------------------------------------------------------
(* One request's step, and what it leaves alone *)

\* The steps that are nobody's.
AmbientStep == (\E p \in Payments : Webhook(p)) \/ PromoEnds \/ Midnight

RequestStep(o) == Enter(o) \/ HandlerStep(o)

\* Request d stays as it is.
Stays(d) ==
    /\ api'[d] = api[d]
    /\ source'[d] = source[d]
    /\ pc'[d] = pc[d]
    /\ movements'[d] = movements[d]
    /\ d \in refunded' => d \in refunded

\* The types of what a request's step moves.
ApiTyped ==
    /\ api \in [Ops -> {"idle"} \cup Open \cup Answers]
    /\ source \in [Ops -> Sources]
    /\ used \in [Users -> Nat]
    /\ pc \in [Ops -> PcStates]

LEMMA StaysCharged ==
  ASSUME NEW d \in Ops, Stays(d), ChargeOf(d)
  PROVE  ChargeOf(d)'
  BY DEF Stays, ChargeOf

LEMMA AmbientKeeps ==
  ASSUME ApiInv, AmbientStep
  PROVE  /\ BookKept /\ ApiTyped'
         /\ UNCHANGED <<api, source, pc, restarts>>
         /\ \A d \in Ops : Stays(d)
         /\ used' = used \/ used' = [u \in Users |-> 0]
  <1>1. CASE \E p \in Payments : Webhook(p)
    <2>1. PICK p \in Payments, paid \in PaidAmounts : Settle(p, paid)
      BY <1>1 DEF Webhook
    <2>2. UNCHANGED <<api, source, pc, restarts, used>>
      BY <1>1 DEF Webhook, serviceVars, usageVars
    <2> QED
      BY <2>1, <2>2, SettleKeepsBooks DEF Stays, ApiTyped, ApiInv
  <1>2. CASE PromoEnds \/ Midnight
    <2>1. UNCHANGED <<api, source, pc, restarts, accounts, movements, refunded>>
          /\ (used' = used \/ used' = [u \in Users |-> 0])
      BY <1>2 DEF PromoEnds, Midnight, moneyVars, settlementVars, serviceVars, usageVars
    <2> QED
      BY <2>1, UntouchedBooks DEF Stays, ApiTyped, ApiInv
  <1> QED
    BY <1>1, <1>2 DEF AmbientStep

LEMMA EnterKeeps ==
  ASSUME ApiInv, NEW o \in Ops, Enter(o)
  PROVE  /\ BookKept /\ ApiTyped'
         /\ UNCHANGED <<restarts, used>>
         /\ \A d \in Ops \ {o} : Stays(d)
         /\ ChargeOf(o) => ChargeOf(o)'
         /\ api[o] = "idle" /\ api'[o] \in {"turnedAway", "entered"}
         /\ Cardinality(InFlight(OpUser[o])) < MaxInFlight
  <1>1. BookKept /\ UNCHANGED <<movements, refunded>>
    BY EnterBooks, ApiAssumption DEF Enter
  <1>2. /\ UNCHANGED <<restarts, used, source, pc>>
        /\ api[o] = "idle"
        /\ \E to \in {"turnedAway", "entered"} : Answer(o, to)
        /\ Cardinality(InFlight(OpUser[o])) < MaxInFlight
    BY DEF Enter, serviceVars, usageVars
  <1>3. ApiTyped' /\ (\A d \in Ops \ {o} : Stays(d)) /\ api'[o] \in {"turnedAway", "entered"}
    BY <1>1, <1>2 DEF ApiInv, ApiTyped, Stays, Answer, Open, Answers
  <1>4. ChargeOf(o) => ChargeOf(o)'
    BY <1>1, <1>2, <1>3 DEF ChargeOf
  <1> QED
    BY <1>1, <1>2, <1>3, <1>4

\* Requests that may be charged, and requests that were.
Uncharged == {"entered", "checking", "admitted"}
PastCharge == {"issuing", "scanning", "recording"}

\* What a step of the handler does, whatever it answers.
HandlerKept(o) ==
    /\ BookKept /\ ApiTyped'
    /\ restarts' = restarts
    /\ api[o] \in Open
    /\ \A d \in Ops \ {o} : Stays(d)
    /\ ChargeOf(o) => ChargeOf(o)'

\* Steps of the handler that touch neither the books nor the pipeline.
LEMMA HandlerMoves ==
  ASSUME ApiInv, NEW o \in Ops, NEW to \in (Open \ {"entered"}) \cup Answers, Answer(o, to),
         api[o] \in Open,
         UNCHANGED <<source, pc, restarts, accounts, movements, refunded>>,
         used' \in [Users -> Nat],
         api[o] \in Uncharged => to \notin PastCharge,
         api[o] \in PastCharge => to \notin Uncharged
  PROVE  HandlerKept(o)
  <1>1. BookKept
    BY UntouchedBooks
  <1>2. /\ api'[o] = to
        /\ \A d \in Ops \ {o} : Stays(d)
        /\ ApiTyped'
    BY DEF ApiInv, ApiTyped, Stays, Answer
  <1>3. ChargeOf(o) => ChargeOf(o)'
    BY <1>2 DEF ChargeOf, Open, Answers, Uncharged, PastCharge
  <1> QED
    BY <1>1, <1>2, <1>3 DEF HandlerKept

LEMMA ChargeAndIssueKeeps ==
  ASSUME ApiInv, NEW o \in Ops, ChargeAndIssue(o)
  PROVE  HandlerKept(o)
  <1>1. /\ api[o] = "admitted" /\ Answer(o, "issuing")
        /\ UNCHANGED <<pc, used, restarts>>
    BY DEF ChargeAndIssue, usageVars
  <1>2. api'[o] = "issuing" /\ api' \in [Ops -> {"idle"} \cup Open \cup Answers]
    BY <1>1 DEF ApiInv, Answer, Open
  <1>3. o \in MovementIds /\ OpUser[o] \in Users
    BY ApiAssumption DEF MovementIds
  <1>4. CASE Free(o)
    <2>1. /\ source' = [source EXCEPT ![o] = "PROMO"]
          /\ UNCHANGED <<accounts, movements, refunded>>
      BY <1>4 DEF ChargeAndIssue
    <2>2. /\ source' \in [Ops -> Sources]
          /\ source'[o] = "PROMO"
          /\ \A d \in Ops \ {o} : Stays(d)
      BY <1>1, <2>1 DEF ApiInv, Stays, Answer, Sources
    <2>3. ChargeOf(o) => ChargeOf(o)'
      BY <1>1, <1>2, <2>1, <2>2 DEF ChargeOf
    <2> QED
      BY <1>1, <1>2, <2>1, <2>2, <2>3, UntouchedBooks DEF HandlerKept, ApiTyped, ApiInv, Open
  <1>5. CASE ~Free(o)
    <2>1. /\ Charge(OpUser[o], o, Price, TRUE)
          /\ source' = [source EXCEPT
                ![o] = IF movements'[o].kind = "FREE_DEBIT" THEN "FREE" ELSE "BALANCE"]
      BY <1>5 DEF ChargeAndIssue
    <2>2. BookKept
      BY <2>1, ChargeKeepsBooks
    <2>3. /\ source' \in [Ops -> Sources]
          /\ source'[o] = IF movements'[o].kind = "FREE_DEBIT" THEN "FREE" ELSE "BALANCE"
          /\ \A d \in Ops \ {o} : source'[d] = source[d]
      BY <2>1 DEF ApiInv, Sources
    <2>4. refunded' = refunded /\ \A d \in Ops \ {o} : movements'[d] = movements[d]
      BY <2>1, <1>3 DEF Charge, Record, ApiInv, LedgerInv, LedgerTypeOK, MovementIds
    <2>5. \A d \in Ops \ {o} : Stays(d)
      BY <1>1, <2>3, <2>4 DEF Stays, ApiInv, Answer
    <2>6. movements[o] = NoMovement =>
            movements'[o] # NoMovement /\ movements'[o].user = OpUser[o]
      <3> SUFFICES ASSUME movements[o] = NoMovement
                   PROVE  movements'[o] # NoMovement /\ movements'[o].user = OpUser[o]
        OBVIOUS
      <3>1. \/ Booking(OpUser[o], o, "FREE_DEBIT", 0) \/ Booking(OpUser[o], o, "DEBIT", Price)
        BY <1>3, <2>1, ChargeBooks, SettlementAssumption DEF ApiInv
      <3>2. PICK kind \in {"TOPUP", "DEBIT", "FREE_DEBIT"}, n \in Nat :
               Record(o, OpUser[o], kind, n)
        BY <3>1, SettlementAssumption DEF Booking
      <3>3. /\ movements'[o] = [user |-> OpUser[o], kind |-> kind, amount |-> n]
            /\ movements'[o] # NoMovement
        BY <1>3, <3>2, RecordTyped DEF ApiInv, LedgerInv
      <3> QED
        BY <3>3
    <2>7. ChargeOf(o) => ChargeOf(o)'
      BY <1>1, <1>2, <2>3, <2>4, <2>6 DEF ChargeOf
    <2> QED
      BY <1>1, <1>2, <2>2, <2>3, <2>5, <2>7 DEF HandlerKept, ApiTyped, ApiInv, Open
  <1> QED
    BY <1>4, <1>5

LEMMA RefundFailedKeeps ==
  ASSUME ApiInv, NEW o \in Ops, RefundFailed(o)
  PROVE  HandlerKept(o)
  <1>1. /\ api[o] = "scanning" /\ Answer(o, "failed") /\ pc[o] # "ok"
        /\ UNCHANGED <<source, pc, used, restarts>>
    BY DEF RefundFailed, usageVars, serviceVars
  <1>2. BookKept /\ UNCHANGED movements /\ refunded' \subseteq refunded \cup {o}
    <2>1. CASE Refund(OpUser[o], o)
      BY <2>1, RefundKeepsBooks
    <2>2. CASE UNCHANGED <<accounts, movements, refunded>>
      BY <2>2, UntouchedBooks
    <2> QED
      BY <2>1, <2>2 DEF RefundFailed
  <1>3. /\ api'[o] = "failed"
        /\ \A d \in Ops \ {o} : Stays(d)
        /\ ApiTyped'
    BY <1>1, <1>2 DEF ApiInv, ApiTyped, Stays, Answer, Answers
  <1>4. ChargeOf(o) => ChargeOf(o)'
    BY <1>1, <1>2, <1>3 DEF ChargeOf
  <1> QED
    BY <1>1, <1>2, <1>3, <1>4 DEF HandlerKept, Open

LEMMA ScanKeeps ==
  ASSUME ApiInv, NEW o \in Ops, Scan(o)
  PROVE  HandlerKept(o)
  <1>1. /\ api[o] = "scanning" /\ Service!CallStep(o)
        /\ UNCHANGED <<api, source, used, accounts, movements, refunded>>
    BY DEF Scan, usageVars, moneyVars, settlementVars
  <1>2. /\ pc' \in [Ops -> PcStates]
        /\ \A d \in Ops : d # o => pc'[d] = pc[d]
        /\ restarts' = restarts
    BY <1>1, ScanMoves
  <1>3. ChargeOf(o) => ChargeOf(o)'
    BY <1>1 DEF ChargeOf
  <1> QED
    BY <1>1, <1>2, <1>3, UntouchedBooks
       DEF HandlerKept, ApiTyped, ApiInv, Stays, Open

LEMMA HandlerKeeps ==
  ASSUME ApiInv, NEW o \in Ops, HandlerStep(o)
  PROVE  HandlerKept(o)
  <1> USE DEF moneyVars, settlementVars, serviceVars, usageVars, Uncharged, PastCharge,
              Open, Answers
  <1>0. used \in [Users -> Nat] /\ OpUser[o] \in Users
    BY ApiAssumption DEF ApiInv
  <1>1. CASE Admit(o)
    <2>1. PICK to \in {"turnedAway", "admitted", "checking"} : Answer(o, to)
      BY <1>1 DEF Admit
    <2> QED
      BY <1>0, <1>1, <2>1, HandlerMoves DEF Admit
  <1>2. CASE CheckCap(o)
    <2>1. PICK to \in {"admitted", "capped", "error"} : Answer(o, to)
      BY <1>2 DEF CheckCap
    <2> QED
      BY <1>0, <1>2, <2>1, HandlerMoves DEF CheckCap
  <1>3. CASE CannotPay(o)
    BY <1>0, <1>3, HandlerMoves DEF CannotPay
  <1>4. CASE IssueRow(o)
    <2>1. PICK to \in {"scanning", "error"} : Answer(o, to)
      BY <1>4 DEF IssueRow
    <2> QED
      BY <1>0, <1>4, <2>1, HandlerMoves DEF IssueRow
  <1>5. CASE Succeed(o)
    BY <1>0, <1>5, HandlerMoves DEF Succeed
  <1>6. CASE Escape(o)
    BY <1>0, <1>6, HandlerMoves DEF Escape
  <1>7. CASE RecordUsage(o)
    <2>1. PICK to \in {"served", "error"} : Answer(o, to)
      BY <1>7 DEF RecordUsage
    <2>2. used' \in [Users -> Nat]
      BY <1>0, <1>7 DEF RecordUsage
    <2> QED
      BY <1>7, <2>1, <2>2, HandlerMoves DEF RecordUsage
  <1> QED
    BY <1>1, <1>2, <1>3, <1>4, <1>5, <1>6, <1>7, ChargeAndIssueKeeps, RefundFailedKeeps,
       ScanKeeps DEF HandlerStep

---------------------------------------------------------------------------
(* Requests of one user *)

LEMMA OpsFinite == IsFiniteSet(Ops)
  BY LedgerAssumption, FS_Subset DEF MovementIds

LEMMA RequestsCounted ==
  ASSUME NEW u
  PROVE  /\ IsFiniteSet(InFlight(u)) /\ Cardinality(InFlight(u)) \in Nat
         /\ IsFiniteSet(Uncounted(u)) /\ Cardinality(Uncounted(u)) \in Nat
         /\ IsFiniteSet(InFlight(u)') /\ Cardinality(InFlight(u)') \in Nat
         /\ IsFiniteSet(Uncounted(u)') /\ Cardinality(Uncounted(u)') \in Nat
  <1>1. /\ InFlight(u) \in SUBSET Ops /\ Uncounted(u) \in SUBSET Ops
        /\ InFlight(u)' \in SUBSET Ops /\ Uncounted(u)' \in SUBSET Ops
    BY DEF InFlight, Uncounted
  <1>2. \A S \in SUBSET Ops : IsFiniteSet(S) /\ Cardinality(S) \in Nat
    BY OpsFinite, FS_Subset, FS_CardinalityType
  <1> QED
    BY <1>1, <1>2

\* A step of the handler opens no request.
LEMMA HandlerOpensNone ==
  ASSUME ApiInv, NEW o \in Ops, HandlerKept(o), NEW u \in Users
  PROVE  InFlight(u)' \subseteq InFlight(u) /\ Cardinality(InFlight(u)') <= MaxInFlight
  <1>1. InFlight(u)' \subseteq InFlight(u)
    BY DEF HandlerKept, Stays, InFlight
  <1>2. Cardinality(InFlight(u)') <= Cardinality(InFlight(u))
    BY <1>1, RequestsCounted, FS_Subset
  <1> QED
    BY <1>1, <1>2, RequestsCounted, ApiAssumption DEF ApiInv

\* Whoever is capped after a step was capped before it, unless a restart forgot it.
LEMMA CapLasts ==
  ASSUME BookKept, NEW u \in Users, Capped(u)'
  PROVE  Capped(u)
  BY DEF BookKept, Capped

\* Fewer requests uncounted, and the count stays or starts again.
LEMMA CapShrinks ==
  ASSUME ApiInv, ApiInv', BookKept, NEW u \in Users, CapOf(u),
         Uncounted(u)' \subseteq Uncounted(u), used'[u] <= used[u]
  PROVE  CapOf(u)'
  <1>1. Cardinality(Uncounted(u)') <= Cardinality(Uncounted(u))
    BY RequestsCounted, FS_Subset
  <1>2. used[u] \in Nat /\ used'[u] \in Nat
    BY DEF ApiInv
  <1> QED
    BY <1>1, <1>2, CapLasts, RequestsCounted, ApiAssumption DEF CapOf

LEMMA HandlerCap ==
  ASSUME ApiInv, ApiInv', NEW o \in Ops, HandlerStep(o), NEW u \in Users, CapOf(u)
  PROVE  CapOf(u)'
  <1>0. HandlerKept(o) /\ BookKept
    BY HandlerKeeps DEF HandlerKept
  <1>1. CASE u = OpUser[o] /\ api[o] = "checking" /\ api'[o] = "admitted" /\ used[u] < DailyCap
             /\ used' = used
    <2>1. Uncounted(u)' \subseteq InFlight(u)'
      BY DEF Uncounted, InFlight, Open
    <2>2. Cardinality(Uncounted(u)') <= Cardinality(InFlight(u)')
      BY <2>1, RequestsCounted, FS_Subset
    <2>3. Cardinality(InFlight(u)') <= MaxInFlight
      BY <1>0, HandlerOpensNone
    <2>4. used[u] \in Nat
      BY DEF ApiInv
    <2> QED
      BY <1>1, <2>2, <2>3, <2>4, RequestsCounted, ApiAssumption DEF CapOf
  <1>2. CASE u = OpUser[o] /\ api[o] = "recording" /\ api'[o] \in Answers
             /\ used'[u] = used[u] + 1
    <2>1. Uncounted(u)' = Uncounted(u) \ {o} /\ o \in Uncounted(u)
      BY <1>0, <1>2 DEF HandlerKept, Stays, Uncounted, Answers
    <2>2. Cardinality(Uncounted(u)') = Cardinality(Uncounted(u)) - 1
      BY <2>1, RequestsCounted, FS_RemoveElement
    <2>3. used[u] \in Nat /\ used'[u] \in Nat
      BY DEF ApiInv
    <2> QED
      BY <1>0, <1>2, <2>2, <2>3, CapLasts, RequestsCounted, ApiAssumption DEF CapOf
  <1>3. CASE u = OpUser[o] /\ ~Capped(u)
    BY <1>0, <1>3, CapLasts DEF CapOf
  <1>4. CASE /\ used'[u] = used[u]
             /\ u = OpUser[o] /\ api'[o] \in {"admitted", "issuing", "scanning", "recording"}
                  => api[o] \in {"admitted", "issuing", "scanning", "recording"}
    <2>1. Uncounted(u)' \subseteq Uncounted(u)
      BY <1>0, <1>4 DEF HandlerKept, Stays, Uncounted
    <2>2. used'[u] <= used[u]
      BY <1>4 DEF ApiInv
    <2> QED
      BY <1>0, <2>1, <2>2, CapShrinks
  <1>5. used'[u] = used[u] \/ (u = OpUser[o] /\ api[o] = "recording" /\ api'[o] \in Answers
                               /\ used'[u] = used[u] + 1)
    <2>1. CASE RecordUsage(o)
      BY <2>1 DEF RecordUsage, ApiInv, Answer, Answers
    <2>2. CASE ~RecordUsage(o)
      BY <2>2 DEF HandlerStep, Admit, CheckCap, ChargeAndIssue, CannotPay, IssueRow, Scan,
                  RefundFailed, Succeed, Escape, usageVars
    <2> QED
      BY <2>1, <2>2
  <1>6. u = OpUser[o] /\ api'[o] \in {"admitted", "issuing", "scanning", "recording"}
        /\ api[o] \notin {"admitted", "issuing", "scanning", "recording"}
           => ~Capped(u) \/ (api[o] = "checking" /\ api'[o] = "admitted" /\ used[u] < DailyCap
                             /\ used' = used)
    <2>1. CASE Admit(o)
      <3>1. Require(OpUser[o]).tier \in {"STANDARD", "COMMAND"}
        BY ApiAssumption, RequireTyped DEF ApiInv, LedgerInv, Account, AccountTier
      <3> QED
        BY <2>1, <3>1 DEF Admit, ApiInv, Answer, Unlimited, Capped
    <2>2. CASE CheckCap(o)
      BY <2>2 DEF CheckCap, ApiInv, Answer, usageVars
    <2>3. CASE ~Admit(o) /\ ~CheckCap(o)
      BY <2>3 DEF HandlerStep, ChargeAndIssue, CannotPay, IssueRow, Scan,
                  RefundFailed, Succeed, Escape, RecordUsage, ApiInv, Answer
    <2> QED
      BY <2>1, <2>2, <2>3
  <1> QED
    BY <1>1, <1>2, <1>3, <1>4, <1>5, <1>6

---------------------------------------------------------------------------
(* The invariant *)

LEMMA ApiInitSafe == ApiInit => ApiInv /\ MoneyInv /\ CapInv
  <1> SUFFICES ASSUME ApiInit PROVE ApiInv /\ MoneyInv /\ CapInv
    OBVIOUS
  <1>1. LedgerInv /\ BooksBalance
    BY LedgerInitSafe, LedgerInitBalances DEF ApiInit, SettlementInit
  <1>2. \A u \in Users : Require(u) = NewAccount
    BY DEF ApiInit, SettlementInit, LedgerInit, Require
  <1>3. \A u \in Users : InFlight(u) = {} /\ Uncounted(u) = {}
    BY DEF ApiInit, InFlight, Uncounted, Open
  <1>4. ApiInv
    BY <1>1, <1>3, FS_EmptySet, ApiAssumption
       DEF ApiInit, ApiInv, Open, Answers, Sources, PcStates
  <1>5. MoneyInv
    BY <1>1 DEF ApiInit, SettlementInit, LedgerInit, MoneyInv, ChargeOf, MovementIds
  <1>6. CapInv
    BY <1>2, <1>3, FS_EmptySet, ApiAssumption DEF ApiInit, CapInv, CapOf, NewAccount
  <1> QED
    BY <1>4, <1>5, <1>6

LEMMA RestartSafe ==
  ASSUME ApiInv, MoneyInv, CapInv, RestartProcess
  PROVE  ApiInv' /\ MoneyInv' /\ CapInv'
  <1>1. /\ restarts' = restarts + 1
        /\ pc' \in [Ops -> PcStates]
        /\ api' = [o \in Ops |-> IF api[o] \in Open THEN "dropped" ELSE api[o]]
        /\ accounts' = [u \in Users |-> NoAccount]
        /\ movements' = [i \in MovementIds |-> NoMovement]
        /\ refunded' = {}
        /\ UNCHANGED <<source, used>>
    BY DEF RestartProcess, Service!Restart, Service!LoseMemory, usageVars, ApiInv, PcStates,
           Service!Ended
  <1>2. LedgerInv'
    BY <1>1 DEF LedgerInv, LedgerTypeOK
  <1>3. \A u \in Users : InFlight(u)' = {} /\ Uncounted(u)' = {}
    BY <1>1 DEF InFlight, Uncounted, Open, ApiInv
  <1>4. ApiInv'
    <2>1. api' \in [Ops -> {"idle"} \cup Open \cup Answers]
      BY <1>1 DEF ApiInv, Open, Answers
    <2>2. \A u \in Users : Cardinality(InFlight(u)') <= MaxInFlight
      BY <1>3, FS_EmptySet, ApiAssumption
    <2>3. restarts' \in Nat /\ source' \in [Ops -> Sources] /\ used' \in [Users -> Nat]
      BY <1>1 DEF ApiInv
    <2> QED
      BY <1>1, <1>2, <2>1, <2>2, <2>3 DEF ApiInv
  <1>5. restarts' # 0 /\ restarts' \in Nat
    BY <1>1 DEF ApiInv
  <1>6. \A u \in Users : Require(u)'.tier = "STANDARD"
    BY <1>1 DEF Require, NewAccount
  <1>7. TierPacks = {} => \A u \in Users : CapOf(u)'
    <2> SUFFICES ASSUME TierPacks = {}, NEW u \in Users, Capped(u)' PROVE CapOf(u)'
      BY DEF CapOf
    <2>1. CapOf(u) /\ Capped(u)
      BY DEF CapInv, TierLasts, Capped
    <2>2. used[u] \in Nat /\ used'[u] = used[u] /\ Cardinality(Uncounted(u)') = 0
      BY <1>1, <1>3, FS_EmptySet DEF ApiInv
    <2> QED
      BY <2>1, <2>2, RequestsCounted, ApiAssumption DEF CapOf
  <1> QED
    BY <1>4, <1>5, <1>6, <1>7 DEF MoneyInv, CapInv, TierLasts

\* Every other step keeps the books, and with them every charge.
LEMMA StepSafe ==
  ASSUME ApiInv, MoneyInv, CapInv, BookKept, ApiTyped', restarts' = restarts,
         \A u \in Users : Cardinality(InFlight(u)') <= MaxInFlight,
         \A o \in Ops : ChargeOf(o) => ChargeOf(o)',
         ApiInv' => \A u \in Users : CapOf(u) => CapOf(u)'
  PROVE  ApiInv' /\ MoneyInv' /\ CapInv'
  <1>1. LedgerInv'
    BY BookStepSafe DEF BookKept, ApiInv
  <1>2. ApiInv'
    BY <1>1 DEF ApiInv, ApiTyped
  <1>3. MoneyInv'
    BY <1>1, BookStepBalances DEF MoneyInv, BookKept, ApiInv
  <1>4. CapInv'
    BY <1>2 DEF CapInv, TierLasts, BookKept
  <1> QED
    BY <1>2, <1>3, <1>4

LEMMA ApiStepSafe ==
  ApiInv /\ MoneyInv /\ CapInv /\ [ApiNext]_apiVars => ApiInv' /\ MoneyInv' /\ CapInv'
  <1> SUFFICES ASSUME ApiInv, MoneyInv, CapInv, [ApiNext]_apiVars
               PROVE  ApiInv' /\ MoneyInv' /\ CapInv'
    OBVIOUS
  <1>1. ASSUME NEW o \in Ops, Enter(o) PROVE ApiInv' /\ MoneyInv' /\ CapInv'
    <2>1. /\ BookKept /\ ApiTyped'
          /\ UNCHANGED <<restarts, used>>
          /\ \A d \in Ops \ {o} : Stays(d)
          /\ ChargeOf(o) => ChargeOf(o)'
          /\ api'[o] \in {"turnedAway", "entered"}
          /\ Cardinality(InFlight(OpUser[o])) < MaxInFlight
      BY <1>1, EnterKeeps
    <2>2. \A u \in Users : Cardinality(InFlight(u)') <= MaxInFlight
      <3> SUFFICES ASSUME NEW u \in Users PROVE Cardinality(InFlight(u)') <= MaxInFlight
        OBVIOUS
      <3>1. CASE u = OpUser[o]
        <4>1. InFlight(u)' \in SUBSET (InFlight(u) \cup {o})
          BY <2>1 DEF InFlight, Stays
        <4>2. /\ IsFiniteSet(InFlight(u) \cup {o})
              /\ Cardinality(InFlight(u) \cup {o}) <= Cardinality(InFlight(u)) + 1
          <5>1. IsFiniteSet(InFlight(u)) /\ Cardinality(InFlight(u)) \in Nat
            BY RequestsCounted
          <5> HIDE DEF InFlight
          <5> QED
            BY <5>1, FS_AddElement
        <4>3. Cardinality(InFlight(u)') <= Cardinality(InFlight(u) \cup {o})
          BY <4>1, <4>2, FS_Subset
        <4>4. Cardinality(InFlight(u) \cup {o}) \in Nat
          BY <4>2, FS_CardinalityType
        <4> QED
          BY <2>1, <3>1, <4>2, <4>3, <4>4, RequestsCounted, ApiAssumption
      <3>2. CASE u # OpUser[o]
        <4>1. InFlight(u)' = InFlight(u)
          BY <2>1, <3>2 DEF InFlight, Stays
        <4> QED
          BY <4>1 DEF ApiInv
      <3> QED
        BY <3>1, <3>2
    <2>3. \A d \in Ops : ChargeOf(d) => ChargeOf(d)'
      BY <2>1, StaysCharged
    <2>4. ApiInv' => \A u \in Users : CapOf(u) => CapOf(u)'
      <3>1. \A u \in Users : Uncounted(u)' \subseteq Uncounted(u) /\ used'[u] <= used[u]
        BY <2>1 DEF Uncounted, Stays, ApiInv
      <3> QED
        BY <2>1, <3>1, CapShrinks
    <2> QED
      BY <2>1, <2>2, <2>3, <2>4, StepSafe
  <1>2. ASSUME NEW o \in Ops, HandlerStep(o) PROVE ApiInv' /\ MoneyInv' /\ CapInv'
    <2>1. HandlerKept(o)
      BY <1>2, HandlerKeeps
    <2>2. \A d \in Ops : ChargeOf(d) => ChargeOf(d)'
      BY <2>1, StaysCharged DEF HandlerKept
    <2>3. \A u \in Users : Cardinality(InFlight(u)') <= MaxInFlight
      BY <2>1, HandlerOpensNone
    <2>4. ApiInv' => \A u \in Users : CapOf(u) => CapOf(u)'
      BY <1>2, HandlerCap
    <2> QED
      BY <2>1, <2>2, <2>3, <2>4, StepSafe DEF HandlerKept
  <1>3. CASE AmbientStep
    <2>1. /\ BookKept /\ ApiTyped'
          /\ UNCHANGED <<api, source, pc, restarts>>
          /\ \A d \in Ops : Stays(d)
          /\ used' = used \/ used' = [u \in Users |-> 0]
      BY <1>3, AmbientKeeps
    <2>2. \A d \in Ops : ChargeOf(d) => ChargeOf(d)'
      BY <2>1, StaysCharged
    <2>3. \A u \in Users : InFlight(u)' = InFlight(u) /\ Uncounted(u)' = Uncounted(u)
      BY <2>1 DEF InFlight, Uncounted
    <2>4. \A u \in Users : used'[u] <= used[u]
      BY <2>1 DEF ApiInv
    <2>5. ApiInv' => \A u \in Users : CapOf(u) => CapOf(u)'
      BY <2>1, <2>3, <2>4, CapShrinks
    <2>6. \A u \in Users : Cardinality(InFlight(u)') <= MaxInFlight
      BY <2>3 DEF ApiInv
    <2> QED
      BY <2>1, <2>2, <2>5, <2>6, StepSafe
  <1>4. CASE RestartProcess
    BY <1>4, RestartSafe
  <1>5. CASE UNCHANGED apiVars
    <2>1. /\ UNCHANGED <<accounts, movements, refunded>>
          /\ UNCHANGED <<api, source, pc, restarts, used>>
      BY <1>5 DEF apiVars
    <2>2. BookKept
      BY <2>1, UntouchedBooks
    <2>3. ApiTyped' /\ \A d \in Ops : Stays(d)
      BY <2>1 DEF ApiInv, ApiTyped, Stays
    <2>4. \A d \in Ops : ChargeOf(d) => ChargeOf(d)'
      BY <2>3, StaysCharged
    <2>5. \A u \in Users : InFlight(u)' = InFlight(u) /\ Uncounted(u)' = Uncounted(u)
      BY <2>1 DEF InFlight, Uncounted
    <2>6. ApiInv' => \A u \in Users : CapOf(u) => CapOf(u)'
      BY <2>1, <2>2, <2>5, CapShrinks DEF ApiInv
    <2>7. \A u \in Users : Cardinality(InFlight(u)') <= MaxInFlight
      BY <2>5 DEF ApiInv
    <2> QED
      BY <2>1, <2>2, <2>3, <2>4, <2>6, <2>7, StepSafe
  <1> QED
    BY <1>1, <1>2, <1>3, <1>4, <1>5 DEF ApiNext, AmbientStep

LEMMA ApiSafe == ApiSpec => [](ApiInv /\ MoneyInv /\ CapInv)
  BY ApiInitSafe, ApiStepSafe, PTL DEF ApiSpec

---------------------------------------------------------------------------
(* What POST /scan keeps *)

\* Until a restart forgets the charges, a result that was delivered was a gift
\* or its charge stands, whatever threw around it: the refund of a request and
\* its success exclude each other (wiredApp.ts).
THEOREM ResultsArePaid == ApiSpec => [](restarts = 0 => ResultIsPaid)
  <1>1. ApiInv /\ MoneyInv => (restarts = 0 => ResultIsPaid)
    BY DEF ApiInv, MoneyInv, ChargeOf, ResultIsPaid, Delivered, Charged, Sources
  <1> QED
    BY <1>1, ApiSafe, PTL

\* Until a restart forgets the accounts, no user gets more results for free than
\* the grant, under failures, refunds and requests that run at once.
THEOREM GrantedOnce == ApiSpec => [](restarts = 0 => FreeQuotaOnce)
  <1>1. ASSUME ApiInv, MoneyInv, restarts = 0 PROVE FreeQuotaOnce
    <2> SUFFICES ASSUME NEW u \in Users
                 PROVE  Cardinality({o \in Ops : /\ OpUser[o] = u /\ source[o] = "FREE"
                                                 /\ Delivered(o)}) <= FreeScanGrant
      BY DEF FreeQuotaOnce
    <2> DEFINE given == {o \in Ops : OpUser[o] = u /\ source[o] = "FREE" /\ Delivered(o)}
               booked == MovementsOf(u, "FREE_DEBIT")
    <2>1. given \in SUBSET booked
      BY <1>1 DEF MoneyInv, ChargeOf, Delivered, MovementsOf, Standing, MovementIds
    <2>2. IsFiniteSet(booked)
      BY LedgerAssumption, FS_Subset DEF MovementsOf
    <2>3. FreeScanGrant = Require(u).free + Cardinality(booked)
      BY <1>1 DEF MoneyInv, BooksBalance
    <2>4. Require(u).free \in Nat
      BY <1>1, RequireTyped DEF ApiInv, LedgerInv, Account
    <2> HIDE DEF given, booked
    <2>5. Cardinality(given) <= Cardinality(booked) /\ Cardinality(booked) \in Nat
          /\ Cardinality(given) \in Nat
      BY <2>1, <2>2, FS_Subset, FS_CardinalityType
    <2>6. Cardinality(given) <= FreeScanGrant
      BY <2>3, <2>4, <2>5, LedgerAssumption
    <2> QED
      BY <2>6 DEF given
  <1> QED
    BY <1>1, ApiSafe, PTL

\* The cap is overshot by no more than the requests a user has open besides the
\* one that is counted, through midnights, restarts, lost counts and counts whose
\* acknowledgement is lost.  After a restart that is claimed where no pack grants
\* a tier: it forgets a bought tier, and not the scans that were not capped.
THEOREM OvershootBounded == ApiSpec => [](TierLasts => CapOvershoot)
  <1>1. ASSUME ApiInv, CapInv, TierLasts PROVE CapOvershoot
    <2> SUFFICES ASSUME NEW u \in Users, Capped(u)
                 PROVE  used[u] <= DailyCap + MaxInFlight - 1
      BY DEF CapOvershoot
    <2>1. used[u] + Cardinality(Uncounted(u)) <= DailyCap + MaxInFlight - 1
      BY <1>1 DEF CapInv, CapOf
    <2>2. used[u] \in Nat
      BY <1>1 DEF ApiInv
    <2> QED
      BY <2>1, <2>2, RequestsCounted, ApiAssumption
  <1> QED
    BY <1>1, ApiSafe, PTL

---------------------------------------------------------------------------
(* POST /scan implements PaidScan *)

\* No fault but those the handler and the pipeline catch, and no restart.
OnlyCaught ==
    /\ Throws \cap {"issue", "getExecution", "mark", "acquire", "fail"} = {}
    /\ LostAcks \cap {"issue", "mark", "fail"} = {}
    /\ MaxRestarts = 0

\* Every pack is worth a whole number of scans, as those of pricing.ts are.
WholeCredits ==
    /\ Price > 0
    /\ \A k \in Packs : \E n \in Nat : PackPrice[k] + PackBonus[k] = n * Price

\* The execution row of a request that has not run is not there, no exception
\* leaves the pipeline and nothing is answered twice.
RunsClean(o) ==
    /\ pc[o] = "idle" => execRow[o] = "NONE"
    /\ pc[o] \notin {"reused", "threw", "crashed"}

\* What was charged to the balance is the price, and what is counted was delivered.
PaidInFull(o) ==
    /\ source[o] = "BALANCE" => movements[o].kind = "DEBIT" /\ movements[o].amount = Price
    /\ api[o] = "recording" => pc[o] = "ok"

PromiseInv ==
    /\ restarts = 0
    /\ execRow \in [Ops -> Service!ScanStatus \cup {"NONE"}]
    /\ \A o \in Ops : RunsClean(o) /\ PaidInFull(o)

\* What PaidScan sees of a state.
Purses == [u \in Users |-> Require(u).free + (Require(u).balance \div Price)]
Stages == [o \in Ops |-> Stage(o)]

LEMMA DivBounds ==
  ASSUME NEW a \in Nat, NEW p \in Nat \ {0}
  PROVE  /\ a \div p \in Nat
         /\ (a \div p) * p <= a
         /\ a < (a \div p) * p + p
  OBVIOUS

LEMMA ProductsGrow ==
  ASSUME NEW a \in Int, NEW b \in Int, NEW k \in Nat, a <= b
  PROVE  a * k <= b * k
  <1>1. \A n \in Nat : n * k \in Nat
    OBVIOUS
  <1>2. b = a + (b - a) /\ b - a \in Nat
    OBVIOUS
  <1>3. (a + (b - a)) * k = a * k + (b - a) * k
    OBVIOUS
  <1> QED
    BY <1>1, <1>2, <1>3

LEMMA DivUnique ==
  ASSUME NEW a \in Nat, NEW p \in Nat \ {0}, NEW q \in Nat, q * p <= a, a < q * p + p
  PROVE  a \div p = q
  <1> DEFINE d == a \div p
  <1>1. d \in Nat /\ d * p <= a /\ a < d * p + p
    BY DivBounds
  <1> HIDE DEF d
  <1>2. (d + 1) * p = d * p + p /\ (q + 1) * p = q * p + p
    BY <1>1
  <1>3. ~(d < q)
    <2> SUFFICES ASSUME d < q PROVE FALSE
      OBVIOUS
    <2>1. (d + 1) * p <= q * p
      BY <1>1, ProductsGrow
    <2> QED
      BY <1>1, <1>2, <2>1
  <1>4. ~(q < d)
    <2> SUFFICES ASSUME q < d PROVE FALSE
      OBVIOUS
    <2>1. (q + 1) * p <= d * p
      BY <1>1, ProductsGrow
    <2> QED
      BY <1>1, <1>2, <2>1
  <1>5. d = q
    BY <1>1, <1>3, <1>4
  <1> QED
    BY <1>5 DEF d

\* Money for n more scans is n more scans.
LEMMA DivAdds ==
  ASSUME NEW a \in Nat, NEW p \in Nat \ {0}, NEW n \in Nat
  PROVE  (a + n * p) \div p = (a \div p) + n
  <1> DEFINE d == a \div p
  <1>1. d \in Nat /\ d * p <= a /\ a < d * p + p
    BY DivBounds
  <1> HIDE DEF d
  <1>2. (d + n) * p = d * p + n * p /\ n * p \in Nat /\ d * p \in Nat
    BY <1>1
  <1>3. (a + n * p) \div p = d + n
    BY <1>1, <1>2, DivUnique
  <1> QED
    BY <1>3 DEF d

---------------------------------------------------------------------------
(* The pipeline under the faults that are caught *)

LEMMA ScanRunsClean ==
  ASSUME OnlyCaught, ApiInv, PromiseInv, NEW o \in Ops, Service!CallStep(o)
  PROVE  /\ execRow' \in [Ops -> Service!ScanStatus \cup {"NONE"}]
         /\ \A d \in Ops : d # o => execRow'[d] = execRow[d]
         /\ pc'[o] \notin {"idle", "reused", "threw", "crashed"}
  <1>1. pc \in [Ops -> PcStates] /\ execRow \in [Ops -> Service!ScanStatus \cup {"NONE"}]
    BY DEF ApiInv, PromiseInv
  <1>2. CASE Service!Gate(o) \/ Service!GateThrows(o)
    BY <1>1, <1>2 DEF Service!Gate, Service!GateThrows, Service!Goto, Service!rowVars, OnlyCaught,
                      PromiseInv, RunsClean
  <1>3. CASE \/ Service!Consume(o) \/ Service!Refuse(o) \/ Service!UndoReserve(o)
             \/ Service!Produce(o) \/ Service!ProduceNothing(o) \/ Service!AcquireThrows(o)
             \/ Service!Release(o)
    BY <1>1, <1>3 DEF Service!Consume, Service!Refuse, Service!UndoReserve, Service!Produce,
                      Service!ProduceNothing, Service!AcquireThrows, Service!Release,
                      Service!Goto, Service!rowVars, OnlyCaught
  <1>4. CASE Service!Reserve(o)
    BY <1>1, <1>4 DEF Service!Reserve, Service!DbStep, Service!ReserveRows, Service!Goto,
                      Service!rowVars, Service!ScanStatus
  <1>5. CASE Service!Mark(o)
    BY <1>1, <1>5 DEF Service!Mark, Service!DbStep, Service!MarkRow, Service!Goto,
                      Service!rowVars, Service!ScanStatus, OnlyCaught
  <1>6. CASE Service!Persist(o)
    BY <1>1, <1>6 DEF Service!Persist, Service!DbStep, Service!PersistRows, Service!Goto,
                      Service!rowVars, Service!ScanStatus
  <1>7. CASE Service!RecordFailure(o)
    BY <1>1, <1>7 DEF Service!RecordFailure, Service!DbStep, Service!FailRows, Service!Goto,
                      Service!rowVars, Service!ScanStatus, OnlyCaught
  <1> QED
    BY <1>2, <1>3, <1>4, <1>5, <1>6, <1>7 DEF Service!CallStep

\* A step of another request leaves this one's part of the invariant.
LEMMA PromiseStays ==
  ASSUME NEW d \in Ops, Stays(d), execRow'[d] = execRow[d], RunsClean(d), PaidInFull(d)
  PROVE  RunsClean(d)' /\ PaidInFull(d)'
  BY DEF Stays, RunsClean, PaidInFull

---------------------------------------------------------------------------
(* Purses and stages *)

\* One request moves from a stage to another, the rest stay.
Staged(o, from, to) == Stages[o] = from /\ Stages' = [Stages EXCEPT ![o] = to]

\* The steps of PaidScan, in terms of the purses and stages of a state.
LEMMA IsStutter ==
  ASSUME Purses' = Purses, Stages' = Stages
  PROVE  UNCHANGED Promise!vars
  BY DEF Promise!vars, Purses, Stages

LEMMA IsTurnAway ==
  ASSUME NEW o \in Ops, Purses' = Purses, Staged(o, "new", "over")
  PROVE  Promise!Next
  BY DEF Purses, Stages, Staged, Promise!Next, Promise!TurnAway, Promise!Move

LEMMA IsGive ==
  ASSUME NEW o \in Ops, Purses' = Purses, Staged(o, "new", "gift")
  PROVE  Promise!Next
  BY DEF Purses, Stages, Staged, Promise!Next, Promise!Give, Promise!Move

LEMMA IsDropGift ==
  ASSUME NEW o \in Ops, Purses' = Purses, Staged(o, "gift", "over")
  PROVE  Promise!Next
  BY DEF Purses, Stages, Staged, Promise!Next, Promise!End, Promise!DropGift, Promise!Move

LEMMA IsDeliver ==
  ASSUME NEW o \in Ops, NEW from \in {"gift", "paid"}, Purses' = Purses,
         Staged(o, from, "delivered")
  PROVE  Promise!Next
  BY DEF Purses, Stages, Staged, Promise!Next, Promise!End, Promise!Deliver, Promise!Move

LEMMA IsPay ==
  ASSUME NEW o \in Ops, Purses[OpUser[o]] > 0,
         Purses' = [Purses EXCEPT ![OpUser[o]] = @ - 1], Staged(o, "new", "paid")
  PROVE  Promise!Next
  <1>1. OpUser[o] \in Users
    BY ApiAssumption
  <1> QED
    BY <1>1 DEF Purses, Stages, Staged, Promise!Next, Promise!Pay, Promise!Move

LEMMA IsGiveBack ==
  ASSUME NEW o \in Ops, Purses' = [Purses EXCEPT ![OpUser[o]] = @ + 1],
         Staged(o, "paid", "over")
  PROVE  Promise!Next
  <1>1. OpUser[o] \in Users
    BY ApiAssumption
  <1> QED
    BY <1>1 DEF Purses, Stages, Staged, Promise!Next, Promise!End, Promise!GiveBack, Promise!Move

LEMMA IsBuy ==
  ASSUME NEW u \in Users, NEW k \in Packs, Stages' = Stages,
         Purses' = [Purses EXCEPT ![u] = @ + ((PackPrice[k] + PackBonus[k]) \div Price)]
  PROVE  Promise!Next
  <1> DEFINE n == (PackPrice[k] + PackBonus[k]) \div Price
  <1>1. n \in {(PackPrice[j] + PackBonus[j]) \div Price : j \in Packs}
    OBVIOUS
  <1>2. Promise!Buy(u, n)
    BY DEF Purses, Stages, Promise!Buy
  <1> HIDE DEF n
  <1> QED
    BY <1>1, <1>2 DEF Promise!Next

LEMMA PurseTyped ==
  ASSUME ApiInv, NEW u \in Users
  PROVE  Require(u).free \in Nat /\ Require(u).balance \in Nat
  BY RequireTyped DEF ApiInv, LedgerInv, Account

\* What leaves money and free scans leaves the purses.
LEMMA QuietPurses == ASSUME Quiet PROVE Purses' = Purses
  BY DEF Quiet, Purses

LEMMA SameAccountsPurses == ASSUME UNCHANGED accounts PROVE Purses' = Purses
  BY DEF Purses, Require

\* A purse follows the account of its user.
LEMMA PurseMoves ==
  ASSUME NEW u \in Users, OthersStay(u), NEW n,
         Require(u)'.free + (Require(u)'.balance \div Price) = n
  PROVE  Purses' = [Purses EXCEPT ![u] = n]
  BY DEF OthersStay, Purses

LEMMA StageMoves ==
  ASSUME NEW o \in Ops, \A d \in Ops \ {o} : Stays(d)
  PROVE  Stages' = [Stages EXCEPT ![o] = Stage(o)']
  <1>1. \A d \in Ops \ {o} : Stage(d)' = Stage(d)
    BY DEF Stays, Stage, Delivered
  <1> QED
    BY <1>1 DEF Stages

LEMMA StagesStay == ASSUME UNCHANGED <<api, source, pc>> PROVE Stages' = Stages
  BY DEF Stages, Stage, Delivered

\* A request that neither was charged nor runs is new, and over once answered.
LEMMA TurnedAway ==
  ASSUME NEW o \in Ops, pc[o] = "idle", pc'[o] = "idle",
         api[o] \in {"idle", "entered", "checking", "admitted"},
         api'[o] \in {"entered", "checking", "admitted"} \cup Answers,
         \A d \in Ops \ {o} : Stays(d)
  PROVE  Stages' = Stages \/ Staged(o, "new", "over")
  <1>1. Stage(o) = "new"
    BY DEF Stage, Delivered, Answers
  <1>2. Stage(o)' \in {"new", "over"}
    BY DEF Stage, Delivered, Answers
  <1>3. Stages' = [Stages EXCEPT ![o] = Stage(o)'] /\ Stages[o] = "new"
    BY <1>1, StageMoves DEF Stages
  <1>4. CASE Stage(o)' = "new"
    BY <1>3, <1>4 DEF Stages
  <1> QED
    BY <1>2, <1>3, <1>4 DEF Staged

LEMMA PurseTypedAfter ==
  ASSUME ApiInv, BookKept, NEW u \in Users
  PROVE  Require(u)'.free \in Nat /\ Require(u)'.balance \in Nat
  BY LedgerAssumption DEF BookKept, Require, NewAccount, Account

\* What charging the price does to the purse.
LEMMA PayingOnce ==
  ASSUME WholeCredits, ApiInv, BookKept, NEW o \in Ops,
         \/ Booking(OpUser[o], o, "FREE_DEBIT", 0) \/ Booking(OpUser[o], o, "DEBIT", Price)
  PROVE  Purses[OpUser[o]] > 0 /\ Purses' = [Purses EXCEPT ![OpUser[o]] = @ - 1]
  <1> DEFINE u == OpUser[o]
             free == Require(u).free
             balance == Require(u).balance
             left == Require(u)'.free
             rest == Require(u)'.balance
  <1>0. u \in Users /\ Price \in Nat \ {0} /\ OthersStay(u)
    BY ApiAssumption, SettlementAssumption DEF WholeCredits, Booking
  <1>1. free \in Nat /\ balance \in Nat /\ left \in Nat /\ rest \in Nat
    BY <1>0, PurseTyped, PurseTypedAfter
  <1>2. \/ rest = balance /\ free = left + 1
        \/ balance = rest + Price /\ left = free
    BY DEF Booking
  <1>3. Purses[u] = free + (balance \div Price)
    BY <1>0 DEF Purses
  <1>4. Purses' = [Purses EXCEPT ![u] = left + (rest \div Price)]
    BY <1>0, PurseMoves
  <1> HIDE DEF u, free, balance, left, rest
  <1>5. free + (balance \div Price) = left + (rest \div Price) + 1
        /\ left + (rest \div Price) \in Nat
    <2>1. balance \div Price \in Nat /\ rest \div Price \in Nat
      BY <1>0, <1>1, DivBounds
    <2>2. CASE rest = balance /\ free = left + 1
      BY <1>1, <2>1, <2>2
    <2>3. CASE balance = rest + Price /\ left = free
      <3>1. (rest + 1 * Price) \div Price = (rest \div Price) + 1
        <4>1. \A n \in Nat : (rest + n * Price) \div Price = (rest \div Price) + n
          BY <1>0, <1>1, DivAdds
        <4>2. 1 \in Nat
          OBVIOUS
        <4> QED
          BY <4>1, <4>2, Zenon
      <3>2. balance = rest + 1 * Price
        BY <1>0, <1>1, <2>3
      <3> QED
        BY <1>1, <2>1, <2>3, <3>1, <3>2
    <2> QED
      BY <1>2, <2>2, <2>3
  <1>6. Purses[u] > 0 /\ left + (rest \div Price) = Purses[u] - 1
    BY <1>3, <1>5
  <1>7. Purses[u] > 0 /\ Purses' = [Purses EXCEPT ![u] = Purses[u] - 1]
    BY <1>4, <1>6
  <1> QED
    BY <1>7 DEF u

\* What giving a charge of the price back does to the purse.
LEMMA GivingOnce ==
  ASSUME WholeCredits, ApiInv, BookKept, NEW o \in Ops, GivingBack(OpUser[o], o),
         movements[o].kind = "DEBIT" => movements[o].amount = Price
  PROVE  Purses' = [Purses EXCEPT ![OpUser[o]] = @ + 1]
  <1> DEFINE u == OpUser[o]
             free == Require(u).free
             balance == Require(u).balance
             more == Require(u)'.free
             sum == Require(u)'.balance
  <1>0. u \in Users /\ Price \in Nat \ {0} /\ OthersStay(u)
    BY ApiAssumption, SettlementAssumption DEF WholeCredits, GivingBack
  <1>1. free \in Nat /\ balance \in Nat /\ more \in Nat /\ sum \in Nat
    BY <1>0, PurseTyped, PurseTypedAfter
  <1>2. \/ sum = balance /\ more = free + 1
        \/ sum = balance + Price /\ more = free
    BY DEF GivingBack
  <1>3. Purses[u] = free + (balance \div Price)
    BY <1>0 DEF Purses
  <1>4. Purses' = [Purses EXCEPT ![u] = more + (sum \div Price)]
    BY <1>0, PurseMoves
  <1> HIDE DEF u, free, balance, more, sum
  <1>5. more + (sum \div Price) = free + (balance \div Price) + 1
    <2>1. balance \div Price \in Nat /\ sum \div Price \in Nat
      BY <1>0, <1>1, DivBounds
    <2>2. CASE sum = balance /\ more = free + 1
      BY <1>1, <2>1, <2>2
    <2>3. CASE sum = balance + Price /\ more = free
      <3>1. (balance + 1 * Price) \div Price = (balance \div Price) + 1
        BY 1 \in Nat, <1>0, <1>1, DivAdds
      <3>2. sum = balance + 1 * Price
        BY <1>0, <1>1, <2>3
      <3> QED
        BY <1>1, <2>1, <2>3, <3>1, <3>2
    <2> QED
      BY <1>2, <2>2, <2>3
  <1>6. Purses' = [Purses EXCEPT ![u] = Purses[u] + 1]
    BY <1>3, <1>4, <1>5
  <1> QED
    BY <1>6 DEF u

---------------------------------------------------------------------------
(* Every step is a step of PaidScan, or none *)

PromiseSteps == PromiseInv' /\ (Promise!Next \/ UNCHANGED Promise!vars)

LEMMA PromiseInvAfter ==
  ASSUME PromiseInv, NEW o \in Ops, \A d \in Ops \ {o} : Stays(d), restarts' = restarts,
         execRow' \in [Ops -> Service!ScanStatus \cup {"NONE"}],
         \A d \in Ops : d # o => execRow'[d] = execRow[d],
         RunsClean(o)', PaidInFull(o)'
  PROVE  PromiseInv'
  <1>1. \A d \in Ops : RunsClean(d)' /\ PaidInFull(d)'
    BY PromiseStays DEF PromiseInv
  <1> QED
    BY <1>1 DEF PromiseInv

\* Steps that answer or move on a request without the pipeline or the books.
LEMMA AnswerPromises ==
  ASSUME PromiseInv, NEW o \in Ops, \A d \in Ops \ {o} : Stays(d),
         UNCHANGED <<source, pc, execRow, movements, restarts>>,
         api'[o] = "recording" => pc[o] = "ok"
  PROVE  PromiseInv'
  <1>1. RunsClean(o)' /\ PaidInFull(o)'
    BY DEF PromiseInv, RunsClean, PaidInFull
  <1> QED
    BY <1>1, PromiseInvAfter DEF PromiseInv

LEMMA EnterPromises ==
  ASSUME ApiInv, MoneyInv, PromiseInv, NEW o \in Ops, Enter(o)
  PROVE  PromiseSteps
  <1>1. /\ \A d \in Ops \ {o} : Stays(d)
        /\ api[o] = "idle" /\ api'[o] \in {"turnedAway", "entered"}
        /\ UNCHANGED restarts
    BY EnterKeeps
  <1>2. Quiet /\ UNCHANGED <<source, pc, execRow, movements>>
    BY RegisterBooks, ApiAssumption DEF Enter, ApiInv, serviceVars, Register
  <1>3. PromiseInv'
    BY <1>1, <1>2, AnswerPromises
  <1>4. pc[o] = "idle"
    BY <1>1 DEF MoneyInv, PromiseInv, ChargeOf
  <1>5. Stages' = Stages \/ Staged(o, "new", "over")
    BY <1>1, <1>2, <1>4, TurnedAway DEF Answers
  <1>6. Purses' = Purses
    BY <1>2, QuietPurses
  <1> QED
    BY <1>3, <1>5, <1>6, IsStutter, IsTurnAway DEF PromiseSteps

\* The handler before the charge, and when the account does not cover it.
LEMMA GatePromises ==
  ASSUME ApiInv, MoneyInv, PromiseInv, NEW o \in Ops, HandlerKept(o),
         Admit(o) \/ CheckCap(o) \/ CannotPay(o)
  PROVE  PromiseSteps
  <1>1. /\ \A d \in Ops \ {o} : Stays(d)
        /\ UNCHANGED restarts
    BY DEF HandlerKept
  <1>2. /\ api[o] \in {"entered", "checking", "admitted"}
        /\ api'[o] \in {"turnedAway", "checking", "admitted", "capped", "unpaid", "error"}
    BY DEF ApiInv, Admit, CheckCap, CannotPay, Answer
  <1>3. UNCHANGED <<accounts, source, pc, execRow, movements>>
    BY DEF Admit, CheckCap, CannotPay, serviceVars, moneyVars, settlementVars
  <1>4. PromiseInv'
    BY <1>1, <1>2, <1>3, AnswerPromises
  <1>5. pc[o] = "idle"
    BY <1>2 DEF MoneyInv, PromiseInv, ChargeOf
  <1>6. Stages' = Stages \/ Staged(o, "new", "over")
    BY <1>1, <1>2, <1>3, <1>5, TurnedAway DEF Answers
  <1>7. Purses' = Purses
    BY <1>3, SameAccountsPurses
  <1> QED
    BY <1>4, <1>6, <1>7, IsStutter, IsTurnAway DEF PromiseSteps

LEMMA ChargePromises ==
  ASSUME WholeCredits, ApiInv, MoneyInv, PromiseInv, NEW o \in Ops, HandlerKept(o),
         ChargeAndIssue(o)
  PROVE  PromiseSteps
  <1>0. /\ o \in MovementIds /\ OpUser[o] \in Users /\ Price \in Nat
        /\ \A d \in Ops \ {o} : Stays(d)
        /\ restarts' = restarts /\ BookKept
    BY ApiAssumption, SettlementAssumption DEF MovementIds, HandlerKept
  <1>1. /\ api[o] = "admitted" /\ api'[o] = "issuing"
        /\ UNCHANGED <<pc, execRow>>
    BY DEF ChargeAndIssue, Answer, ApiInv
  <1>2. source[o] = "NONE" /\ pc[o] = "idle" /\ movements[o] = NoMovement
    BY <1>1 DEF MoneyInv, PromiseInv, ChargeOf
  <1>3. Stages[o] = "new" /\ Stages' = [Stages EXCEPT ![o] = Stage(o)']
    BY <1>0, <1>1, <1>2, StageMoves DEF Stages, Stage, Delivered, Answers
  <1>4. RunsClean(o)' /\ execRow \in [Ops -> Service!ScanStatus \cup {"NONE"}]
    BY <1>1 DEF PromiseInv, RunsClean
  <1>5. CASE Free(o)
    <2>1. source'[o] = "PROMO" /\ UNCHANGED accounts
      BY <1>5 DEF ChargeAndIssue, ApiInv
    <2>2. Stage(o)' = "gift"
      BY <1>1, <1>2, <2>1 DEF Stage, Delivered, Answers
    <2>3. PaidInFull(o)'
      BY <1>1, <2>1 DEF PaidInFull
    <2>4. PromiseInv'
      BY <1>0, <1>1, <1>4, <2>3, PromiseInvAfter
    <2>5. Promise!Next
      BY <1>3, <2>1, <2>2, SameAccountsPurses, IsGive DEF Staged
    <2> QED
      BY <2>4, <2>5 DEF PromiseSteps
  <1>6. CASE ~Free(o)
    <2>1. /\ Charge(OpUser[o], o, Price, TRUE)
          /\ source'[o] = IF movements'[o].kind = "FREE_DEBIT" THEN "FREE" ELSE "BALANCE"
      BY <1>6 DEF ChargeAndIssue, ApiInv
    <2>2. \/ Booking(OpUser[o], o, "FREE_DEBIT", 0) \/ Booking(OpUser[o], o, "DEBIT", Price)
      BY <1>0, <1>2, <2>1, ChargeBooks DEF ApiInv
    <2>3. PICK kind \in {"FREE_DEBIT", "DEBIT"}, n \in {0, Price} :
              Record(o, OpUser[o], kind, n) /\ (kind = "DEBIT" => n = Price)
      BY <2>2 DEF Booking
    <2>4. movements'[o] = [user |-> OpUser[o], kind |-> kind, amount |-> n]
      <3>1. kind \in {"DEBIT", "TOPUP", "FREE_DEBIT"} /\ n \in Nat
        BY <1>0
      <3> QED
        BY <1>0, <2>3, <3>1, RecordTyped DEF ApiInv, LedgerInv
    <2>5. PaidInFull(o)'
      BY <1>1, <2>1, <2>3, <2>4 DEF PaidInFull
    <2>6. PromiseInv'
      BY <1>0, <1>1, <1>4, <2>5, PromiseInvAfter
    <2>7. Stage(o)' = "paid"
      BY <1>1, <1>2, <2>1 DEF Stage, Delivered, Answers
    <2>8. Purses[OpUser[o]] > 0 /\ Purses' = [Purses EXCEPT ![OpUser[o]] = @ - 1]
      BY <1>0, <2>2, PayingOnce
    <2>9. Promise!Next
      BY <1>3, <2>7, <2>8, IsPay DEF Staged
    <2> QED
      BY <2>6, <2>9 DEF PromiseSteps
  <1> QED
    BY <1>5, <1>6

\* From the entitlement's row to the answer: only a result or a refund moves the
\* request on.
LEMMA RunPromises ==
  ASSUME OnlyCaught, ApiInv, MoneyInv, PromiseInv, NEW o \in Ops, HandlerKept(o),
         IssueRow(o) \/ Scan(o)
  PROVE  PromiseSteps
  <1>0. /\ \A d \in Ops \ {o} : Stays(d)
        /\ restarts' = restarts
    BY DEF HandlerKept
  <1>1. /\ UNCHANGED <<accounts, source, movements>>
        /\ api[o] \in {"issuing", "scanning"} /\ api'[o] = "scanning"
    BY DEF IssueRow, Scan, Answer, ApiInv, OnlyCaught, moneyVars, settlementVars
  <1>2. /\ execRow' \in [Ops -> Service!ScanStatus \cup {"NONE"}]
        /\ \A d \in Ops : d # o => execRow'[d] = execRow[d]
        /\ RunsClean(o)'
    <2>1. CASE IssueRow(o)
      BY <2>1 DEF IssueRow, PromiseInv, RunsClean
    <2>2. CASE Scan(o)
      BY <2>2, ScanRunsClean DEF Scan, RunsClean
    <2> QED
      BY <2>1, <2>2
  <1>3. PaidInFull(o)'
    BY <1>1 DEF PaidInFull, PromiseInv
  <1>4. PromiseInv'
    BY <1>0, <1>2, <1>3, PromiseInvAfter
  <1>5. pc[o] = "ok" => pc'[o] = "ok"
    <2>1. CASE IssueRow(o)
      BY <2>1 DEF IssueRow
    <2>2. CASE Scan(o)
      BY <2>2, ScanMoves DEF Scan
    <2> QED
      BY <2>1, <2>2
  <1>6. Stage(o)' = Stage(o) \/ (Stage(o) \in {"gift", "paid"} /\ Stage(o)' = "delivered")
    <2>1. CASE pc'[o] = "ok"
      BY <1>1, <2>1 DEF Stage, Delivered, Answers
    <2>2. CASE pc'[o] # "ok"
      BY <1>1, <1>5, <2>2 DEF Stage, Delivered, Answers
    <2> QED
      BY <2>1, <2>2
  <1>7. Stages' = [Stages EXCEPT ![o] = Stage(o)'] /\ Stages[o] = Stage(o)
    BY <1>0, StageMoves DEF Stages
  <1>8. Purses' = Purses
    BY <1>1, SameAccountsPurses
  <1>9. CASE Stage(o)' = Stage(o)
    <2>1. Stages' = Stages
      BY <1>7, <1>9 DEF Stages
    <2> QED
      BY <1>4, <1>8, <2>1, IsStutter DEF PromiseSteps
  <1>10. CASE Stage(o) \in {"gift", "paid"} /\ Stage(o)' = "delivered"
    BY <1>4, <1>7, <1>8, <1>10, IsDeliver DEF PromiseSteps, Staged
  <1> QED
    BY <1>6, <1>9, <1>10

LEMMA RefundPromises ==
  ASSUME WholeCredits, ApiInv, MoneyInv, PromiseInv, NEW o \in Ops, HandlerKept(o),
         RefundFailed(o)
  PROVE  PromiseSteps
  <1>0. /\ o \in MovementIds /\ OpUser[o] \in Users
        /\ \A d \in Ops \ {o} : Stays(d)
        /\ restarts' = restarts /\ BookKept
    BY ApiAssumption DEF MovementIds, HandlerKept
  <1>1. /\ api[o] = "scanning" /\ api'[o] = "failed" /\ pc[o] # "ok"
        /\ UNCHANGED <<source, pc, execRow>>
    BY DEF RefundFailed, Answer, ApiInv, serviceVars
  <1>2. UNCHANGED movements
    BY <1>0, RefundBooks DEF RefundFailed, ApiInv
  <1>3. PromiseInv'
    BY <1>0, <1>1, <1>2, AnswerPromises
  <1>4. /\ Stages' = [Stages EXCEPT ![o] = "over"]
        /\ Stages[o] = IF source[o] = "PROMO" THEN "gift" ELSE "paid"
    BY <1>0, <1>1, StageMoves DEF Stages, Stage, Delivered, Answers
  <1>5. CASE source[o] = "PROMO"
    <2>1. UNCHANGED accounts
      BY <1>5 DEF RefundFailed
    <2> QED
      BY <1>3, <1>4, <1>5, <2>1, SameAccountsPurses, IsDropGift DEF PromiseSteps, Staged
  <1>6. CASE source[o] # "PROMO"
    <2>1. /\ movements[o] # NoMovement /\ movements[o].user = OpUser[o] /\ o \notin refunded
          /\ source[o] \in {"FREE", "BALANCE"}
          /\ source[o] = "FREE" => movements[o].kind = "FREE_DEBIT"
      BY <1>1, <1>6 DEF MoneyInv, PromiseInv, ChargeOf, ApiInv, Sources
    <2>2. source[o] = "BALANCE" => movements[o].kind = "DEBIT" /\ movements[o].amount = Price
      BY DEF PromiseInv, PaidInFull
    <2>3. CanRefund(OpUser[o], o)
      BY <2>1, <2>2 DEF CanRefund
    <2>4. GivingBack(OpUser[o], o)
      BY <1>0, <1>6, <2>3, RefundBooks DEF RefundFailed, ApiInv
    <2>5. Purses' = [Purses EXCEPT ![OpUser[o]] = @ + 1]
      BY <1>0, <2>1, <2>2, <2>4, GivingOnce
    <2> QED
      BY <1>3, <1>4, <1>6, <2>5, IsGiveBack DEF PromiseSteps, Staged
  <1> QED
    BY <1>5, <1>6

\* What follows a result changes nothing that was promised.
LEMMA DonePromises ==
  ASSUME ApiInv, MoneyInv, PromiseInv, NEW o \in Ops, HandlerKept(o),
         Succeed(o) \/ Escape(o) \/ RecordUsage(o)
  PROVE  PromiseSteps
  <1>0. /\ \A d \in Ops \ {o} : Stays(d)
        /\ restarts' = restarts
    BY DEF HandlerKept
  <1>1. UNCHANGED <<accounts, source, pc, execRow, movements>>
    BY DEF Succeed, Escape, RecordUsage, serviceVars, moneyVars, settlementVars
  <1>2. pc[o] = "ok"
    BY DEF Succeed, Escape, RecordUsage, PromiseInv, RunsClean, PaidInFull
  <1>3. PromiseInv'
    BY <1>0, <1>1, <1>2, AnswerPromises
  <1>4. Stage(o)' = Stage(o)
    BY <1>1, <1>2 DEF Stage, Delivered
  <1>5. Stages' = Stages
    BY <1>0, <1>4, StageMoves DEF Stages
  <1> QED
    BY <1>1, <1>3, <1>5, SameAccountsPurses, IsStutter DEF PromiseSteps

\* A payment buys what its pack is worth, or nothing when it was settled before
\* or is too small.
LEMMA WebhookPromises ==
  ASSUME WholeCredits, ApiInv, MoneyInv, PromiseInv, NEW p \in Payments, Webhook(p)
  PROVE  PromiseSteps
  <1> DEFINE pack == PackOf[p]
             n == PackPrice[pack] + PackBonus[pack]
             u == PayerOf[p]
             tiered == p \notin settled /\ pack \in TierPacks
  <1>1. /\ n \in Nat /\ u \in Users /\ pack \in Packs /\ tiered \in BOOLEAN
        /\ Price \in Nat \ {0}
    BY SettlementAssumption DEF WholeCredits
  <1>2. PICK paid \in PaidAmounts : Settle(p, paid)
    BY DEF Webhook
  <1>3. UNCHANGED <<api, source, pc, execRow, restarts>>
    BY DEF Webhook, serviceVars
  <1>4. BookKept /\ \A o \in Ops : movements'[o] = movements[o]
    BY <1>2, SettleKeepsBooks
  <1>5. PromiseInv'
    BY <1>3, <1>4 DEF PromiseInv, RunsClean, PaidInFull
  <1>6. Stages' = Stages
    BY <1>3, StagesStay
  <1>7. CASE Underpaid(p, paid)
    <2>1. UNCHANGED accounts
      BY <1>2, <1>7 DEF Settle, settlementVars
    <2> QED
      BY <1>5, <1>6, <2>1, SameAccountsPurses, IsStutter DEF PromiseSteps
  <1>8. CASE ~Underpaid(p, paid)
    <2>1. TopUp(p, u, n, tiered)
      BY <1>2, <1>8 DEF Settle
    <2>2. /\ movements[p] # NoMovement => Quiet
          /\ movements[p] = NoMovement => Booking(u, p, "TOPUP", n)
      <3> HIDE DEF n, u, tiered
      <3> QED
        BY <1>1, <2>1, TopUpBooks DEF ApiInv
    <2>3. CASE movements[p] # NoMovement
      BY <1>5, <1>6, <2>2, <2>3, QuietPurses, IsStutter DEF PromiseSteps
    <2>4. CASE movements[p] = NoMovement
      <3>1. /\ OthersStay(u)
            /\ Require(u)'.balance = Require(u).balance + n
            /\ Require(u)'.free = Require(u).free
        <4> HIDE DEF n, u
        <4> QED
          BY <2>2, <2>4 DEF Booking
      <3>2. PICK c \in Nat : n = c * Price
        BY <1>1 DEF WholeCredits
      <3>3. Require(u).free \in Nat /\ Require(u).balance \in Nat
        BY <1>1, PurseTyped
      <3>4. n \div Price = c
        <4>1. (0 + c * Price) \div Price = (0 \div Price) + c
          BY <1>1, 0 \in Nat, DivAdds
        <4>2. 0 \div Price = 0
          BY <1>1, 0 * Price = 0, 0 \in Nat, DivUnique
        <4>3. c * Price \in Nat
          BY <1>1
        <4> HIDE DEF n
        <4> QED
          BY <3>2, <4>1, <4>2, <4>3
      <3>5. (Require(u).balance + n) \div Price = (Require(u).balance \div Price) + c
        <4>1. (Require(u).balance + c * Price) \div Price = (Require(u).balance \div Price) + c
          BY <1>1, <3>3, DivAdds
        <4> HIDE DEF n, u
        <4> QED
          BY <3>2, <4>1
      <3>6. Require(u)'.free + (Require(u)'.balance \div Price)
                = Purses[u] + (n \div Price)
        <4>1. Purses[u] = Require(u).free + (Require(u).balance \div Price)
          BY <1>1 DEF Purses
        <4>2. Require(u).balance \div Price \in Nat
          BY <1>1, <3>3, DivBounds
        <4> HIDE DEF n, u
        <4> QED
          BY <3>1, <3>3, <3>4, <3>5, <4>1, <4>2
      <3>7. Purses' = [Purses EXCEPT ![u] = Purses[u] + (n \div Price)]
        <4> HIDE DEF n, u
        <4> QED
          BY <1>1, <3>1, <3>6, PurseMoves
      <3>8. Promise!Next
        <4> HIDE DEF u, pack
        <4> QED
          BY <1>1, <1>6, <3>7, IsBuy
      <3> QED
        BY <1>5, <3>8 DEF PromiseSteps
    <2> QED
      BY <2>3, <2>4
  <1> QED
    BY <1>7, <1>8

\* Every user starts with the free scans as credits, every request new.
LEMMA PromiseStarts ==
  ASSUME WholeCredits, ApiInit
  PROVE  PromiseInv /\ Promise!Init
  <1>1. PromiseInv
    BY DEF ApiInit, PromiseInv, RunsClean, PaidInFull, Service!ScanStatus
  <1>2. Stages = [o \in Ops |-> "new"]
    <2>1. \A o \in Ops : Stage(o) = "new"
      BY DEF ApiInit, Stage, Delivered, Answers
    <2> QED
      BY <2>1 DEF Stages
  <1>3. Purses = [u \in Users |-> FreeScanGrant]
    <2>1. \A u \in Users : Require(u).free = FreeScanGrant /\ Require(u).balance = 0
      BY DEF ApiInit, SettlementInit, LedgerInit, Require, NewAccount
    <2>2. Price \in Nat \ {0} /\ FreeScanGrant \in Nat
      BY SettlementAssumption, LedgerAssumption DEF WholeCredits
    <2>3. 0 \div Price = 0
      BY <2>2, 0 * Price = 0, 0 \in Nat, DivUnique
    <2>4. \A u \in Users : Require(u).free + (Require(u).balance \div Price) = FreeScanGrant
      BY <2>1, <2>2, <2>3
    <2> QED
      BY <2>4 DEF Purses
  <1> QED
    BY <1>1, <1>2, <1>3 DEF Promise!Init, Purses, Stages

\* Midnight and the end of a promotion are none of its business; there are no
\* restarts.
LEMMA NextPromises ==
  ASSUME OnlyCaught, WholeCredits, ApiInv, MoneyInv, PromiseInv, [ApiNext]_apiVars
  PROVE  PromiseSteps
  <1>1. CASE \E o \in Ops : Enter(o)
    BY <1>1, EnterPromises
  <1>2. CASE \E o \in Ops : HandlerStep(o)
    <2>1. PICK o \in Ops : HandlerStep(o)
      BY <1>2
    <2>2. HandlerKept(o)
      BY <2>1, HandlerKeeps
    <2>3. CASE Admit(o) \/ CheckCap(o) \/ CannotPay(o)
      BY <2>2, <2>3, GatePromises
    <2>4. CASE ChargeAndIssue(o)
      BY <2>2, <2>4, ChargePromises
    <2>5. CASE IssueRow(o) \/ Scan(o)
      BY <2>2, <2>5, RunPromises
    <2>6. CASE RefundFailed(o)
      BY <2>2, <2>6, RefundPromises
    <2>7. CASE Succeed(o) \/ Escape(o) \/ RecordUsage(o)
      BY <2>2, <2>7, DonePromises
    <2> QED
      BY <2>1, <2>3, <2>4, <2>5, <2>6, <2>7 DEF HandlerStep
  <1>3. CASE \E p \in Payments : Webhook(p)
    BY <1>3, WebhookPromises
  <1>4. CASE PromoEnds \/ Midnight \/ UNCHANGED apiVars
    <2>1. UNCHANGED <<api, source, accounts, movements, pc, execRow, restarts>>
      BY <1>4 DEF PromoEnds, Midnight, apiVars, moneyVars, settlementVars, serviceVars
    <2>2. PromiseInv'
      BY <2>1 DEF PromiseInv, RunsClean, PaidInFull
    <2> QED
      BY <2>1, <2>2, SameAccountsPurses, StagesStay, IsStutter DEF PromiseSteps
  <1>5. CASE RestartProcess
    BY <1>5 DEF RestartProcess, Service!Restart, OnlyCaught, PromiseInv
  <1> QED
    BY <1>1, <1>2, <1>3, <1>4, <1>5 DEF ApiNext

\* POST /scan implements PaidScan as far as safety goes: whatever the handler,
\* the pipeline, the webhooks and the midnights do in whatever order, a user's
\* credits and scans move as PaidScan lets them, so every credit taken ends as a
\* result or comes back, when the only failures are those the code catches and
\* packs are worth whole scans.
THEOREM PromiseIsKept ==
  ASSUME OnlyCaught, WholeCredits
  PROVE  ApiSpec => Promise!Init /\ [][Promise!Next]_(Promise!vars)
  <1>1. ApiInit => PromiseInv /\ Promise!Init
    BY PromiseStarts
  <1>2. ApiInv /\ MoneyInv /\ PromiseInv /\ [ApiNext]_apiVars
            => PromiseInv' /\ [Promise!Next]_(Promise!vars)
    BY NextPromises DEF PromiseSteps
  <1> QED
    BY <1>1, <1>2, ApiSafe, PTL DEF ApiSpec

---------------------------------------------------------------------------
(* A failed scan is free *)

\* A gift books nothing, and whoever was answered without a result has no charge
\* standing.
FreeOf(o) ==
    /\ source[o] = "PROMO" => movements[o] = NoMovement
    /\ api[o] \in Answers \ {"served", "dropped"} /\ ~Delivered(o) => ~Charged(o)

FreeInv == \A o \in Ops : FreeOf(o)

\* What is given back stays given back.
LEMMA RefundsStand ==
  ASSUME ApiInv, [ApiNext]_apiVars, restarts' = restarts
  PROVE  refunded \subseteq refunded'
  <1>1. CASE \E o \in Ops : Enter(o)
    BY <1>1 DEF Enter, Register
  <1>2. CASE \E o \in Ops : HandlerStep(o)
    <2>1. PICK o \in Ops : HandlerStep(o)
      BY <1>2
    <2>2. CASE ChargeAndIssue(o)
      BY <2>2 DEF ChargeAndIssue, Charge
    <2>3. CASE RefundFailed(o)
      BY <2>3 DEF RefundFailed, Refund, ledgerStore
    <2>4. CASE ~(ChargeAndIssue(o) \/ RefundFailed(o))
      BY <2>1, <2>4 DEF HandlerStep, Admit, CheckCap, CannotPay, IssueRow, Scan, Succeed,
                        Escape, RecordUsage, moneyVars, settlementVars
    <2> QED
      BY <2>2, <2>3, <2>4
  <1>3. CASE \E p \in Payments : Webhook(p)
    BY <1>3, SettleKeepsBooks DEF Webhook
  <1>4. CASE PromoEnds \/ Midnight \/ UNCHANGED apiVars
    BY <1>4 DEF PromoEnds, Midnight, apiVars, moneyVars, settlementVars
  <1>5. CASE RestartProcess
    BY <1>5 DEF RestartProcess, Service!Restart, ApiInv
  <1> QED
    BY <1>1, <1>2, <1>3, <1>4, <1>5 DEF ApiNext

LEMMA FreeStays ==
  ASSUME NEW d \in Ops, FreeOf(d), Stays(d), refunded \subseteq refunded'
  PROVE  FreeOf(d)'
  BY DEF FreeOf, Stays, Delivered, Charged

\* The request that takes a step.
LEMMA FreeMoves ==
  ASSUME OnlyCaught, ApiInv, MoneyInv, PromiseInv, NEW o \in Ops, HandlerStep(o),
         HandlerKept(o), ChargeOf(o)', FreeOf(o)
  PROVE  FreeOf(o)'
  <1>1. source'[o] = "NONE" => movements'[o] = NoMovement
    BY DEF ChargeOf
  <1>2. ChargeOf(o) /\ RunsClean(o) /\ PaidInFull(o)
    BY DEF MoneyInv, PromiseInv
  <1>3. CASE Admit(o) \/ CheckCap(o) \/ CannotPay(o)
    <2>1. /\ api[o] \in {"entered", "checking", "admitted"}
          /\ UNCHANGED <<source, movements>>
      BY <1>3 DEF Admit, CheckCap, CannotPay, moneyVars, settlementVars
    <2> QED
      BY <1>1, <1>2, <2>1 DEF ChargeOf, FreeOf, Charged
  <1>4. CASE ChargeAndIssue(o)
    <2>1. api[o] = "admitted" /\ api'[o] = "issuing"
      BY <1>4 DEF ChargeAndIssue, Answer, ApiInv
    <2>2. movements[o] = NoMovement
      BY <1>2, <2>1 DEF ChargeOf
    <2>3. source'[o] = "PROMO" => UNCHANGED movements
      BY <1>4 DEF ChargeAndIssue, ApiInv
    <2> QED
      BY <2>1, <2>2, <2>3 DEF FreeOf, Answers
  <1>5. CASE IssueRow(o) \/ Scan(o)
    <2>1. UNCHANGED <<source, movements>> /\ api'[o] = "scanning"
      BY <1>5 DEF IssueRow, Scan, Answer, ApiInv, OnlyCaught, moneyVars, settlementVars
    <2> QED
      BY <2>1 DEF FreeOf, Answers
  <1>6. CASE RefundFailed(o)
    <2>1. UNCHANGED source /\ api[o] = "scanning" /\ o \in MovementIds /\ OpUser[o] \in Users
      BY <1>6, ApiAssumption DEF RefundFailed, MovementIds
    <2>2. UNCHANGED movements
      BY <1>6, <2>1, RefundBooks DEF RefundFailed, ApiInv
    <2>3. CASE source[o] = "PROMO"
      BY <2>1, <2>2, <2>3 DEF FreeOf, Charged
    <2>4. CASE source[o] # "PROMO"
      <3>1. CanRefund(OpUser[o], o)
        BY <1>2, <2>1, <2>4 DEF ChargeOf, PaidInFull, CanRefund, ApiInv, Sources
      <3>2. o \in refunded'
        BY <1>6, <2>4, <3>1 DEF RefundFailed, Refund
      <3> QED
        BY <2>1, <2>4, <3>2 DEF FreeOf, Charged
    <2> QED
      BY <2>3, <2>4
  <1>7. CASE Succeed(o) \/ Escape(o) \/ RecordUsage(o)
    <2>1. UNCHANGED <<source, movements, pc>>
      BY <1>7 DEF Succeed, Escape, RecordUsage, serviceVars, moneyVars, settlementVars
    <2>2. pc[o] = "ok"
      BY <1>2, <1>7 DEF Succeed, Escape, RecordUsage, RunsClean, PaidInFull
    <2> QED
      BY <2>1, <2>2 DEF FreeOf, Delivered
  <1> QED
    BY <1>3, <1>4, <1>5, <1>6, <1>7 DEF HandlerStep

LEMMA FreeNext ==
  ASSUME OnlyCaught, ApiInv, MoneyInv, MoneyInv', PromiseInv, PromiseInv', FreeInv,
         [ApiNext]_apiVars
  PROVE  FreeInv'
  <1>0. refunded \subseteq refunded'
    BY RefundsStand DEF PromiseInv
  <1>1. ASSUME NEW o \in Ops, Enter(o) PROVE FreeInv'
    <2>1. (\A d \in Ops \ {o} : Stays(d)) /\ source'[o] = source[o] /\ api[o] = "idle"
      BY <1>1, EnterKeeps DEF Enter
    <2>2. ChargeOf(o) /\ ChargeOf(o)'
      BY DEF MoneyInv, PromiseInv
    <2>3. FreeOf(o)'
      BY <2>1, <2>2 DEF ChargeOf, FreeOf, Charged
    <2> QED
      BY <1>0, <2>1, <2>3, FreeStays DEF FreeInv
  <1>2. ASSUME NEW o \in Ops, HandlerStep(o) PROVE FreeInv'
    <2>1. HandlerKept(o) /\ \A d \in Ops \ {o} : Stays(d)
      BY <1>2, HandlerKeeps DEF HandlerKept
    <2>2. FreeOf(o)'
      BY <1>2, <2>1, FreeMoves DEF MoneyInv, PromiseInv, FreeInv
    <2> QED
      BY <1>0, <2>1, <2>2, FreeStays DEF FreeInv
  <1>3. CASE (\E p \in Payments : Webhook(p)) \/ PromoEnds \/ Midnight \/ UNCHANGED apiVars
    <2>1. /\ UNCHANGED <<api, source, pc, refunded>>
          /\ \A o \in Ops : movements'[o] = movements[o]
      BY <1>3, SettleKeepsBooks
         DEF Webhook, PromoEnds, Midnight, apiVars, moneyVars, settlementVars, serviceVars
    <2> QED
      BY <2>1 DEF FreeInv, FreeOf, Delivered, Charged
  <1>4. CASE RestartProcess
    BY <1>4 DEF RestartProcess, Service!Restart, PromiseInv
  <1> QED
    BY <1>1, <1>2, <1>3, <1>4 DEF ApiNext

\* "a failed scan never costs the user": it is so, however requests and payments
\* meet, when the only failures are those the code catches.
THEOREM FailuresAreFree ==
  ASSUME OnlyCaught, WholeCredits
  PROVE  ApiSpec => []FailedScanIsFree
  <1>1. ApiInit => PromiseInv /\ FreeInv
    <2> SUFFICES ASSUME ApiInit PROVE PromiseInv /\ FreeInv
      OBVIOUS
    <2> QED
      BY PromiseStarts DEF ApiInit, FreeInv, FreeOf, Answers
  <1>2. ApiInv /\ MoneyInv /\ MoneyInv' /\ PromiseInv /\ FreeInv /\ [ApiNext]_apiVars
            => PromiseInv' /\ FreeInv'
    BY NextPromises, FreeNext DEF PromiseSteps
  <1>3. FreeInv => FailedScanIsFree
    BY DEF FreeInv, FreeOf, FailedScanIsFree
  <1> QED
    BY <1>1, <1>2, <1>3, ApiSafe, PTL DEF ApiSpec
=============================================================================
