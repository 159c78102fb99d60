--------------------------- MODULE BalanceLedger ---------------------------
(***************************************************************************)
(* BalanceLedger: prepaid balance, one-time free scans and tier per user,  *)
(* with one immutable movement per top-up and per charge.  Every operation *)
(* is synchronous, so each is one action; callers may repeat any of them,  *)
(* in any order and for any id.                                            *)
(***************************************************************************)
EXTENDS Naturals, FiniteSets, Functions

CONSTANTS
    Users,
    Ops,            \* opIds of charges
    Payments,       \* providerTxIds of top-ups; movement id "topup:<tx>"
    FreeScanGrant,  \* FREE_SCAN_GRANT
    NoAccount,      \* accounts has no entry for the user
    NoMovement      \* movements has no entry for the id

MovementIds == Ops \cup Payments

VARIABLES
    accounts,   \* accounts, by user
    movements,  \* movements, by id; the REFUND movements are the set refunded
    refunded    \* opIds refunded

ledgerStore == <<accounts, movements, refunded>>

AccountTier == {"STANDARD", "COMMAND"}
Account     == [balance : Nat, free : Nat, tier : AccountTier]
Movement    == [user : Users, kind : {"TOPUP", "DEBIT", "FREE_DEBIT"}, amount : Nat]

ASSUME LedgerAssumption ==
    /\ FreeScanGrant \in Nat
    /\ Ops \cap Payments = {}
    /\ IsFiniteSet(MovementIds)
    /\ NoAccount \notin Account
    /\ NoMovement \notin Movement

LedgerTypeOK ==
    /\ accounts \in [Users -> Account \cup {NoAccount}]
    /\ movements \in [MovementIds -> Movement \cup {NoMovement}]
    /\ refunded \subseteq MovementIds

LedgerInit ==
    /\ accounts = [u \in Users |-> NoAccount]
    /\ movements = [i \in MovementIds |-> NoMovement]
    /\ refunded = {}

NewAccount == [balance |-> 0, free |-> FreeScanGrant, tier |-> "STANDARD"]

\* Mutant: registering again starts over.
RequireFresh(u) == IF u \in Users THEN NewAccount ELSE accounts[u]

\* Operations open an account that does not exist yet, with the free grant.
Require(u) == IF accounts[u] = NoAccount THEN NewAccount ELSE accounts[u]

SetAccount(u, a) == accounts' = [accounts EXCEPT ![u] = a]

Record(id, u, kind, amount) ==
    movements' = [movements EXCEPT ![id] = [user |-> u, kind |-> kind, amount |-> amount]]

---------------------------------------------------------------------------

Register(u) == SetAccount(u, Require(u)) /\ UNCHANGED <<movements, refunded>>

\* topUp, and the setTier its caller applies in the same step when tiered.
TopUp(p, u, amount, tiered) ==
    LET a  == Require(u)
        b  == [a EXCEPT !.tier = IF tiered THEN "COMMAND" ELSE @]
    IN  /\ IF movements[p] = NoMovement
           THEN /\ SetAccount(u, [b EXCEPT !.balance = @ + amount])
                /\ Record(p, u, "TOPUP", amount)
           ELSE SetAccount(u, b) /\ UNCHANGED movements
        /\ UNCHANGED refunded

\* charge answers ok: it is a replay, or the user has a free scan or the money.
CanCharge(u, op, price, allowFree) ==
    \/ movements[op] # NoMovement
    \/ allowFree /\ Require(u).free > 0
    \/ Require(u).balance >= price

\* A replay changes nothing; otherwise free scans go first.
Charge(u, op, price, allowFree) ==
    LET a == Require(u)
    IN  /\ CanCharge(u, op, price, allowFree)
        /\ IF movements[op] # NoMovement
           THEN UNCHANGED <<accounts, movements>>
           ELSE IF allowFree /\ a.free > 0
           THEN /\ SetAccount(u, [a EXCEPT !.free = @ - 1])
                /\ Record(op, u, "FREE_DEBIT", 0)
           ELSE /\ SetAccount(u, [a EXCEPT !.balance = @ - price])
                /\ Record(op, u, "DEBIT", price)
        /\ UNCHANGED refunded

\* Mutant: a charge can be given back again.
CanRefundAgain(u, id) ==
    /\ movements[id] # NoMovement
    /\ movements[id].user = u
    /\ movements[id].kind \in {"DEBIT", "FREE_DEBIT"}

\* Mutant: the charge of another user is given back to this one.
CanRefundForeign(u, id) ==
    /\ u \in Users
    /\ movements[id] # NoMovement
    /\ id \notin refunded
    /\ movements[id].kind \in {"DEBIT", "FREE_DEBIT"}

\* Mutant: only money is given back.
CanRefundDebit(u, id) ==
    /\ movements[id] # NoMovement
    /\ movements[id].user = u
    /\ id \notin refunded
    /\ movements[id].kind = "DEBIT"

\* Who may be refunded: the user of a charge, once.
CanRefund(u, id) ==
    /\ movements[id] # NoMovement
    /\ movements[id].user = u
    /\ id \notin refunded
    /\ movements[id].kind \in {"DEBIT", "FREE_DEBIT"}

\* Every other refund is answered without a change.
Refund(u, id) ==
    LET a == Require(u)
    IN  IF CanRefund(u, id)
        THEN /\ SetAccount(u, IF movements[id].kind = "FREE_DEBIT"
                              THEN [a EXCEPT !.free = @ + 1]
                              ELSE [a EXCEPT !.balance = @ + movements[id].amount])
             /\ refunded' = refunded \cup {id}
             /\ UNCHANGED movements
        ELSE UNCHANGED ledgerStore

---------------------------------------------------------------------------
(* Properties *)

\* A charge that stands: made and not given back.
Standing(id, kind) ==
    movements[id] # NoMovement /\ movements[id].kind = kind /\ id \notin refunded

MovementsOf(u, kind) ==
    {i \in MovementIds : Standing(i, kind) /\ movements[i].user = u}

Amounts == [i \in MovementIds |-> IF movements[i] = NoMovement THEN 0 ELSE movements[i].amount]

\* The sum of w over the ids.
SumOver(w, ids) ==
    LET sum[s \in SUBSET DOMAIN w] ==
            IF s = {} THEN 0 ELSE LET i == CHOOSE x \in s : TRUE IN w[i] + sum[s \ {i}]
    IN sum[ids]

Total(ids) == SumOver(Amounts, ids)

\* The audit trail explains every account: what was topped up is the balance
\* plus the debits that stand, and the grant is the free scans left plus the
\* free debits that stand - under replays, foreign ids and repeated refunds.
BooksBalance ==
    \A u \in Users :
        /\ Total(MovementsOf(u, "TOPUP")) =
               Require(u).balance + Total(MovementsOf(u, "DEBIT"))
        /\ FreeScanGrant = Require(u).free + Cardinality(MovementsOf(u, "FREE_DEBIT"))

\* What a step may do to u's account: see AccountsMoveByTheBook.
MovedByTheBook(u) ==
    LET a == Require(u)
        b == Require(u)'
        Booked(i, kind, amount) ==
            movements[i] = NoMovement
            /\ movements'[i] = [user |-> u, kind |-> kind, amount |-> amount]
        GivenBack(i, kind) ==
            /\ Standing(i, kind) /\ movements[i].user = u /\ i \in refunded'
    IN  /\ b.balance > a.balance =>
             \E i \in MovementIds :
                \/ Booked(i, "TOPUP", b.balance - a.balance)
                \/ GivenBack(i, "DEBIT") /\ movements[i].amount = b.balance - a.balance
        /\ b.balance < a.balance =>
             \E i \in MovementIds : Booked(i, "DEBIT", a.balance - b.balance)
        /\ b.free > a.free =>
             b.free = a.free + 1 /\ \E i \in MovementIds : GivenBack(i, "FREE_DEBIT")
        /\ b.free < a.free =>
             b.free = a.free - 1 /\ \E i \in MovementIds : Booked(i, "FREE_DEBIT", 0)

\* No step moves money or free scans by itself: an account changes only by the
\* amount of a movement booked for it, or of one of its own charges given back,
\* in the same step (each opId at most once: booked ids stay booked).
AccountsMoveByTheBook == [][\A u \in Users : MovedByTheBook(u)]_ledgerStore
=============================================================================
