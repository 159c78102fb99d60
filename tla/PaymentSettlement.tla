------------------------- MODULE PaymentSettlement -------------------------
(***************************************************************************)
(* PaymentWebhookService: a verified provider event credits the pack it    *)
(* pays for.  The provider may deliver an event several times, late and in *)
(* any order with the user's charges and refunds.                          *)
(***************************************************************************)
EXTENDS BalanceLedger

CONSTANTS
    PayerOf,     \* [Payments -> Users]
    PackOf,      \* [Payments -> Packs]
    Packs,
    PackPrice,   \* [Packs -> Nat]
    PackBonus,   \* [Packs -> Nat]
    TierPacks,   \* the packs whose grantsTier is COMMAND
    Price,       \* priceOf the capability the ledger's users are charged for
    PaidAmounts  \* amounts a provider event may report

ASSUME SettlementAssumption ==
    /\ PayerOf \in [Payments -> Users]
    /\ PackOf \in [Payments -> Packs]
    /\ PackPrice \in [Packs -> Nat]
    /\ PackBonus \in [Packs -> Nat]
    /\ TierPacks \subseteq Packs
    /\ Price \in Nat
    /\ PaidAmounts \subseteq Nat

VARIABLE settled   \* providerTxIds seen by this process

settlementVars == <<accounts, movements, refunded, settled>>

Underpaid(p, paid) == paid < PackPrice[PackOf[p]]

\* Mutant: the event is marked as seen before the amount is verified.
SettleMarkedFirst(p, paid) ==
    LET pack == PackOf[p]
    IN  /\ settled' = settled \cup {p}
        /\ IF Underpaid(p, paid)
           THEN UNCHANGED ledgerStore
           ELSE TopUp(p, PayerOf[p], PackPrice[pack] + PackBonus[pack],
                      p \notin settled /\ pack \in TierPacks)

\* Credit base and bonus of the pack; the tier only the first time.
Settle(p, paid) ==
    LET pack == PackOf[p]
    IN  IF Underpaid(p, paid)
        THEN UNCHANGED settlementVars
        ELSE /\ TopUp(p, PayerOf[p], PackPrice[pack] + PackBonus[pack],
                      p \notin settled /\ pack \in TierPacks)
             /\ settled' = settled \cup {p}

SettlementInit == LedgerInit /\ settled = {}

SettlementNext ==
    \/ \E p \in Payments, paid \in PaidAmounts : Settle(p, paid)
    \/ \E u \in Users : Register(u) /\ UNCHANGED settled
    \/ \E u \in Users, o \in Ops, free \in BOOLEAN :
           Charge(u, o, Price, free) /\ UNCHANGED settled
    \/ \E u \in Users, i \in MovementIds : Refund(u, i) /\ UNCHANGED settled

SettlementSpec == SettlementInit /\ [][SettlementNext]_settlementVars

---------------------------------------------------------------------------
(* Properties *)

\* A payment is settled exactly when its credit is booked, to the payer and for
\* the pack's price and bonus; and COMMAND is bought: whoever has it paid for a
\* pack that grants it, and whoever paid for one has it, whatever was replayed.
SettledIsCredited ==
    /\ \A p \in Payments :
        /\ p \in settled <=> movements[p] # NoMovement
        /\ p \in settled =>
             /\ movements[p].user = PayerOf[p]
             /\ movements[p].amount = PackPrice[PackOf[p]] + PackBonus[PackOf[p]]
    /\ \A u \in Users :
        Require(u).tier = "COMMAND" <=>
            \E p \in settled : PayerOf[p] = u /\ PackOf[p] \in TierPacks
=============================================================================
