----------------------------- MODULE MCAccounts -----------------------------
(* The settlements, the watch plans and the referrals are routes that share   *)
(* nothing but the ledger, and the repositories are what the rows of a scan   *)
(* are kept in: a behaviour is one of them, chosen at the start, and the run  *)
(* is as large as their sum.                                                  *)
EXTENDS WatchQuota, Referrals, Repositories, TLC

CONSTANTS alice, bob, p1, p2, small, command, PRO

\* A plain pack and one that grants the tier.
MCPayerOf == (p1 :> alice) @@ (p2 :> bob)
MCPackOf == (p1 :> small) @@ (p2 :> command)
MCPackPrice == (small :> 2) @@ (command :> 3)
MCPackBonus == (small :> 0) @@ (command :> 1)

\* A plan of one wallet and one of two.
MCPlanCost == (FREE :> 0) @@ (PRO :> 2)
MCMaxWallets == (FREE :> 1) @@ (PRO :> 2)

Symmetry == Permutations(Handlers) \cup Permutations(Wallets) \cup Permutations(Ids)

VARIABLE side

Init ==
    /\ SettlementInit
    /\ WatchInit
    /\ ReferralInit
    /\ RepositoriesInit
    /\ side \in {"ledger", "watch", "purchase", "referral", "rows"}
    /\ side # "rows" => table = "users"

Ledger(A) ==
    side = "ledger" /\ A /\ UNCHANGED <<side, watchVars, referralVars, storeVars>>

\* The quota of one user who never pays in, and the purchases of two who do:
\* the two meet in the plan's tier only.
AliceAlone == accounts'[bob] = NoAccount /\ \A p \in Payments : movements'[p] = NoMovement

PlansOnly ==
    /\ agreed \subseteq agreed'
    /\ \A r \in Handlers :
           handler'[r] # Idle => handler'[r].order \in [kind : {"plan"}, tier : {PRO}]

Watch(A) ==
    /\ A
    /\ \/ side = "watch" /\ AliceAlone
       \/ side = "purchase" /\ PlansOnly
    /\ UNCHANGED <<side, referralVars, storeVars>>

Referral(A) ==
    side = "referral" /\ A /\ UNCHANGED <<side, settlementVars, watchVars, storeVars>>

StoredRows(A) ==
    side = "rows" /\ A /\ UNCHANGED <<side, settlementVars, watchVars, referralVars>>

Next ==
    \/ Ledger(SettlementNext)
    \/ Watch(WatchNext)
    \/ Referral(ReferralNext)
    \/ StoredRows(RepositoriesNext)

Spec == Init /\ [][Next]_<<settlementVars, watchVars, referralVars, storeVars, side>>
=============================================================================
