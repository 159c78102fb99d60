--------------------------- MODULE Accounts_proofs ---------------------------
(***************************************************************************)
(* Theorems about the settlement of payments, the referral routes and the  *)
(* wallet-watch routes, for any users, payments, packs, plans and wallets, *)
(* any clock, and any order of the events and of the queries of requests   *)
(* that run at once.                                                       *)
(***************************************************************************)
EXTENDS BalanceLedger_proofs, PaymentSettlement, WatchQuota, Referrals

---------------------------------------------------------------------------
(* Settlement *)

SettlementInv ==
    /\ LedgerInv
    /\ settled \subseteq Payments
    /\ BooksBalance
    /\ SettledIsCredited

LEMMA SettlementInitSafe == SettlementInit => SettlementInv
  <1> SUFFICES ASSUME SettlementInit PROVE SettlementInv
    OBVIOUS
  <1>1. LedgerInv /\ settled = {}
    BY LedgerInitSafe DEF SettlementInit
  <1>2. \A u \in Users : Require(u) = NewAccount
    BY DEF SettlementInit, LedgerInit, Require
  <1>3. SettledIsCredited
    BY <1>1, <1>2
       DEF SettledIsCredited, SettlementInit, LedgerInit, NewAccount, MovementIds
  <1> QED
    BY <1>1, <1>3, LedgerInitBalances DEF SettlementInit, SettlementInv

\* A settlement tops up its payer once, and grants the tier of its pack.
LEMMA SettleBooks ==
  ASSUME SettlementInv, NEW p \in Payments, NEW paid \in PaidAmounts, Settle(p, paid),
         ~Underpaid(p, paid)
  PROVE  /\ accounts' \in [Users -> Account \cup {NoAccount}]
         /\ settled' = settled \cup {p}
         /\ BookStep
         /\ p \in settled => UNCHANGED movements
         /\ p \notin settled =>
              Booking(PayerOf[p], p, "TOPUP", PackPrice[PackOf[p]] + PackBonus[PackOf[p]])
         /\ OthersStay(PayerOf[p])
         /\ Require(PayerOf[p])'.tier =
              IF p \notin settled /\ PackOf[p] \in TierPacks
              THEN "COMMAND" ELSE Require(PayerOf[p]).tier
  <1> DEFINE n == PackPrice[PackOf[p]] + PackBonus[PackOf[p]]
             tiered == p \notin settled /\ PackOf[p] \in TierPacks
             u == PayerOf[p]
  <1>1. n \in Nat /\ u \in Users /\ tiered \in BOOLEAN /\ p \in MovementIds
    BY SettlementAssumption DEF MovementIds
  <1>2. TopUp(p, u, n, tiered) /\ settled' = settled \cup {p}
    BY DEF Settle
  <1>3. p \in settled <=> movements[p] # NoMovement
    BY DEF SettlementInv, SettledIsCredited
  <1>4. LedgerInv
    BY DEF SettlementInv
  <1>5. /\ accounts' \in [Users -> Account \cup {NoAccount}]
        /\ movements[p] # NoMovement => Quiet
        /\ movements[p] = NoMovement => Booking(u, p, "TOPUP", n)
        /\ OthersStay(u)
        /\ Require(u)'.tier = IF tiered THEN "COMMAND" ELSE Require(u).tier
    <2> HIDE DEF n, u, tiered
    <2> QED
      BY <1>1, <1>2, <1>4, TopUpBooks
  <1>6. BookStep
    <2> HIDE DEF n, u, tiered
    <2> QED
      BY <1>1, <1>5 DEF BookStep
  <1> QED
    BY <1>2, <1>3, <1>5, <1>6 DEF Quiet

\* The other operations leave payments and tiers alone.
LEMMA TierlessSafe ==
  ASSUME SettlementInv, settled' = settled,
         \A p \in Payments : movements'[p] = movements[p],
         \A u \in Users : Require(u)'.tier = Require(u).tier
  PROVE  SettledIsCredited'
  BY DEF SettlementInv, SettledIsCredited

LEMMA SettlementStepBooks ==
  ASSUME SettlementInv, [SettlementNext]_settlementVars
  PROVE  /\ accounts' \in [Users -> Account \cup {NoAccount}]
         /\ BookStep
         /\ settled' \subseteq Payments
         /\ SettledIsCredited'
  <1> USE DEF SettlementInv
  <1> DEFINE Goal == /\ accounts' \in [Users -> Account \cup {NoAccount}]
                     /\ BookStep
                     /\ settled' \subseteq Payments
                     /\ SettledIsCredited'
  <1>1. ASSUME UNCHANGED settlementVars PROVE Goal
    <2>1. Quiet
      BY <1>1 DEF settlementVars, Quiet, Require
    <2> QED
      BY <1>1, <2>1 DEF settlementVars, BookStep, LedgerInv, LedgerTypeOK,
                        SettledIsCredited, Require
  <1>2. ASSUME NEW p \in Payments, NEW paid \in PaidAmounts, Settle(p, paid)
        PROVE  Goal
    <2>1. CASE Underpaid(p, paid)
      BY <1>1, <1>2, <2>1 DEF Settle
    <2>2. CASE ~Underpaid(p, paid)
      <3>1. PayerOf[p] \in Users /\ p \in MovementIds
            /\ PackPrice[PackOf[p]] + PackBonus[PackOf[p]] \in Nat
        BY SettlementAssumption DEF MovementIds
      <3>2. /\ accounts' \in [Users -> Account \cup {NoAccount}]
            /\ settled' = settled \cup {p}
            /\ BookStep
            /\ p \in settled => UNCHANGED movements
            /\ p \notin settled =>
                 Booking(PayerOf[p], p, "TOPUP", PackPrice[PackOf[p]] + PackBonus[PackOf[p]])
            /\ OthersStay(PayerOf[p])
            /\ Require(PayerOf[p])'.tier =
                 IF p \notin settled /\ PackOf[p] \in TierPacks
                 THEN "COMMAND" ELSE Require(PayerOf[p]).tier
        BY <1>2, <2>2, SettleBooks
      <3>3. ASSUME p \notin settled
            PROVE  /\ movements'[p] = [user |-> PayerOf[p], kind |-> "TOPUP",
                                       amount |-> PackPrice[PackOf[p]] + PackBonus[PackOf[p]]]
                   /\ movements'[p] # NoMovement
                   /\ \A q \in MovementIds : q # p => movements'[q] = movements[q]
        <4> DEFINE n == PackPrice[PackOf[p]] + PackBonus[PackOf[p]]
        <4>1. Record(p, PayerOf[p], "TOPUP", n)
          BY <3>2, <3>3 DEF Booking
        <4>2. n \in Nat /\ LedgerTypeOK
          BY <3>1 DEF LedgerInv
        <4> HIDE DEF n
        <4>3. /\ movements'[p] = [user |-> PayerOf[p], kind |-> "TOPUP", amount |-> n]
              /\ movements'[p] # NoMovement
              /\ \A q \in MovementIds : q # p => movements'[q] = movements[q]
          BY <3>1, <4>1, <4>2, RecordTyped
        <4> QED
          BY <4>3 DEF n
      <3>4. /\ movements'[p] # NoMovement
            /\ movements'[p].user = PayerOf[p]
            /\ movements'[p].amount = PackPrice[PackOf[p]] + PackBonus[PackOf[p]]
            /\ \A q \in Payments : q # p => movements'[q] = movements[q]
        <4>1. CASE p \in settled
          BY <3>2, <4>1 DEF SettledIsCredited
        <4>2. CASE p \notin settled
          BY <3>3, <4>2 DEF MovementIds
        <4> QED
          BY <4>1, <4>2
      <3>5. \A u \in Users :
              Require(u)'.tier = "COMMAND" <=>
                  \E q \in settled' : PayerOf[q] = u /\ PackOf[q] \in TierPacks
        BY <3>2 DEF OthersStay, SettledIsCredited
      <3> QED
        BY <3>2, <3>4, <3>5 DEF SettledIsCredited
    <2> QED
      BY <2>1, <2>2
  <1>3. ASSUME NEW u \in Users, Register(u), UNCHANGED settled
        PROVE  Goal
    <2>1. Quiet /\ accounts' \in [Users -> Account \cup {NoAccount}]
      BY <1>3, RegisterBooks
    <2>2. \A v \in Users : Require(v)'.tier = Require(v).tier
      BY <1>3, RequireTyped, SetAccountRequire DEF Register, LedgerInv
    <2> QED
      BY <1>3, <2>1, <2>2, TierlessSafe DEF BookStep, Quiet
  <1>4. ASSUME NEW u \in Users, NEW o \in Ops, NEW free \in BOOLEAN,
               Charge(u, o, Price, free), UNCHANGED settled
        PROVE  Goal
    <2>1. Price \in Nat /\ o \in MovementIds /\ \A p \in Payments : p # o /\ p \in MovementIds
      BY SettlementAssumption, LedgerAssumption DEF MovementIds
    <2>2. /\ accounts' \in [Users -> Account \cup {NoAccount}]
          /\ \A v \in Users : Require(v)'.tier = Require(v).tier
          /\ movements[o] # NoMovement => Quiet
          /\ movements[o] = NoMovement =>
               Booking(u, o, "FREE_DEBIT", 0) \/ Booking(u, o, "DEBIT", Price)
      BY <1>4, <2>1, ChargeBooks
    <2>3. BookStep
      BY <2>1, <2>2 DEF BookStep
    <2>4. \A p \in Payments : movements'[p] = movements[p]
      BY <2>1, <2>2, RecordTyped DEF Quiet, Booking, LedgerInv
    <2> QED
      BY <1>4, <2>2, <2>3, <2>4, TierlessSafe
  <1>5. ASSUME NEW u \in Users, NEW i \in MovementIds, Refund(u, i), UNCHANGED settled
        PROVE  Goal
    <2>1. /\ accounts' \in [Users -> Account \cup {NoAccount}]
          /\ UNCHANGED movements
          /\ \A v \in Users : Require(v)'.tier = Require(v).tier
          /\ CanRefund(u, i) => GivingBack(u, i)
          /\ ~CanRefund(u, i) => Quiet
      BY <1>5, RefundBooks
    <2>2. BookStep
      BY <2>1 DEF BookStep
    <2> QED
      BY <1>5, <2>1, <2>2, TierlessSafe
  <1> QED
    BY <1>1, <1>2, <1>3, <1>4, <1>5 DEF SettlementNext

LEMMA SettlementStepSafe ==
  SettlementInv /\ [SettlementNext]_settlementVars => SettlementInv'
  <1> SUFFICES ASSUME SettlementInv, [SettlementNext]_settlementVars PROVE SettlementInv'
    OBVIOUS
  <1>1. /\ accounts' \in [Users -> Account \cup {NoAccount}]
        /\ BookStep
        /\ settled' \subseteq Payments
        /\ SettledIsCredited'
    BY SettlementStepBooks
  <1>2. LedgerInv'
    BY <1>1, BookStepSafe DEF SettlementInv
  <1>3. BooksBalance'
    BY <1>1, <1>2, BookStepBalances DEF SettlementInv
  <1> QED
    BY <1>1, <1>2, <1>3 DEF SettlementInv

LEMMA SettlementSafe == SettlementSpec => []SettlementInv
  BY SettlementInitSafe, SettlementStepSafe, PTL DEF SettlementSpec

\* The audit trail explains every account, however events, charges and refunds
\* are replayed: BalanceLedger.charge, refund and topUp.
THEOREM BooksAlwaysBalance == SettlementSpec => []BooksBalance
  <1>1. SettlementInv => BooksBalance
    BY DEF SettlementInv
  <1> QED
    BY <1>1, SettlementSafe, PTL

\* A payment is credited once, and exactly those who paid for it have the tier:
\* PaymentWebhookService.settle.
THEOREM CreditedOnce == SettlementSpec => []SettledIsCredited
  <1>1. SettlementInv => SettledIsCredited
    BY DEF SettlementInv
  <1> QED
    BY <1>1, SettlementSafe, PTL

\* An account never changes but by a movement booked or given back in that step.
THEOREM MovedOnlyByTheBook == SettlementSpec => AccountsMoveByTheBook
  <1>1. SettlementInv /\ [SettlementNext]_settlementVars =>
            [\A u \in Users : MovedByTheBook(u)]_ledgerStore
    BY SettlementStepBooks, BookStepMoves DEF SettlementInv
  <1> QED
    BY <1>1, SettlementSafe, PTL DEF SettlementSpec, AccountsMoveByTheBook

---------------------------------------------------------------------------
(* Referrals: one request wins a milestone, and issues it or loses it. *)

\* The types of the referral tables and of the running requests.
ReferralTypeOK ==
    /\ inviter \in [People -> People \cup {NoOne}]
    /\ granted \in [People -> SUBSET Milestones]
    /\ rewards \in [People -> [Milestones -> Nat]]
    /\ rewarder \in [Rewarders ->
          {NoRequest}
            \cup [at : {"read"}, user : People, todo : SUBSET Milestones]
            \cup [at : {"mark", "issue"}, user : People, todo : (SUBSET Milestones) \ {{}}]]

\* A request works on milestones its user has reached.
AsksForEarned ==
    \A r \in Rewarders :
        rewarder[r] # NoRequest => rewarder[r].todo \subseteq Earned(Invited(rewarder[r].user))

\* A milestone that is being issued is claimed, by this request alone, and
\* nothing has been issued for it; nor for one that was lost.
IssuesOnce ==
    /\ \A r \in Rewarders, u \in People, m \in Milestones :
          <<u, m>> \in Unissued(r) =>
              /\ m \in granted[u] /\ rewards[u][m] = 0 /\ <<u, m>> \notin lost
              /\ \A s \in Rewarders : <<u, m>> \in Unissued(s) => s = r
    /\ \A u \in People, m \in Milestones :
          <<u, m>> \in lost => m \in granted[u] /\ rewards[u][m] = 0

ReferralInv == ReferralTypeOK /\ AsksForEarned /\ IssuesOnce /\ RewardsHonest

LEMMA SmallestMilestone ==
  ASSUME NEW S \in SUBSET Milestones, S # {}
  PROVE  Min(S) \in S
  <1>1. S \subseteq Nat
    BY FS_CardinalityType, ReferralAssumption DEF Milestones
  <1>2. \E x \in S : \A y \in S : x <= y
    BY <1>1, SmallestNumber
  <1> QED
    BY <1>2, Zenon DEF Min

LEMMA EarnedGrows ==
  ASSUME NEW k \in Nat, NEW n \in Nat, k <= n
  PROVE  Earned(k) \subseteq Earned(n)
  BY FS_CardinalityType, ReferralAssumption DEF Milestones, Earned

\* Nobody is ever uninvited.
LEMMA InvitedGrows ==
  ASSUME NEW u \in People,
         \A i \in People : inviter[i] = u => inviter'[i] = u
  PROVE  Invited(u) \in Nat /\ Invited(u)' \in Nat /\ Invited(u) <= Invited(u)'
  <1> DEFINE before == {i \in People : inviter[i] = u}
             after  == {i \in People : inviter'[i] = u}
  <1>1. before \in SUBSET after /\ after \in SUBSET People /\ IsFiniteSet(People)
    BY ReferralAssumption
  <1>2. IsFiniteSet(after)
    BY <1>1, FS_Subset
  <1>3. IsFiniteSet(before) /\ Cardinality(before) <= Cardinality(after)
    BY <1>1, <1>2, FS_Subset
  <1>4. Cardinality(before) \in Nat /\ Cardinality(after) \in Nat
    BY <1>2, <1>3, FS_CardinalityType
  <1> QED
    BY <1>3, <1>4 DEF Invited

LEMMA ReferralInitSafe == ReferralInit => ReferralInv
  BY ReferralAssumption
     DEF ReferralInit, ReferralInv, ReferralTypeOK, AsksForEarned, IssuesOnce,
         RewardsHonest, HonestlyRewarded, Unissued, NoRequest

\* What a step does to the invitations leaves the invariant true.
LEMMA InvitesSafe ==
  ASSUME ReferralInv, UNCHANGED <<granted, rewards, lost>>,
         inviter' \in [People -> People \cup {NoOne}],
         \A u, i \in People : inviter[i] = u => inviter'[i] = u,
         UNCHANGED rewarder
  PROVE  ReferralInv'
  <1>1. \A u \in People : Invited(u) \in Nat /\ Invited(u)' \in Nat /\ Invited(u) <= Invited(u)'
    BY InvitedGrows
  <1>2. Milestones \subseteq Nat
    BY FS_CardinalityType, ReferralAssumption DEF Milestones
  <1>3. ReferralTypeOK'
    BY DEF ReferralInv, ReferralTypeOK
  <1>4. AsksForEarned'
    <2> SUFFICES ASSUME NEW r \in Rewarders, NEW u \in People,
                        rewarder[r] # NoRequest, rewarder[r].user = u
                 PROVE  rewarder[r].todo \subseteq Earned(Invited(u)')
      BY <1>3 DEF AsksForEarned, ReferralTypeOK
    <2>1. rewarder[r].todo \subseteq Earned(Invited(u))
      BY DEF ReferralInv, AsksForEarned
    <2>2. Earned(Invited(u)) \subseteq Earned(Invited(u)')
      BY <1>1, EarnedGrows
    <2> QED
      BY <2>1, <2>2
  <1>5. IssuesOnce'
    BY DEF ReferralInv, IssuesOnce, Unissued
  <1>6. \A r \in Rewarders : Unissued(r)' = Unissued(r)
    BY DEF Unissued
  <1>7. RewardsHonest'
    <2> SUFFICES ASSUME NEW u \in People, NEW m \in Milestones
                 PROVE  HonestlyRewarded(u, m)'
      BY DEF RewardsHonest
    <2>1. HonestlyRewarded(u, m)
      BY DEF ReferralInv, RewardsHonest
    <2>2. m <= Invited(u) => m <= Invited(u)'
      BY <1>1, <1>2
    <2> QED
      BY <1>6, <2>1, <2>2 DEF HonestlyRewarded
  <1> QED
    BY <1>3, <1>4, <1>5, <1>7 DEF ReferralInv

\* A running request and what it has not issued yet.
LEMMA RewarderTyped ==
  ASSUME ReferralInv, NEW r \in Rewarders, rewarder[r] # NoRequest
  PROVE  /\ rewarder[r].user \in People
         /\ rewarder[r].at \in {"read", "mark", "issue"}
         /\ rewarder[r].todo \in SUBSET Milestones
         /\ rewarder[r].at # "read" =>
              Min(rewarder[r].todo) \in rewarder[r].todo
  <1>1. rewarder[r].at # "read" => rewarder[r].todo # {}
    BY DEF ReferralInv, ReferralTypeOK
  <1>2. rewarder[r].todo \in SUBSET Milestones
    BY DEF ReferralInv, ReferralTypeOK
  <1> QED
    BY <1>1, <1>2, SmallestMilestone DEF ReferralInv, ReferralTypeOK

\* A request that is not issuing may move to any other place where it is not.
LEMMA AskingSafe ==
  ASSUME ReferralInv, NEW r \in Rewarders, NEW q,
         UNCHANGED <<inviter, granted, rewards, lost>>,
         rewarder' = [rewarder EXCEPT ![r] = q],
         rewarder[r].at # "issue",
         \/ q = NoRequest
         \/ /\ q \in [at : {"read"}, user : People, todo : SUBSET Milestones]
               \cup [at : {"mark"}, user : People, todo : (SUBSET Milestones) \ {{}}]
            /\ q.todo \subseteq Earned(Invited(q.user))
  PROVE  ReferralInv'
  <1>1. \A u \in People : Invited(u)' = Invited(u)
    BY DEF Invited
  <1>2. ReferralTypeOK'
    BY DEF ReferralInv, ReferralTypeOK
  <1>3. rewarder'[r] = q /\ \A s \in Rewarders : s # r => rewarder'[s] = rewarder[s]
    BY DEF ReferralInv, ReferralTypeOK
  <1>4. \A s \in Rewarders : Unissued(s)' = Unissued(s)
    BY <1>3 DEF Unissued, NoRequest
  <1>5. AsksForEarned'
    <2> SUFFICES ASSUME NEW s \in Rewarders, NEW u \in People,
                        rewarder'[s] # NoRequest, rewarder'[s].user = u
                 PROVE  rewarder'[s].todo \subseteq Earned(Invited(u)')
      BY <1>2 DEF AsksForEarned, ReferralTypeOK
    <2>1. rewarder'[s].todo \subseteq Earned(Invited(u))
      BY <1>3 DEF ReferralInv, AsksForEarned
    <2> QED
      BY <1>1, <2>1
  <1>6. IssuesOnce'
    BY <1>4 DEF ReferralInv, IssuesOnce
  <1>7. RewardsHonest'
    <2> SUFFICES ASSUME NEW u \in People, NEW m \in Milestones
                 PROVE  HonestlyRewarded(u, m)'
      BY DEF RewardsHonest
    <2>1. HonestlyRewarded(u, m)
      BY DEF ReferralInv, RewardsHonest
    <2> QED
      BY <1>1, <1>4, <2>1 DEF HonestlyRewarded
  <1> QED
    BY <1>2, <1>5, <1>6, <1>7 DEF ReferralInv

\* A request that proceeds goes on with what it has left, or ends.
LEMMA ProceedTyped ==
  ASSUME ReferralInv, NEW r \in Rewarders, rewarder[r] # NoRequest,
         NEW left \in SUBSET rewarder[r].todo, Proceed(r, left)
  PROVE  \E next :
            /\ rewarder' = [rewarder EXCEPT ![r] = next]
            /\ \/ next = NoRequest
               \/ /\ next \in [at : {"read"}, user : People, todo : SUBSET Milestones]
                     \cup [at : {"mark"}, user : People, todo : (SUBSET Milestones) \ {{}}]
                  /\ next.todo \subseteq Earned(Invited(next.user))
  <1> DEFINE q == rewarder[r]
             more == [at |-> "mark", user |-> q.user, todo |-> left]
  <1>1. q.user \in People /\ q.todo \in SUBSET Milestones
        /\ q.todo \subseteq Earned(Invited(q.user))
    BY RewarderTyped DEF ReferralInv, AsksForEarned
  <1>2. CASE left = {}
    BY <1>2 DEF Proceed
  <1>3. CASE left # {}
    <2>1. rewarder' = [rewarder EXCEPT ![r] = more]
      BY <1>3 DEF Proceed
    <2>2. /\ more \in [at : {"mark"}, user : People, todo : (SUBSET Milestones) \ {{}}]
          /\ more.todo \subseteq Earned(Invited(more.user))
      BY <1>1, <1>3
    <2> HIDE DEF more
    <2> QED
      BY <2>1, <2>2
  <1> QED
    BY <1>2, <1>3

\* Claiming a milestone makes its request the one that issues it.
LEMMA MarkSafe ==
  ASSUME ReferralInv, NEW r \in Rewarders, MarkGranted(r)
  PROVE  ReferralInv'
  <1> DEFINE q == rewarder[r]
             u == q.user
             m == Min(q.todo)
  <1>1. /\ rewarder[r] # NoRequest /\ u \in People /\ m \in q.todo
        /\ q.todo \in SUBSET Milestones
        /\ q.todo \subseteq Earned(Invited(u))
    BY RewarderTyped DEF MarkGranted, NoRequest, ReferralInv, AsksForEarned
  <1>2. CASE ~Won(u, m)
    <2>1. Proceed(r, q.todo \ {m}) /\ rewarder[r].at # "issue"
          /\ UNCHANGED <<inviter, granted, rewards, lost>>
      BY <1>2 DEF MarkGranted
    <2> QED
      BY <1>1, <2>1, ProceedTyped, AskingSafe
  <1>3. CASE Won(u, m)
    <2>1. /\ granted' = [granted EXCEPT ![u] = @ \cup {m}]
          /\ rewarder' = [rewarder EXCEPT ![r].at = "issue"]
          /\ UNCHANGED <<inviter, rewards, lost>>
          /\ m \notin granted[u] /\ q.at = "mark"
      BY <1>3 DEF MarkGranted, Won
    <2>2. ReferralTypeOK'
      BY <1>1, <2>1 DEF ReferralInv, ReferralTypeOK
    <2>3. /\ rewarder'[r] # NoRequest /\ rewarder'[r].at = "issue"
          /\ rewarder'[r].user = u /\ rewarder'[r].todo = q.todo
          /\ \A s \in Rewarders : s # r => rewarder'[s] = rewarder[s]
      BY <1>1, <2>1 DEF ReferralInv, ReferralTypeOK, NoRequest
    <2>4. /\ Unissued(r)' = {<<u, m>>} /\ Unissued(r) = {}
          /\ \A s \in Rewarders : s # r => Unissued(s)' = Unissued(s)
      BY <2>1, <2>3 DEF Unissued
    <2>5. \A v \in People : Invited(v)' = Invited(v)
      BY <2>1 DEF Invited
    <2>6. /\ m \in Milestones /\ m <= Invited(u)
          /\ granted'[u] = granted[u] \cup {m}
          /\ \A v \in People : v # u => granted'[v] = granted[v]
      BY <1>1, <2>1 DEF Earned, ReferralInv, ReferralTypeOK
    <2>7. rewards[u][m] = 0 /\ <<u, m>> \notin lost
          /\ \A s \in Rewarders : <<u, m>> \notin Unissued(s)
      <3>1. HonestlyRewarded(u, m)
        BY <1>1, <2>6 DEF ReferralInv, RewardsHonest
      <3>2. rewards[u][m] \in Nat
        BY <1>1, <2>6 DEF ReferralInv, ReferralTypeOK
      <3> QED
        BY <1>1, <2>1, <2>6, <3>1, <3>2 DEF HonestlyRewarded, ReferralInv, IssuesOnce
    <2> HIDE DEF q, u, m
    <2>8. AsksForEarned'
      <3> SUFFICES ASSUME NEW s \in Rewarders, NEW v \in People,
                          rewarder'[s] # NoRequest, rewarder'[s].user = v
                   PROVE  rewarder'[s].todo \subseteq Earned(Invited(v)')
        BY <2>2 DEF AsksForEarned, ReferralTypeOK
      <3> QED
        BY <1>1, <2>3, <2>5 DEF ReferralInv, AsksForEarned, q
    <2>9. IssuesOnce'
      <3>1. ASSUME NEW s \in Rewarders, NEW v \in People, NEW n \in Milestones,
                   <<v, n>> \in Unissued(s)'
            PROVE  /\ n \in granted'[v] /\ rewards'[v][n] = 0 /\ <<v, n>> \notin lost'
                   /\ \A t \in Rewarders : <<v, n>> \in Unissued(t)' => t = s
        <4>1. CASE s = r
          BY <2>1, <2>4, <2>6, <2>7, <3>1, <4>1
        <4>2. CASE s # r
          BY <2>1, <2>4, <2>6, <2>7, <3>1, <4>2 DEF ReferralInv, IssuesOnce
        <4> QED
          BY <4>1, <4>2
      <3>2. ASSUME NEW v \in People, NEW n \in Milestones, <<v, n>> \in lost'
            PROVE  n \in granted'[v] /\ rewards'[v][n] = 0
        BY <2>1, <2>6, <3>2 DEF ReferralInv, IssuesOnce
      <3> QED
        BY <3>1, <3>2 DEF IssuesOnce
    <2>10. RewardsHonest'
      <3> SUFFICES ASSUME NEW v \in People, NEW n \in Milestones
                   PROVE  HonestlyRewarded(v, n)'
        BY DEF RewardsHonest
      <3>1. HonestlyRewarded(v, n)
        BY DEF ReferralInv, RewardsHonest
      <3>2. CASE v = u /\ n = m
        BY <2>1, <2>4, <2>5, <2>6, <2>7, <3>2 DEF HonestlyRewarded
      <3>3. CASE ~(v = u /\ n = m)
        BY <2>1, <2>4, <2>5, <2>6, <3>1, <3>3 DEF HonestlyRewarded
      <3> QED
        BY <3>2, <3>3
    <2> QED
      BY <2>2, <2>8, <2>9, <2>10 DEF ReferralInv
  <1> QED
    BY <1>2, <1>3

\* The one that issues a milestone rewards it once.
LEMMA IssueSafe ==
  ASSUME ReferralInv, NEW r \in Rewarders, IssueReward(r)
  PROVE  ReferralInv'
  <1> DEFINE q == rewarder[r]
             u == q.user
             m == Min(q.todo)
  <1>1. /\ rewarder[r] # NoRequest /\ u \in People /\ m \in Milestones
        /\ q.at = "issue"
    BY RewarderTyped DEF IssueReward, NoRequest
  <1>2. PICK next :
            /\ rewarder' = [rewarder EXCEPT ![r] = next]
            /\ \/ next = NoRequest
               \/ /\ next \in [at : {"read"}, user : People, todo : SUBSET Milestones]
                     \cup [at : {"mark"}, user : People, todo : (SUBSET Milestones) \ {{}}]
                  /\ next.todo \subseteq Earned(Invited(next.user))
    BY <1>1, ProceedTyped DEF IssueReward
  <1>3. /\ rewards' = [rewards EXCEPT ![u][m] = @ + 1]
        /\ UNCHANGED <<inviter, granted, lost>>
    BY DEF IssueReward
  <1>4. /\ rewarder'[r] = next
        /\ \A s \in Rewarders : s # r => rewarder'[s] = rewarder[s]
    BY <1>2 DEF ReferralInv, ReferralTypeOK
  <1>5. /\ Unissued(r) = {<<u, m>>} /\ Unissued(r)' = {}
        /\ \A s \in Rewarders : s # r => Unissued(s)' = Unissued(s)
    BY <1>1, <1>2, <1>4 DEF Unissued, NoRequest
  <1>6. \A v \in People : Invited(v)' = Invited(v)
    BY <1>3 DEF Invited
  <1>7. /\ m \in granted[u] /\ rewards[u][m] = 0 /\ <<u, m>> \notin lost
        /\ \A s \in Rewarders : s # r => <<u, m>> \notin Unissued(s)
    BY <1>1, <1>5 DEF ReferralInv, IssuesOnce
  <1>8. rewards \in [People -> [Milestones -> Nat]]
    BY DEF ReferralInv, ReferralTypeOK
  <1> HIDE DEF q, u, m
  <1>9. /\ rewards' \in [People -> [Milestones -> Nat]]
        /\ rewards'[u][m] = 1
        /\ \A v \in People, n \in Milestones :
              ~(v = u /\ n = m) => rewards'[v][n] = rewards[v][n]
    BY <1>1, <1>3, <1>7, <1>8
  <1>10. ReferralTypeOK'
    BY <1>2, <1>3, <1>9 DEF ReferralInv, ReferralTypeOK
  <1>11. AsksForEarned'
    <2> SUFFICES ASSUME NEW s \in Rewarders, NEW v \in People,
                        rewarder'[s] # NoRequest, rewarder'[s].user = v
                 PROVE  rewarder'[s].todo \subseteq Earned(Invited(v)')
      BY <1>10 DEF AsksForEarned, ReferralTypeOK
    <2> QED
      BY <1>2, <1>4, <1>6 DEF ReferralInv, AsksForEarned
  <1>12. IssuesOnce'
    <2>1. ASSUME NEW s \in Rewarders, NEW v \in People, NEW n \in Milestones,
                 <<v, n>> \in Unissued(s)'
          PROVE  /\ n \in granted'[v] /\ rewards'[v][n] = 0 /\ <<v, n>> \notin lost'
                 /\ \A t \in Rewarders : <<v, n>> \in Unissued(t)' => t = s
      <3>1. s # r /\ <<v, n>> \in Unissued(s) /\ ~(v = u /\ n = m)
        BY <1>5, <1>7, <2>1
      <3> QED
        BY <1>3, <1>5, <1>9, <3>1 DEF ReferralInv, IssuesOnce
    <2>2. ASSUME NEW v \in People, NEW n \in Milestones, <<v, n>> \in lost'
          PROVE  n \in granted'[v] /\ rewards'[v][n] = 0
      BY <1>3, <1>7, <1>9, <2>2 DEF ReferralInv, IssuesOnce
    <2> QED
      BY <2>1, <2>2 DEF IssuesOnce
  <1>13. RewardsHonest'
    <2> SUFFICES ASSUME NEW v \in People, NEW n \in Milestones
                 PROVE  HonestlyRewarded(v, n)'
      BY DEF RewardsHonest
    <2>1. HonestlyRewarded(v, n)
      BY DEF ReferralInv, RewardsHonest
    <2>2. CASE v = u /\ n = m
      BY <1>3, <1>6, <1>7, <1>9, <2>1, <2>2 DEF HonestlyRewarded
    <2>3. CASE ~(v = u /\ n = m)
      BY <1>3, <1>5, <1>6, <1>9, <2>1, <2>3 DEF HonestlyRewarded
    <2> QED
      BY <2>2, <2>3
  <1> QED
    BY <1>10, <1>11, <1>12, <1>13 DEF ReferralInv

\* What ends while it is issuing is remembered as lost.
LEMMA EndsSafe ==
  ASSUME ReferralInv, NEW ended \in SUBSET Rewarders, RewarderEnds(ended)
  PROVE  ReferralInv'
  <1>1. /\ \A s \in ended : Unissued(s)' = {}
        /\ \A s \in Rewarders \ ended : Unissued(s)' = Unissued(s)
    BY DEF RewarderEnds, Unissued, NoRequest
  <1>2. \A u \in People : Invited(u)' = Invited(u)
    BY DEF RewarderEnds, Invited
  <1>3. UNCHANGED <<inviter, granted, rewards>>
    BY DEF RewarderEnds
  <1>4. \A x : x \in lost' <=> x \in lost \/ \E s \in ended : x \in Unissued(s)
    BY DEF RewarderEnds
  <1>5. ReferralTypeOK'
    BY DEF RewarderEnds, ReferralInv, ReferralTypeOK
  <1>6. AsksForEarned'
    <2> SUFFICES ASSUME NEW s \in Rewarders, NEW v \in People,
                        rewarder'[s] # NoRequest, rewarder'[s].user = v
                 PROVE  rewarder'[s].todo \subseteq Earned(Invited(v)')
      BY <1>5 DEF AsksForEarned, ReferralTypeOK
    <2> QED
      BY <1>2 DEF RewarderEnds, ReferralInv, AsksForEarned
  <1>7. IssuesOnce'
    <2>1. ASSUME NEW s \in Rewarders, NEW v \in People, NEW n \in Milestones,
                 <<v, n>> \in Unissued(s)'
          PROVE  /\ n \in granted'[v] /\ rewards'[v][n] = 0 /\ <<v, n>> \notin lost'
                 /\ \A t \in Rewarders : <<v, n>> \in Unissued(t)' => t = s
      <3>1. s \notin ended /\ <<v, n>> \in Unissued(s)
        BY <1>1, <2>1
      <3> QED
        BY <1>1, <1>3, <1>4, <3>1 DEF ReferralInv, IssuesOnce
    <2>2. ASSUME NEW v \in People, NEW n \in Milestones, <<v, n>> \in lost'
          PROVE  n \in granted'[v] /\ rewards'[v][n] = 0
      BY <1>3, <1>4, <2>2 DEF ReferralInv, IssuesOnce
    <2> QED
      BY <2>1, <2>2 DEF IssuesOnce
  <1>8. RewardsHonest'
    <2> SUFFICES ASSUME NEW v \in People, NEW n \in Milestones
                 PROVE  HonestlyRewarded(v, n)'
      BY DEF RewardsHonest
    <2>1. HonestlyRewarded(v, n)
      BY DEF ReferralInv, RewardsHonest
    <2> QED
      BY <1>1, <1>2, <1>3, <1>4, <2>1 DEF HonestlyRewarded
  <1> QED
    BY <1>5, <1>6, <1>7, <1>8 DEF ReferralInv

LEMMA ReferralStepSafe ==
  ReferralInv /\ [ReferralNext]_referralVars => ReferralInv'
  <1> SUFFICES ASSUME ReferralInv, [ReferralNext]_referralVars PROVE ReferralInv'
    OBVIOUS
  <1>1. CASE UNCHANGED referralVars
    BY <1>1, InvitesSafe DEF referralVars, ReferralInv, ReferralTypeOK
  <1>2. ASSUME NEW u \in People, GetCode(u) PROVE ReferralInv'
    BY <1>2, InvitesSafe DEF GetCode, ReferralInv, ReferralTypeOK
  <1>3. ASSUME NEW owner \in People, NEW invitee \in People, RecordInvite(owner, invitee)
        PROVE  ReferralInv'
    <2>1. /\ inviter' \in [People -> People \cup {NoOne}]
          /\ \A u, i \in People : inviter[i] = u => inviter'[i] = u
      BY <1>3, ReferralAssumption
         DEF RecordInvite, Attributable, ReferralInv, ReferralTypeOK
    <2> QED
      BY <1>3, <2>1, InvitesSafe DEF RecordInvite
  <1>4. ASSUME NEW r \in Rewarders, NEW u \in People, AskRewards(r, u) PROVE ReferralInv'
    <2> DEFINE next == [at |-> "read", user |-> u, todo |-> Earned(Invited(u))]
    <2>1. /\ next \in [at : {"read"}, user : People, todo : SUBSET Milestones]
          /\ next.todo \subseteq Earned(Invited(next.user))
      BY DEF Earned
    <2>2. /\ rewarder' = [rewarder EXCEPT ![r] = next] /\ rewarder[r].at # "issue"
          /\ UNCHANGED <<inviter, granted, rewards, lost>>
      BY <1>4 DEF AskRewards, NoRequest
    <2> HIDE DEF next
    <2> QED
      BY <2>1, <2>2, AskingSafe
  <1>5. ASSUME NEW r \in Rewarders, ReadGranted(r) PROVE ReferralInv'
    <2>1. rewarder[r] # NoRequest /\ rewarder[r].at # "issue"
          /\ UNCHANGED <<inviter, granted, rewards, lost>>
          /\ Proceed(r, rewarder[r].todo \ granted[rewarder[r].user])
      BY <1>5 DEF ReadGranted, NoRequest
    <2> QED
      BY <2>1, ProceedTyped, AskingSafe
  <1>6. ASSUME NEW r \in Rewarders, MarkGranted(r) \/ IssueReward(r) PROVE ReferralInv'
    BY <1>6, MarkSafe, IssueSafe
  <1>7. ASSUME NEW r \in Rewarders, RewarderEnds({r}) PROVE ReferralInv'
    BY <1>7, EndsSafe
  <1>8. CASE RewarderEnds(Rewarders)
    BY <1>8, EndsSafe
  <1> QED
    BY <1>1, <1>2, <1>3, <1>4, <1>5, <1>6, <1>7, <1>8 DEF ReferralNext

\* A milestone is rewarded at most once, and a claimed one is rewarded, being
\* issued or lost: PgReferralStore and POST /referral/rewards.
THEOREM RewardedHonestly == ReferralSpec => []RewardsHonest
  <1>1. ReferralInv => RewardsHonest
    BY DEF ReferralInv
  <1> QED
    BY <1>1, ReferralInitSafe, ReferralStepSafe, PTL DEF ReferralSpec

---------------------------------------------------------------------------
(* Wallet-watch: what a request has counted still holds, unless another of *)
(* its user has subscribed since; and every purchase has a charge.         *)

Running ==
    [at : {"persist", "set", "tier", "count", "issue", "subscribe"}, now : Nat,
     user : Watchers, order : Orders, tier : Plans, paid : BOOLEAN, alone : BOOLEAN]

WatchTypeOK ==
    /\ time \in Nat /\ opSeq \in Nat
    /\ plan \in [Watchers -> [tier : Plans, end : Nat]]
    /\ watch \in [Watchers -> [Wallets -> Nat]]
    /\ handler \in [Handlers -> Running \cup {Idle}]
    /\ bought \in [Watchers -> [opened : Nat, failed : Nat]]

\* A request's clock was read before, and what it paid for it is writing.
RequestsSound ==
    \A r \in Handlers :
        handler[r].at # "idle" =>
            handler[r].now <= time /\ (handler[r].paid => handler[r].at = "set")

\* A request that has counted, and that nobody overtook, finds room still.
CountHolds(r) ==
    handler[r].at \in {"issue", "subscribe"} /\ handler[r].alone
            /\ handler[r].user \notin AdminUsers =>
        ActiveCount(handler[r].user, time) < MaxWallets[handler[r].tier]

CountStillHolds == \A r \in Handlers : CountHolds(r)

\* Only numbers that were given out have been charged.
OpsGivenOut == \A op \in Ops : movements[op] # NoMovement => op \in 1..opSeq

\* All charges there are, and the purchases they are for.
Charged(u) == {op \in Ops : movements[op] # NoMovement /\ movements[op].user = u}

PurchasesCharged ==
    \A u \in Watchers :
        bought[u].opened + bought[u].failed + Cardinality(Unwritten(u)) =
            Cardinality(Charged(u))

WatchInv ==
    /\ LedgerInv /\ BooksBalance
    /\ WatchTypeOK
    /\ RequestsSound
    /\ CountStillHolds
    /\ OpsGivenOut
    /\ PurchasesCharged

LEMMA WatchInitSafe == SettlementInit /\ WatchInit => WatchInv
  <1> SUFFICES ASSUME LedgerInit, WatchInit PROVE WatchInv
    BY DEF SettlementInit
  <1>1. WatchTypeOK
    <2>1. /\ time \in Nat /\ opSeq \in Nat
          /\ plan \in [Watchers -> [tier : Plans, end : Nat]]
          /\ handler \in [Handlers -> Running \cup {Idle}]
      BY WatchAssumption DEF WatchInit
    <2>2. /\ watch \in [Watchers -> [Wallets -> Nat]]
          /\ bought \in [Watchers -> [opened : Nat, failed : Nat]]
      BY DEF WatchInit
    <2> QED
      BY <2>1, <2>2 DEF WatchTypeOK
  <1>2. RequestsSound /\ CountStillHolds /\ OpsGivenOut
    BY DEF LedgerInit, WatchInit, RequestsSound, CountStillHolds, CountHolds,
           OpsGivenOut, Idle, MovementIds
  <1>3. ASSUME NEW u \in Watchers
        PROVE  bought[u].opened + bought[u].failed + Cardinality(Unwritten(u)) =
                   Cardinality(Charged(u))
    <2>1. /\ bought[u].opened = 0 /\ bought[u].failed = 0
          /\ Unwritten(u) = {} /\ Charged(u) = {}
      BY <1>3 DEF LedgerInit, WatchInit, Unwritten, Charged, Idle, MovementIds
    <2> QED
      BY <2>1, FS_EmptySet
  <1> QED
    BY <1>1, <1>2, <1>3, LedgerInitSafe, LedgerInitBalances DEF WatchInv, PurchasesCharged

\* Fewer wallets are active when each ends earlier or the clock is later.
LEMMA FewerActive ==
  ASSUME NEW S \in SUBSET Wallets, NEW T \in SUBSET Wallets, S \subseteq T
  PROVE  Cardinality(S) \in Nat /\ Cardinality(T) \in Nat /\ Cardinality(S) <= Cardinality(T)
  <1>1. IsFiniteSet(T) /\ IsFiniteSet(S)
    BY WatchAssumption, FS_Subset
  <1> QED
    BY <1>1, FS_Subset, FS_CardinalityType

LEMMA OneMore ==
  ASSUME NEW S, IsFiniteSet(S), NEW x
  PROVE  /\ IsFiniteSet(S \cup {x}) /\ Cardinality(S) \in Nat
         /\ Cardinality(S \cup {x}) <= Cardinality(S) + 1
  <1>1. Cardinality(S) \in Nat
    BY FS_CardinalityType
  <1>2. /\ IsFiniteSet(S \cup {x})
        /\ Cardinality(S \cup {x}) = IF x \in S THEN Cardinality(S) ELSE Cardinality(S) + 1
    BY FS_AddElement
  <1> QED
    BY <1>1, <1>2

Active(u, now) == {w \in Wallets : watch[u][w] > now}

LEMMA ActiveTyped ==
  ASSUME NEW u, NEW now
  PROVE  ActiveCount(u, now) = Cardinality(Active(u, now)) /\ ActiveCount(u, now) \in Nat
  BY FewerActive DEF ActiveCount, Active

\* Every step of a request keeps the books of what was bought, if it neither
\* buys nor writes.
LEMMA PlansStayPaid ==
  ASSUME WatchInv, bought' = bought, \A op \in Ops : movements'[op] = movements[op],
         \A u \in Watchers : Unwritten(u)' = Unwritten(u)
  PROVE  PurchasesCharged'
  <1>1. \A u \in Watchers : Charged(u)' = Charged(u)
    BY DEF Charged
  <1> QED
    BY <1>1 DEF WatchInv, PurchasesCharged

\* A clock that moves on, watches that end and requests of others leave a
\* count as good as it was.
LEMMA CountsStay ==
  ASSUME WatchInv, WatchTypeOK', time <= time',
         \A u \in Watchers, w \in Wallets : watch'[u][w] <= watch[u][w],
         \A r \in Handlers :
            \/ handler'[r] = handler[r]
            \/ handler'[r].at \notin {"issue", "subscribe"}
            \/ /\ handler[r].at = "issue" /\ handler'[r].user = handler[r].user
               /\ handler'[r].tier = handler[r].tier /\ handler'[r].alone = handler[r].alone
  PROVE  CountStillHolds'
  <1> SUFFICES ASSUME NEW r \in Handlers, handler'[r].at \in {"issue", "subscribe"},
                      handler'[r].alone, handler'[r].user \notin AdminUsers
               PROVE  CountHolds(r)'
    BY DEF CountStillHolds, CountHolds
  <1> DEFINE u == handler[r].user
             t == handler[r].tier
  <1>1. /\ handler[r].at \in {"issue", "subscribe"} /\ handler[r].alone
        /\ handler'[r].user = u /\ handler'[r].tier = t
    OBVIOUS
  <1>2. u \in Watchers /\ MaxWallets[t] \in Nat
    BY <1>1, WatchAssumption DEF WatchInv, WatchTypeOK, Running, Idle
  <1>3. Cardinality(Active(u, time)) < MaxWallets[t]
    BY <1>1, ActiveTyped DEF WatchInv, CountStillHolds, CountHolds
  <1> DEFINE now == {w \in Wallets : watch'[u][w] > time'}
  <1>4. now \subseteq Active(u, time)
    BY <1>2 DEF WatchInv, WatchTypeOK, Active
  <1>5. /\ Cardinality(now) \in Nat /\ Cardinality(Active(u, time)) \in Nat
        /\ Cardinality(now) <= Cardinality(Active(u, time))
    BY <1>4, FewerActive DEF Active
  <1>6. Cardinality(now) < MaxWallets[t]
    BY <1>2, <1>3, <1>5
  <1> QED
    BY <1>1, <1>6 DEF ActiveCount, CountHolds

LEMMA RunningTyped ==
  ASSUME WatchTypeOK, NEW r \in Handlers, handler[r].at # "idle"
  PROVE  handler[r] \in Running
  BY DEF WatchTypeOK, Idle

\* A request that goes on keeps its types.
LEMMA RequestTyped ==
  ASSUME NEW h \in Running, NEW tier \in Plans
  PROVE  /\ [h EXCEPT !.tier = tier] \in Running
         /\ [h EXCEPT !.tier = tier, !.paid = TRUE] \in Running
  BY DEF Running

\* What a query makes of its request.
Queried(h, where, t) == [h EXCEPT !.at = where, !.now = t]

LEMMA QueriedRuns ==
  ASSUME NEW h \in Running, NEW t \in Nat,
         NEW where \in {"persist", "set", "tier", "count", "issue", "subscribe"}
  PROVE  Queried(h, where, t) \in Running
  BY DEF Running, Queried

LEMMA QueriedThere ==
  ASSUME NEW h \in Running, NEW t \in Nat,
         NEW where \in {"persist", "set", "tier", "count", "issue", "subscribe"}
  PROVE  /\ Queried(h, where, t).at = where
         /\ Queried(h, where, t).now = t
  BY DEF Running, Queried

LEMMA QueriedSame ==
  ASSUME NEW h \in Running, NEW t \in Nat,
         NEW where \in {"persist", "set", "tier", "count", "issue", "subscribe"}
  PROVE  /\ Queried(h, where, t).user = h.user
         /\ Queried(h, where, t).tier = h.tier
  BY DEF Running, Queried

LEMMA QueriedFlags ==
  ASSUME NEW h \in Running, NEW t \in Nat,
         NEW where \in {"persist", "set", "tier", "count", "issue", "subscribe"}
  PROVE  /\ Queried(h, where, t).alone = h.alone
         /\ Queried(h, where, t).paid = h.paid
  BY DEF Running, Queried

LEMMA GotoTyped ==
  ASSUME WatchTypeOK, NEW r \in Handlers, NEW h \in Running \cup {Idle}, Goto(r, h)
  PROVE  handler' \in [Handlers -> Running \cup {Idle}] /\ handler'[r] = h
         /\ \A s \in Handlers : s # r => handler'[s] = handler[s]
  BY DEF WatchTypeOK, Goto

LEMMA QueryTyped ==
  ASSUME WatchTypeOK, NEW r \in Handlers, NEW h \in Running,
         NEW at \in {"persist", "set", "tier", "count", "issue", "subscribe"},
         Query(r, h, at)
  PROVE  /\ handler' \in [Handlers -> Running \cup {Idle}]
         /\ handler'[r].at = at /\ handler'[r].now = time
         /\ handler'[r].user = h.user /\ handler'[r].tier = h.tier
         /\ handler'[r].alone = h.alone /\ handler'[r].paid = h.paid
         /\ \A s \in Handlers : s # r => handler'[s] = handler[s]
  <1> DEFINE g == Queried(h, at, time)
  <1>1. time \in Nat /\ Goto(r, g)
    BY DEF Query, Queried, WatchTypeOK
  <1> HIDE DEF g
  <1>2. g \in Running /\ g.at = at /\ g.now = time
    <2>1. Queried(h, at, time) \in Running
      BY <1>1, QueriedRuns
    <2>2. Queried(h, at, time).at = at /\ Queried(h, at, time).now = time
      BY <1>1, QueriedThere
    <2> QED
      BY <2>1, <2>2, Zenon DEF g
  <1>3. g.user = h.user /\ g.tier = h.tier
    BY <1>1, QueriedSame DEF g
  <1>4. g.alone = h.alone /\ g.paid = h.paid
    BY <1>1, QueriedFlags DEF g
  <1> QED
    BY <1>1, <1>2, <1>3, <1>4, GotoTyped

\* The steps that book nothing, buy nothing and take no watch.
LEMMA CalmSafe ==
  ASSUME WatchInv, LedgerInv', BooksBalance', WatchTypeOK',
         UNCHANGED <<bought, opSeq>>, \A op \in Ops : movements'[op] = movements[op],
         time <= time',
         \A r \in Handlers : handler'[r] # handler[r] => handler[r].at # "set",
         \A u \in Watchers, w \in Wallets : watch'[u][w] <= watch[u][w],
         \A r \in Handlers :
            \/ handler'[r] = handler[r]
            \/ handler'[r].at = "idle"
            \/ handler'[r].now = time /\ ~handler'[r].paid
                /\ \/ handler'[r].at \notin {"issue", "subscribe"}
                   \/ /\ handler[r].at = "issue" /\ handler'[r].user = handler[r].user
                      /\ handler'[r].tier = handler[r].tier
                      /\ handler'[r].alone = handler[r].alone
  PROVE  WatchInv'
  <1>1. CountStillHolds'
    BY CountsStay
  <1>2. RequestsSound'
    <2> SUFFICES ASSUME NEW r \in Handlers, handler'[r].at # "idle"
                 PROVE  handler'[r].now <= time' /\ (handler'[r].paid => handler'[r].at = "set")
      BY DEF RequestsSound
    <2>1. CASE handler'[r] = handler[r]
      <3>1. handler[r].now <= time /\ (handler[r].paid => handler[r].at = "set")
        BY <2>1 DEF WatchInv, RequestsSound
      <3>2. handler[r].now \in Nat /\ time \in Nat /\ time' \in Nat
        BY <2>1, RunningTyped DEF WatchInv, WatchTypeOK, Running
      <3>3. handler'[r].now <= time'
        BY <2>1, <3>1, <3>2
      <3> QED
        BY <2>1, <3>1, <3>3
    <2>2. CASE handler'[r] # handler[r]
      BY <2>2
    <2> QED
      BY <2>1, <2>2
  <1>3. OpsGivenOut'
    BY DEF WatchInv, OpsGivenOut
  <1>4. \A u \in Watchers : Unwritten(u)' = Unwritten(u)
    BY DEF Unwritten
  <1>5. PurchasesCharged'
    BY <1>4, PlansStayPaid
  <1> QED
    BY <1>1, <1>2, <1>3, <1>5 DEF WatchInv

\* What a step that only registers does to the ledger.
LEMMA RegisterSafe ==
  ASSUME WatchInv, NEW u \in Users, Register(u)
  PROVE  /\ LedgerInv' /\ BooksBalance'
         /\ accounts' \in [Users -> Account \cup {NoAccount}] /\ BookStep
         /\ UNCHANGED movements
  <1>1. Quiet /\ accounts' \in [Users -> Account \cup {NoAccount}]
    BY RegisterBooks DEF WatchInv
  <1>2. BookStep
    BY <1>1 DEF BookStep
  <1>3. LedgerInv'
    BY <1>1, <1>2, BookStepSafe DEF WatchInv
  <1> QED
    BY <1>1, <1>2, <1>3, BookStepBalances DEF WatchInv, Quiet

\* A purchase outside the promotion books one charge, under a new number.
LEMMA PurchaseBooks ==
  ASSUME WatchInv, NEW u \in Watchers, NEW tier \in Plans, opSeq < MaxBuys,
         Charge(u, OpId(opSeq), PlanCost[tier], TRUE)
  PROVE  /\ LedgerInv' /\ BooksBalance'
         /\ accounts' \in [Users -> Account \cup {NoAccount}] /\ BookStep
         /\ OpId(opSeq) \in Ops /\ OpId(opSeq) = opSeq + 1
         /\ movements[OpId(opSeq)] = NoMovement
         /\ movements'[OpId(opSeq)] # NoMovement
         /\ movements'[OpId(opSeq)].user = u
         /\ \A i \in MovementIds : i # OpId(opSeq) => movements'[i] = movements[i]
  <1> DEFINE o == OpId(opSeq)
  <1>1. /\ opSeq \in Nat /\ o = opSeq + 1 /\ o \in Ops /\ o \in MovementIds
        /\ u \in Users /\ PlanCost[tier] \in Nat
        /\ Charge(u, o, PlanCost[tier], TRUE)
    <2>1. opSeq \in Nat /\ o = opSeq + 1 /\ o \in Ops /\ o \in MovementIds
      BY WatchAssumption DEF WatchInv, WatchTypeOK, OpId, MovementIds
    <2>2. u \in Users /\ PlanCost[tier] \in Nat
      BY WatchAssumption
    <2> QED
      BY <2>1, <2>2
  <1>2. movements[o] = NoMovement
    BY <1>1 DEF WatchInv, OpsGivenOut
  <1>3. PICK kind \in {"DEBIT", "FREE_DEBIT"}, n \in Nat : Booking(u, o, kind, n)
    <2> HIDE DEF o
    <2> QED
      BY <1>1, <1>2, ChargeBooks DEF WatchInv
  <1>4. accounts' \in [Users -> Account \cup {NoAccount}]
    <2> HIDE DEF o
    <2> QED
      BY <1>1, ChargeBooks DEF WatchInv
  <1> HIDE DEF o
  <1>5. BookStep
    BY <1>1, <1>3 DEF BookStep
  <1>6. LedgerInv'
    BY <1>4, <1>5, BookStepSafe DEF WatchInv
  <1>7. BooksBalance'
    BY <1>5, <1>6, BookStepBalances DEF WatchInv
  <1>8. /\ movements'[o] = [user |-> u, kind |-> kind, amount |-> n]
        /\ movements'[o] # NoMovement
        /\ \A i \in MovementIds : i # o => movements'[i] = movements[i]
    BY <1>1, <1>3, RecordTyped DEF Booking, WatchInv, LedgerInv
  <1>9. movements'[o].user = u
    BY <1>8
  <1> QED
    BY <1>1, <1>2, <1>4, <1>5, <1>6, <1>7, <1>8, <1>9 DEF o

\* Every step keeps the ledger's books.
\* A payment keeps the books and touches no charge.
LEMMA PaymentBooks ==
  ASSUME WatchInv, NEW p \in Payments, NEW paid \in PaidAmounts, Settle(p, paid)
  PROVE  /\ LedgerInv' /\ BooksBalance'
         /\ accounts' \in [Users -> Account \cup {NoAccount}] /\ BookStep
         /\ \A op \in Ops : movements'[op] = movements[op]
  <1> DEFINE n == PackPrice[PackOf[p]] + PackBonus[PackOf[p]]
             tiered == p \notin settled /\ PackOf[p] \in TierPacks
             u == PayerOf[p]
  <1>1. n \in Nat /\ u \in Users /\ tiered \in BOOLEAN /\ p \in MovementIds
    BY SettlementAssumption DEF MovementIds
  <1>2. TopUp(p, u, n, tiered) \/ UNCHANGED ledgerStore
    BY DEF Settle, settlementVars, ledgerStore
  <1>3. /\ accounts' \in [Users -> Account \cup {NoAccount}]
        /\ Quiet \/ Booking(u, p, "TOPUP", n)
    <2>1. CASE UNCHANGED ledgerStore
      BY <2>1 DEF ledgerStore, Quiet, Require, WatchInv, LedgerInv, LedgerTypeOK
    <2>2. CASE TopUp(p, u, n, tiered)
      <3> HIDE DEF n, u, tiered
      <3> QED
        BY <1>1, <2>2, TopUpBooks DEF WatchInv
    <2> QED
      BY <1>2, <2>1, <2>2
  <1>4. BookStep
    <2> HIDE DEF n, u, tiered
    <2> QED
      BY <1>1, <1>3 DEF BookStep
  <1>5. LedgerInv' /\ BooksBalance'
    <2> HIDE DEF n, u, tiered
    <2>1. LedgerInv /\ BooksBalance
      BY DEF WatchInv
    <2>2. LedgerInv'
      BY <1>3, <1>4, <2>1, BookStepSafe
    <2> QED
      BY <1>4, <2>1, <2>2, BookStepBalances
  <1>6. \A op \in Ops : movements'[op] = movements[op]
    <2> HIDE DEF n, u, tiered
    <2>1. CASE Quiet
      BY <2>1 DEF Quiet
    <2>2. CASE Booking(u, p, "TOPUP", n)
      <3>1. p \notin Ops /\ Ops \subseteq MovementIds
        BY <1>1, LedgerAssumption DEF MovementIds
      <3>2. LedgerTypeOK /\ Record(p, u, "TOPUP", n)
        BY <2>2 DEF WatchInv, LedgerInv, Booking
      <3> QED
        BY <1>1, <3>1, <3>2, RecordTyped
    <2> QED
      BY <1>3, <2>1, <2>2
  <1> QED
    BY <1>3, <1>4, <1>5, <1>6

LEMMA WatchBooks ==
  ASSUME WatchInv, [WatchNext]_<<settlementVars, watchVars>>
  PROVE  /\ LedgerInv' /\ BooksBalance'
         /\ accounts' \in [Users -> Account \cup {NoAccount}] /\ BookStep
  <1> DEFINE Goal == /\ LedgerInv' /\ BooksBalance'
                     /\ accounts' \in [Users -> Account \cup {NoAccount}] /\ BookStep
  <1>1. ASSUME NEW u \in Watchers, Register(u) PROVE Goal
    BY <1>1, RegisterSafe, WatchAssumption
  <1>2. ASSUME UNCHANGED ledgerStore PROVE Goal
    <2>1. Quiet /\ accounts' \in [Users -> Account \cup {NoAccount}]
      BY <1>2 DEF ledgerStore, Quiet, Require, WatchInv, LedgerInv, LedgerTypeOK
    <2>2. BookStep
      BY <2>1 DEF BookStep
    <2>3. LedgerInv'
      BY <2>1, <2>2, BookStepSafe DEF WatchInv
    <2> QED
      BY <2>1, <2>2, <2>3, BookStepBalances DEF WatchInv
  <1>3. ASSUME NEW r \in Handlers, HandlerSteps(r) PROVE Goal
    <2> DEFINE h == handler[r]
    <2>1. ASSUME NEW u \in Watchers, NEW order \in Orders, Arrive(r, u, order) PROVE Goal
      BY <1>1, <2>1 DEF Arrive
    <2>2. CASE Buy(r)
      <3>1. CASE UNCHANGED ledgerStore
        BY <1>2, <3>1
      <3>2. CASE ~UNCHANGED ledgerStore
        <4>1. /\ h.at = "persist" /\ h.order.kind = "plan" /\ opSeq < MaxBuys
              /\ Charge(h.user, OpId(opSeq), PlanCost[h.order.tier], TRUE)
          BY <2>2, <3>2 DEF Buy
        <4>2. h \in Running
          BY <4>1, RunningTyped DEF WatchInv
        <4>3. h.user \in Watchers /\ h.order.tier \in Plans
          BY <4>1, <4>2 DEF Running, Orders
        <4> HIDE DEF h
        <4> QED
          BY <4>1, <4>3, PurchaseBooks
      <3> QED
        BY <3>1, <3>2
    <2>3. CASE SetTier(r) \/ AskTier(r) \/ ReadTier(r) \/ CountUsed(r) \/ IssueWatch(r)
               \/ Subscribe(r) \/ HandlerThrows(r)
      <3>1. UNCHANGED ledgerStore
        BY <2>3 DEF SetTier, AskTier, ReadTier, CountUsed, IssueWatch, Subscribe, HandlerThrows
      <3> QED
        BY <1>2, <3>1
    <2> QED
      BY <1>3, <2>1, <2>2, <2>3 DEF HandlerSteps
  <1>4. ASSUME NEW u \in Watchers, NEW current \in BOOLEAN, Consent(u, current) PROVE Goal
    BY <1>1, <1>4 DEF Consent
  <1>5. ASSUME NEW u \in Watchers, NEW w \in Wallets, CancelWatch(u, w) PROVE Goal
    BY <1>1, <1>5 DEF CancelWatch
  <1>6. CASE TimePasses \/ UNCHANGED <<settlementVars, watchVars>>
    BY <1>2, <1>6 DEF TimePasses, settlementVars, ledgerStore
  <1>7. ASSUME NEW p \in Payments, NEW paid \in PaidAmounts, Settle(p, paid) PROVE Goal
    BY <1>2, <1>7, PaymentBooks DEF WatchInv
  <1> QED
    BY <1>3, <1>4, <1>5, <1>6, <1>7 DEF WatchNext, WatchRoutes

\* The steps of a request that leave the tables alone.
LEMMA RequestSafe ==
  ASSUME WatchInv, LedgerInv', BooksBalance', NEW r \in Handlers, handler[r].at # "set",
         handler' \in [Handlers -> Running \cup {Idle}],
         \A s \in Handlers : s # r => handler'[s] = handler[s],
         UNCHANGED <<movements, time, opSeq, plan, watch, bought>>,
         \/ handler'[r] = Idle
         \/ handler'[r].now = time /\ ~handler'[r].paid
             /\ \/ handler'[r].at \notin {"issue", "subscribe"}
                \/ /\ handler[r].at = "issue" /\ handler'[r].user = handler[r].user
                   /\ handler'[r].tier = handler[r].tier
                   /\ handler'[r].alone = handler[r].alone
  PROVE  WatchInv'
  <1>1. WatchTypeOK'
    BY DEF WatchInv, WatchTypeOK
  <1>2. time <= time' /\ \A u \in Watchers, w \in Wallets : watch'[u][w] <= watch[u][w]
    BY DEF WatchInv, WatchTypeOK
  <1>3. \A s \in Handlers :
            \/ handler'[s] = handler[s]
            \/ handler'[s].at = "idle"
            \/ handler'[s].now = time /\ ~handler'[s].paid
                /\ \/ handler'[s].at \notin {"issue", "subscribe"}
                   \/ /\ handler[s].at = "issue" /\ handler'[s].user = handler[s].user
                      /\ handler'[s].tier = handler[s].tier
                      /\ handler'[s].alone = handler[s].alone
    BY DEF Idle
  <1> QED
    BY <1>1, <1>2, <1>3, CalmSafe

\* A request that goes to its next query without paying.
LEMMA QuerySafe ==
  ASSUME WatchInv, LedgerInv', BooksBalance', NEW r \in Handlers, handler[r].at # "set",
         NEW h \in Running,
         NEW at \in {"persist", "set", "tier", "count", "issue", "subscribe"},
         Query(r, h, at), ~h.paid,
         UNCHANGED <<movements, time, opSeq, plan, watch, bought>>,
         \/ at \notin {"issue", "subscribe"}
         \/ handler[r].at = "issue" /\ h = handler[r]
  PROVE  WatchInv'
  <1>1. /\ handler' \in [Handlers -> Running \cup {Idle}]
        /\ handler'[r].at = at /\ handler'[r].now = time
        /\ handler'[r].user = h.user /\ handler'[r].tier = h.tier
        /\ handler'[r].alone = h.alone /\ handler'[r].paid = h.paid
        /\ \A s \in Handlers : s # r => handler'[s] = handler[s]
    BY QueryTyped DEF WatchInv
  <1>2. handler'[r].now = time /\ ~handler'[r].paid
        /\ \/ handler'[r].at \notin {"issue", "subscribe"}
           \/ /\ handler[r].at = "issue" /\ handler'[r].user = handler[r].user
              /\ handler'[r].tier = handler[r].tier
              /\ handler'[r].alone = handler[r].alone
    BY <1>1
  <1> QED
    BY <1>1, <1>2, RequestSafe

LEMMA EndSafe ==
  ASSUME WatchInv, LedgerInv', BooksBalance', NEW r \in Handlers, Goto(r, Idle),
         handler[r].at # "set",
         UNCHANGED <<movements, time, opSeq, plan, watch, bought>>
  PROVE  WatchInv'
  BY GotoTyped, RequestSafe DEF WatchInv

\* A request that is not writing a purchase has not paid for it.
LEMMA Unpaid ==
  ASSUME WatchInv, NEW r \in Handlers, handler[r].at \notin {"idle", "set"}
  PROVE  handler[r] \in Running /\ ~handler[r].paid /\ handler[r].now <= time
  BY RunningTyped DEF WatchInv, RequestsSound

LEMMA CountSafe ==
  ASSUME WatchInv, LedgerInv', BooksBalance', NEW r \in Handlers, CountUsed(r)
  PROVE  WatchInv'
  <1> DEFINE h == handler[r]
  <1>1. /\ h.at = "count" /\ h \in Running /\ ~h.paid /\ h.now <= time
        /\ UNCHANGED <<movements, time, opSeq, plan, watch, bought>>
    BY Unpaid DEF CountUsed, ledgerStore
  <1>2. CASE ~WithinQuota(h.user, h.tier, ActiveCount(h.user, h.now))
    BY <1>1, <1>2, EndSafe DEF CountUsed
  <1>3. CASE WithinQuota(h.user, h.tier, ActiveCount(h.user, h.now))
    <2>1. Query(r, h, "issue")
      BY <1>3 DEF CountUsed
    <2>2. /\ handler' \in [Handlers -> Running \cup {Idle}]
          /\ handler'[r].at = "issue" /\ handler'[r].now = time
          /\ handler'[r].user = h.user /\ handler'[r].tier = h.tier
          /\ handler'[r].alone = h.alone /\ handler'[r].paid = h.paid
          /\ \A s \in Handlers : s # r => handler'[s] = handler[s]
      BY <1>1, <2>1, QueryTyped DEF WatchInv
    <2>3. WatchTypeOK'
      BY <1>1, <2>2 DEF WatchInv, WatchTypeOK
    <2>4. h.user \in AdminUsers \/ ActiveCount(h.user, time) < MaxWallets[h.tier]
      <3>1. /\ h.user \in Watchers /\ MaxWallets[h.tier] \in Nat /\ h.now \in Nat
            /\ time \in Nat
        BY <1>1, WatchAssumption DEF Running, WatchInv, WatchTypeOK
      <3>2. Active(h.user, time) \subseteq Active(h.user, h.now)
        BY <1>1, <3>1 DEF Active, WatchInv, WatchTypeOK
      <3>3. /\ ActiveCount(h.user, time) <= ActiveCount(h.user, h.now)
            /\ ActiveCount(h.user, time) \in Nat /\ ActiveCount(h.user, h.now) \in Nat
        <4> HIDE DEF h
        <4> QED
          BY <3>2, ActiveTyped, FewerActive DEF Active
      <3>4. h.user \in AdminUsers \/ ActiveCount(h.user, h.now) < MaxWallets[h.tier]
        BY <1>3 DEF WithinQuota
      <3> QED
        BY <3>1, <3>3, <3>4
    <2>5. CountStillHolds'
      <3> SUFFICES ASSUME NEW s \in Handlers PROVE CountHolds(s)'
        BY DEF CountStillHolds
      <3>1. CountHolds(s)
        BY DEF WatchInv, CountStillHolds
      <3>2. \A u : ActiveCount(u, time)' = ActiveCount(u, time)
        BY <1>1 DEF ActiveCount
      <3> HIDE DEF h
      <3>3. CASE s = r
        BY <1>1, <2>2, <2>4, <3>2, <3>3 DEF CountHolds
      <3>4. CASE s # r
        BY <1>1, <2>2, <3>1, <3>2, <3>4 DEF CountHolds
      <3> QED
        BY <3>3, <3>4
    <2>6. RequestsSound'
      BY <1>1, <2>2 DEF WatchInv, WatchTypeOK, RequestsSound
    <2>7. OpsGivenOut'
      BY <1>1 DEF WatchInv, OpsGivenOut
    <2>8. PurchasesCharged'
      <3>1. \A u \in Watchers : Unwritten(u)' = Unwritten(u)
        BY <1>1, <2>2 DEF Unwritten
      <3> QED
        BY <1>1, <3>1, PlansStayPaid
    <2> QED
      BY <2>3, <2>5, <2>6, <2>7, <2>8 DEF WatchInv
  <1> QED
    BY <1>2, <1>3

\* A purchase is charged for when its request starts to write it.
LEMMA PurchaseSafe ==
  ASSUME WatchInv, LedgerInv', BooksBalance', NEW r \in Handlers, NEW h \in Running,
         handler[r].at = "persist", Query(r, h, "set"), h.paid,
         opSeq < MaxBuys, opSeq' = opSeq + 1, OpId(opSeq) \in Ops, OpId(opSeq) = opSeq + 1,
         movements[OpId(opSeq)] = NoMovement, movements'[OpId(opSeq)] # NoMovement,
         movements'[OpId(opSeq)].user = h.user,
         \A i \in MovementIds : i # OpId(opSeq) => movements'[i] = movements[i],
         UNCHANGED <<time, plan, watch, bought>>
  PROVE  WatchInv'
  <1> DEFINE o == OpId(opSeq)
  <1>1. /\ handler' \in [Handlers -> Running \cup {Idle}]
        /\ handler'[r].at = "set" /\ handler'[r].now = time
        /\ handler'[r].user = h.user
        /\ handler'[r].alone = h.alone /\ handler'[r].paid = h.paid
        /\ \A s \in Handlers : s # r => handler'[s] = handler[s]
    BY QueryTyped DEF WatchInv
  <1>2. WatchTypeOK'
    BY <1>1 DEF WatchInv, WatchTypeOK
  <1>3. CountStillHolds'
    <2>1. /\ time <= time'
          /\ \A u \in Watchers, w \in Wallets : watch'[u][w] <= watch[u][w]
      BY DEF WatchInv, WatchTypeOK
    <2> QED
      BY <1>1, <1>2, <2>1, CountsStay
  <1>4. RequestsSound'
    BY <1>1 DEF WatchInv, WatchTypeOK, RequestsSound
  <1>5. OpsGivenOut'
    <2>1. opSeq \in Nat
      BY DEF WatchInv, WatchTypeOK
    <2>2. \A op \in Ops : op # o => movements'[op] = movements[op]
      BY DEF MovementIds
    <2> QED
      BY <2>1, <2>2 DEF WatchInv, OpsGivenOut
  <1>6. ASSUME NEW u \in Watchers
        PROVE  bought'[u].opened + bought'[u].failed + Cardinality(Unwritten(u)') =
                   Cardinality(Charged(u)')
    <2>1. /\ IsFiniteSet(Unwritten(u)) /\ IsFiniteSet(Charged(u))
      <3>1. Unwritten(u) \in SUBSET Handlers /\ Charged(u) \in SUBSET MovementIds
        BY DEF Unwritten, Charged, MovementIds
      <3> QED
        BY <3>1, FS_Subset, WatchAssumption, LedgerAssumption
    <2>2. /\ Cardinality(Unwritten(u)) \in Nat /\ Cardinality(Charged(u)) \in Nat
          /\ bought[u].opened \in Nat /\ bought[u].failed \in Nat
      BY <2>1, FS_CardinalityType DEF WatchInv, WatchTypeOK
    <2>3. bought[u].opened + bought[u].failed + Cardinality(Unwritten(u)) =
              Cardinality(Charged(u))
      BY DEF WatchInv, PurchasesCharged
    <2>4. CASE h.user = u
      <3>1. Unwritten(u)' = Unwritten(u) \cup {r} /\ r \notin Unwritten(u)
        BY <1>1, <2>4 DEF Unwritten
      <3>2. Charged(u)' = Charged(u) \cup {o} /\ o \notin Charged(u)
        BY <2>4 DEF Charged, MovementIds
      <3>3. Cardinality(Unwritten(u)') = Cardinality(Unwritten(u)) + 1
        BY <2>1, <3>1, FS_AddElement
      <3>4. Cardinality(Charged(u)') = Cardinality(Charged(u)) + 1
        BY <2>1, <3>2, FS_AddElement
      <3> QED
        BY <2>2, <2>3, <3>3, <3>4
    <2>5. CASE h.user # u
      <3>1. Unwritten(u)' = Unwritten(u)
        BY <1>1, <2>5 DEF Unwritten
      <3>2. Charged(u)' = Charged(u)
        BY <2>5 DEF Charged, MovementIds
      <3> QED
        BY <2>3, <3>1, <3>2
    <2> QED
      BY <2>4, <2>5
  <1>7. PurchasesCharged'
    BY <1>6 DEF PurchasesCharged
  <1> QED
    BY <1>2, <1>3, <1>4, <1>5, <1>7 DEF WatchInv

\* A purchase that ends moves its charge from the pending ones to the plans, or
\* to those whose write failed.
LEMMA PurchaseEnds ==
  ASSUME WatchInv, LedgerInv', BooksBalance', NEW r \in Handlers, handler[r].at = "set",
         Goto(r, Idle), UNCHANGED <<movements, time, opSeq, watch>>,
         plan' \in [Watchers -> [tier : Plans, end : Nat]],
         bought' \in [Watchers -> [opened : Nat, failed : Nat]],
         \A u \in Watchers :
            bought'[u].opened + bought'[u].failed =
                bought[u].opened + bought[u].failed
                    + IF handler[r].paid /\ u = handler[r].user THEN 1 ELSE 0
  PROVE  WatchInv'
  <1> DEFINE h == handler[r]
  <1>1. /\ h.at = "set" /\ h \in Running
        /\ UNCHANGED <<movements, time, opSeq, watch>>
    BY RunningTyped DEF WatchInv
  <1>2. /\ handler' \in [Handlers -> Running \cup {Idle}] /\ handler'[r] = Idle
        /\ \A s \in Handlers : s # r => handler'[s] = handler[s]
    BY GotoTyped DEF WatchInv
  <1>3. h.user \in Watchers
    BY <1>1 DEF Running
  <1> HIDE DEF h
  <1>4. WatchTypeOK'
    BY <1>1, <1>2 DEF WatchInv, WatchTypeOK
  <1>5. CountStillHolds'
    <2>1. /\ time <= time'
          /\ \A u \in Watchers, w \in Wallets : watch'[u][w] <= watch[u][w]
      BY <1>1 DEF WatchInv, WatchTypeOK
    <2> QED
      BY <1>2, <1>4, <2>1, CountsStay DEF Idle
  <1>6. RequestsSound'
    BY <1>1, <1>2 DEF WatchInv, RequestsSound, Idle
  <1>7. OpsGivenOut'
    BY <1>1 DEF WatchInv, OpsGivenOut
  <1>8. ASSUME NEW u \in Watchers
        PROVE  bought'[u].opened + bought'[u].failed + Cardinality(Unwritten(u)') =
                   Cardinality(Charged(u)')
    <2>1. /\ IsFiniteSet(Unwritten(u)) /\ IsFiniteSet(Charged(u))
      <3>1. Unwritten(u) \in SUBSET Handlers /\ Charged(u) \in SUBSET MovementIds
        BY DEF Unwritten, Charged, MovementIds
      <3> QED
        BY <3>1, FS_Subset, WatchAssumption, LedgerAssumption
    <2>2. /\ Cardinality(Unwritten(u)) \in Nat /\ Cardinality(Charged(u)) \in Nat
          /\ bought[u].opened \in Nat /\ bought[u].failed \in Nat
          /\ bought'[u].opened \in Nat /\ bought'[u].failed \in Nat
      BY <2>1, FS_CardinalityType DEF WatchInv, WatchTypeOK
    <2>3. bought[u].opened + bought[u].failed + Cardinality(Unwritten(u)) =
              Cardinality(Charged(u))
      BY DEF WatchInv, PurchasesCharged
    <2>4. Charged(u)' = Charged(u)
      BY <1>1 DEF Charged
    <2>5. CASE h.user = u /\ h.paid
      <3>1. Unwritten(u)' = Unwritten(u) \ {r} /\ r \in Unwritten(u)
        BY <1>1, <1>2, <2>5 DEF Unwritten, Idle, h
      <3>2. Cardinality(Unwritten(u)') = Cardinality(Unwritten(u)) - 1
        BY <2>1, <3>1, FS_RemoveElement
      <3>3. bought'[u].opened + bought'[u].failed = bought[u].opened + bought[u].failed + 1
        BY <2>5 DEF h
      <3>4. bought'[u].opened + bought'[u].failed + Cardinality(Unwritten(u)') =
                bought[u].opened + bought[u].failed + Cardinality(Unwritten(u))
        <4> DEFINE o == bought[u].opened
                   f == bought[u].failed
                   c == Cardinality(Unwritten(u))
                   o1 == bought'[u].opened
                   f1 == bought'[u].failed
                   c1 == Cardinality(Unwritten(u)')
        <4>1. o \in Nat /\ f \in Nat /\ c \in Nat /\ o1 \in Nat /\ f1 \in Nat
          BY <2>2
        <4>2. c1 = c - 1 /\ o1 + f1 = o + f + 1
          BY <3>2, <3>3
        <4> HIDE DEF o, f, c, o1, f1, c1
        <4>3. o1 + f1 + c1 = o + f + c
          BY <4>1, <4>2
        <4> QED
          BY <4>3 DEF o, f, c, o1, f1, c1
      <3>5. Cardinality(Charged(u)') = Cardinality(Charged(u))
        BY <2>4
      <3> QED
        BY <2>3, <3>4, <3>5
    <2>6. CASE ~(h.user = u /\ h.paid)
      <3>1. Unwritten(u)' = Unwritten(u)
        BY <1>1, <1>2, <2>6 DEF Unwritten, Idle, h
      <3>2. bought'[u].opened + bought'[u].failed = bought[u].opened + bought[u].failed
        BY <2>2, <2>6 DEF h
      <3> QED
        BY <2>2, <2>3, <2>4, <3>1, <3>2
    <2> QED
      BY <2>5, <2>6
  <1>9. PurchasesCharged'
    BY <1>8 DEF PurchasesCharged
  <1> QED
    BY <1>4, <1>5, <1>6, <1>7, <1>9 DEF WatchInv

LEMMA WriteSafe ==
  ASSUME WatchInv, LedgerInv', BooksBalance', NEW r \in Handlers, handler[r].at = "set",
         SetTier(r) \/ HandlerThrows(r)
  PROVE  WatchInv'
  <1> DEFINE h == handler[r]
             n == IF h.paid THEN 1 ELSE 0
  <1>1. h \in Running /\ Goto(r, Idle) /\ UNCHANGED <<movements, time, opSeq, watch>>
    BY RunningTyped DEF SetTier, HandlerThrows, WatchInv, ledgerStore
  <1>2. h.user \in Watchers /\ h.tier \in Plans /\ h.now \in Nat /\ Month \in Nat
        /\ h.paid \in BOOLEAN
    BY <1>1, WatchAssumption DEF Running
  <1>3. plan' \in [Watchers -> [tier : Plans, end : Nat]]
    <2>1. plan \in [Watchers -> [tier : Plans, end : Nat]]
      BY DEF WatchInv, WatchTypeOK
    <2>2. \/ plan' = plan
          \/ plan' = [plan EXCEPT ![h.user] =
                         [tier |-> h.tier, end |-> IF h.tier = FREE THEN 0 ELSE h.now + Month]]
      BY DEF SetTier, HandlerThrows
    <2> HIDE DEF h
    <2> QED
      BY <1>2, <2>1, <2>2
  <1>4. bought \in [Watchers -> [opened : Nat, failed : Nat]]
    BY DEF WatchInv, WatchTypeOK
  <1>5. \/ bought' = [bought EXCEPT ![h.user].opened = @ + n]
        \/ bought' = [bought EXCEPT ![h.user].failed = @ + n]
        \/ n = 0 /\ bought' = bought
    BY DEF SetTier, HandlerThrows
  <1>6. /\ bought' \in [Watchers -> [opened : Nat, failed : Nat]]
        /\ \A u \in Watchers :
              bought'[u].opened + bought'[u].failed =
                  bought[u].opened + bought[u].failed + IF u = h.user THEN n ELSE 0
    <2>1. n \in Nat
      OBVIOUS
    <2> HIDE DEF h, n
    <2> QED
      BY <1>2, <1>4, <1>5, <2>1
  <1>7. \A u \in Watchers :
            bought'[u].opened + bought'[u].failed =
                bought[u].opened + bought[u].failed
                    + IF handler[r].paid /\ u = handler[r].user THEN 1 ELSE 0
    BY <1>6
  <1> QED
    BY <1>1, <1>3, <1>6, <1>7, PurchaseEnds

\* What becomes of a request that was overtaken.
Overtaken(h) == [h EXCEPT !.alone = FALSE]

LEMMA OvertakenTyped ==
  ASSUME NEW h \in Running
  PROVE  Overtaken(h) \in Running /\ ~Overtaken(h).alone
  BY DEF Overtaken, Running

LEMMA OvertakenSame ==
  ASSUME NEW h \in Running
  PROVE  Overtaken(h).at = h.at /\ Overtaken(h).now = h.now
  BY DEF Overtaken, Running

LEMMA OvertakenPaid ==
  ASSUME NEW h \in Running
  PROVE  Overtaken(h).paid = h.paid
  BY DEF Overtaken, Running

\* What subscribing does: one more watch of this user, and the requests of the
\* user that have counted are no longer alone.
LEMMA SubscribeEffect ==
  ASSUME WatchInv, NEW r \in Handlers, Subscribe(r)
  PROVE  /\ handler[r] \in Running /\ handler[r].user \in Watchers
         /\ UNCHANGED <<movements, time, opSeq, plan, bought>>
         /\ watch' = [watch EXCEPT ![handler[r].user][handler[r].order.wallet] =
                          handler[r].now + Month]
         /\ handler' \in [Handlers -> Running \cup {Idle}]
         /\ handler'[r] = Idle
         /\ \A s \in Handlers :
               \/ handler'[s] = Idle /\ s = r
               \/ s # r /\ handler'[s] = handler[s]
                   /\ ~(handler[s].at \in {"issue", "subscribe"} /\ handler[s].user = handler[r].user)
               \/ handler'[s] = Overtaken(handler[s])
                   /\ handler[s] \in Running /\ handler[s].at \in {"issue", "subscribe"}
  <1> DEFINE h == handler[r]
             Counted(s) == handler[s].at \in {"issue", "subscribe"} /\ handler[s].user = h.user
             next(s) == CASE s = r      -> Idle
                          [] s # r /\ Counted(s) -> Overtaken(handler[s])
                          [] OTHER      -> handler[s]
  <1>1. h \in Running /\ h.user \in Watchers
    BY RunningTyped DEF Subscribe, WatchInv, Running
  <1>2. handler' = [s \in Handlers |-> next(s)]
    BY DEF Subscribe, Overtaken
  <1>3. ASSUME NEW s \in Handlers
        PROVE  /\ next(s) \in Running \cup {Idle}
               /\ \/ next(s) = Idle /\ s = r
                  \/ s # r /\ next(s) = handler[s] /\ ~Counted(s)
                  \/ next(s) = Overtaken(handler[s])
                      /\ handler[s] \in Running /\ handler[s].at \in {"issue", "subscribe"}
    <2>1. CASE s = r
      BY <2>1
    <2>2. CASE s # r /\ Counted(s)
      <3>1. handler[s] \in Running
        BY <2>2, RunningTyped DEF WatchInv
      <3>2. Overtaken(handler[s]) \in Running
        BY <3>1, OvertakenTyped
      <3>3. next(s) = Overtaken(handler[s])
        BY <2>2
      <3> QED
        BY <2>2, <3>1, <3>2, <3>3
    <2>3. CASE s # r /\ ~Counted(s)
      <3>1. next(s) = handler[s]
        BY <2>3
      <3>2. handler[s] \in Running \cup {Idle}
        BY DEF WatchInv, WatchTypeOK
      <3> HIDE DEF next
      <3> QED
        BY <2>3, <3>1, <3>2
    <2> QED
      BY <2>1, <2>2, <2>3
  <1> HIDE DEF next
  <1>4. handler' \in [Handlers -> Running \cup {Idle}] /\ \A s \in Handlers : handler'[s] = next(s)
    BY <1>2, <1>3
  <1>5. handler'[r] = Idle
    BY <1>4 DEF next
  <1> QED
    BY <1>1, <1>3, <1>4, <1>5 DEF Subscribe, ledgerStore

\* The watch that is taken fits what its request counted, if it was alone.
LEMMA SubscribeFits ==
  ASSUME WatchInv, NEW r \in Handlers, Subscribe(r), NEW u \in Watchers \ AdminUsers,
         handler[r].user = u, handler[r].alone
  PROVE  ActiveCount(u, time)' <= MaxWallets[handler[r].tier]
  <1> DEFINE w  == handler[r].order.wallet
             tier == handler[r].tier
             now == {x \in Wallets : watch'[u][x] > time'}
  <1>1. /\ handler[r] \in Running
        /\ watch' = [watch EXCEPT ![u][w] = handler[r].now + Month] /\ time' = time
    BY SubscribeEffect
  <1>2. MaxWallets[tier] \in Nat
    BY <1>1, WatchAssumption DEF Running
  <1>3. now \subseteq Active(u, time) \cup {w}
    <2>1. \A x \in Wallets : x # w => watch'[u][x] = watch[u][x]
      BY <1>1 DEF WatchInv, WatchTypeOK
    <2> QED
      BY <1>1, <2>1 DEF Active
  <1>4. IsFiniteSet(Active(u, time)) /\ Cardinality(Active(u, time)) < MaxWallets[tier]
    <2>1. CountHolds(r) /\ handler[r].at = "subscribe"
      BY DEF WatchInv, CountStillHolds, Subscribe
    <2>2. ActiveCount(u, time) < MaxWallets[tier]
      BY <2>1 DEF CountHolds
    <2>3. Active(u, time) \in SUBSET Wallets
      BY DEF Active
    <2> QED
      BY <2>2, <2>3, ActiveTyped, FS_Subset, WatchAssumption
  <1> HIDE DEF w, tier
  <1>5. /\ IsFiniteSet(Active(u, time) \cup {w})
        /\ Cardinality(Active(u, time) \cup {w}) <= Cardinality(Active(u, time)) + 1
    BY <1>4, OneMore
  <1>6. Cardinality(now) <= Cardinality(Active(u, time) \cup {w}) /\ IsFiniteSet(now)
    BY <1>3, <1>5, FS_Subset
  <1>7. /\ Cardinality(now) \in Nat /\ Cardinality(Active(u, time)) \in Nat
        /\ Cardinality(Active(u, time) \cup {w}) \in Nat
    BY <1>4, <1>5, <1>6, FS_CardinalityType
  <1>8. Cardinality(now) <= MaxWallets[tier]
    BY <1>2, <1>4, <1>5, <1>6, <1>7
  <1> QED
    BY <1>8 DEF ActiveCount, tier

LEMMA SubscribeSafe ==
  ASSUME WatchInv, LedgerInv', BooksBalance', NEW r \in Handlers, Subscribe(r)
  PROVE  WatchInv'
  <1> DEFINE h == handler[r]
  <1>1. /\ h \in Running /\ h.user \in Watchers
        /\ UNCHANGED <<movements, time, opSeq, plan, bought>>
        /\ watch' = [watch EXCEPT ![h.user][h.order.wallet] = h.now + Month]
        /\ handler' \in [Handlers -> Running \cup {Idle}]
        /\ handler'[r] = Idle
    BY SubscribeEffect
  <1>2. ASSUME NEW s \in Handlers
        PROVE  \/ handler'[s] = Idle /\ s = r
               \/ s # r /\ handler'[s] = handler[s]
                   /\ ~(handler[s].at \in {"issue", "subscribe"} /\ handler[s].user = h.user)
               \/ handler'[s] = Overtaken(handler[s])
                   /\ handler[s] \in Running /\ handler[s].at \in {"issue", "subscribe"}
    BY SubscribeEffect
  <1>3. ASSUME NEW s \in Handlers, handler[s] \in Running
        PROVE  /\ Overtaken(handler[s]).at = handler[s].at
               /\ Overtaken(handler[s]).now = handler[s].now
               /\ ~Overtaken(handler[s]).alone
               /\ Overtaken(handler[s]).paid = handler[s].paid
    BY <1>3, OvertakenTyped, OvertakenSame, OvertakenPaid
  <1>4. WatchTypeOK'
    <2>1. h.now + Month \in Nat
      BY <1>1, WatchAssumption DEF Running
    <2> HIDE DEF h
    <2>2. watch' \in [Watchers -> [Wallets -> Nat]]
      BY <1>1, <2>1 DEF WatchInv, WatchTypeOK
    <2> QED
      BY <1>1, <2>2 DEF WatchInv, WatchTypeOK
  <1>5. RequestsSound'
    <2> SUFFICES ASSUME NEW s \in Handlers, handler'[s].at # "idle"
                 PROVE  handler'[s].now <= time' /\ (handler'[s].paid => handler'[s].at = "set")
      BY DEF RequestsSound
    <2>1. /\ handler'[s].at = handler[s].at /\ handler'[s].now = handler[s].now
          /\ handler'[s].paid = handler[s].paid
      <3>1. CASE handler'[s] = handler[s]
        BY <3>1
      <3>2. CASE handler'[s] # handler[s]
        BY <1>2, <1>3, <3>2 DEF Idle
      <3> QED
        BY <3>1, <3>2
    <2>2. handler[s].now <= time /\ (handler[s].paid => handler[s].at = "set")
      BY <2>1 DEF WatchInv, RequestsSound
    <2>3. handler'[s].now <= time'
      BY <1>1, <2>1, <2>2
    <2> QED
      BY <2>1, <2>2, <2>3
  <1>6. CountStillHolds'
    <2> SUFFICES ASSUME NEW s \in Handlers, handler'[s].at \in {"issue", "subscribe"},
                        handler'[s].alone, handler'[s].user \notin AdminUsers
                 PROVE  CountHolds(s)'
      BY DEF CountStillHolds, CountHolds
    <2>1. s # r /\ handler'[s] = handler[s] /\ handler[s].user # h.user
      BY <1>2, <1>3 DEF Idle
    <2>2. CountHolds(s)
      BY DEF WatchInv, CountStillHolds
    <2>3. watch'[handler[s].user] = watch[handler[s].user]
      <3>1. handler[s] \in Running
        BY <2>1, RunningTyped DEF WatchInv
      <3>2. handler[s].user \in Watchers
        BY <3>1 DEF Running
      <3> HIDE DEF h
      <3> QED
        BY <1>1, <2>1, <3>2 DEF WatchInv, WatchTypeOK
    <2>4. ActiveCount(handler[s].user, time) = Cardinality({x \in Wallets : watch'[handler[s].user][x] > time'})
      BY <1>1, <2>3 DEF ActiveCount
    <2>5. ActiveCount(handler[s].user, time) < MaxWallets[handler[s].tier]
      BY <2>1, <2>2 DEF CountHolds
    <2> QED
      BY <2>1, <2>4, <2>5 DEF CountHolds, ActiveCount
  <1>7. OpsGivenOut'
    BY <1>1 DEF WatchInv, OpsGivenOut
  <1>8. PurchasesCharged'
    <2>1. \A u \in Watchers : Unwritten(u)' = Unwritten(u)
      <3> SUFFICES ASSUME NEW s \in Handlers, handler[s].at = "set" \/ handler'[s].at = "set"
                   PROVE  handler'[s] = handler[s]
        BY DEF Unwritten
      <3> QED
        BY <1>2, <1>3 DEF Idle, Subscribe
    <2> QED
      BY <1>1, <2>1, PlansStayPaid
  <1> QED
    BY <1>4, <1>5, <1>6, <1>7, <1>8 DEF WatchInv

\* A purchase, free or charged, or one that is refused.
LEMMA BuySafe ==
  ASSUME WatchInv, LedgerInv', BooksBalance', NEW r \in Handlers, Buy(r)
  PROVE  WatchInv'
  <1> DEFINE h == handler[r]
             g == [h EXCEPT !.tier = h.order.tier]
             p == [h EXCEPT !.tier = h.order.tier, !.paid = TRUE]
  <1>1. /\ h.at = "persist" /\ h.order.kind = "plan" /\ h \in Running /\ ~h.paid
        /\ UNCHANGED <<time, plan, watch, bought>>
    BY Unpaid DEF Buy
  <1>2. h.user \in Watchers /\ h.order.tier \in Plans
    BY <1>1 DEF Running, Orders
  <1>3. g \in Running /\ p \in Running
    BY <1>1, <1>2, RequestTyped
  <1>4. ~g.paid
    BY <1>1 DEF Running
  <1>5. p.paid /\ p.user = h.user
    BY <1>1 DEF Running
  <1>6. CASE Goto(r, Idle) /\ UNCHANGED <<ledgerStore, opSeq>>
    BY <1>1, <1>6, EndSafe DEF ledgerStore
  <1>7. CASE Query(r, g, "set") /\ UNCHANGED <<ledgerStore, opSeq>>
    <2> HIDE DEF g
    <2> QED
      BY <1>1, <1>3, <1>4, <1>7, QuerySafe DEF ledgerStore
  <1>8. CASE /\ opSeq < MaxBuys /\ opSeq' = opSeq + 1
             /\ Charge(h.user, OpId(opSeq), PlanCost[h.order.tier], TRUE)
             /\ Query(r, p, "set")
    <2>1. /\ OpId(opSeq) \in Ops /\ OpId(opSeq) = opSeq + 1
          /\ movements[OpId(opSeq)] = NoMovement
          /\ movements'[OpId(opSeq)] # NoMovement
          /\ movements'[OpId(opSeq)].user = h.user
          /\ \A i \in MovementIds : i # OpId(opSeq) => movements'[i] = movements[i]
      <3> HIDE DEF h
      <3> QED
        BY <1>2, <1>8, PurchaseBooks
    <2>2. movements'[OpId(opSeq)].user = p.user /\ handler[r].at = "persist"
      BY <1>1, <1>5, <2>1
    <2> HIDE DEF h, p
    <2> QED
      BY <1>1, <1>3, <1>5, <1>8, <2>1, <2>2, PurchaseSafe
  <1>9. CASE Goto(r, Idle) /\ opSeq' = opSeq + 1 /\ UNCHANGED ledgerStore
    <2>1. handler' \in [Handlers -> Running \cup {Idle}] /\ handler'[r] = Idle
          /\ \A s \in Handlers : s # r => handler'[s] = handler[s]
      BY <1>9, GotoTyped DEF WatchInv
    <2>2. WatchTypeOK'
      BY <1>1, <1>9, <2>1 DEF WatchInv, WatchTypeOK
    <2>3. CountStillHolds'
      <3>1. /\ time <= time'
            /\ \A u \in Watchers, w \in Wallets : watch'[u][w] <= watch[u][w]
        BY <1>1 DEF WatchInv, WatchTypeOK
      <3> QED
        BY <2>1, <2>2, <3>1, CountsStay DEF Idle
    <2>4. RequestsSound'
      BY <1>1, <2>1 DEF WatchInv, RequestsSound, Idle
    <2>5. OpsGivenOut'
      BY <1>9 DEF WatchInv, WatchTypeOK, OpsGivenOut, ledgerStore
    <2>6. PurchasesCharged'
      <3>1. \A u \in Watchers : Unwritten(u)' = Unwritten(u)
        BY <1>1, <2>1 DEF Unwritten, Idle
      <3> QED
        BY <1>1, <1>9, <3>1, PlansStayPaid DEF ledgerStore
    <2> QED
      BY <2>2, <2>3, <2>4, <2>5, <2>6 DEF WatchInv
  <1> QED
    BY <1>6, <1>7, <1>8, <1>9 DEF Buy

\* Without a request the clock only advances and watches only end.
LEMMA AmbientShrinks ==
  ASSUME WatchInv,
         \/ \E u \in Watchers, current \in BOOLEAN : Consent(u, current)
         \/ \E u \in Watchers, w \in Wallets : CancelWatch(u, w)
         \/ TimePasses
         \/ UNCHANGED <<settlementVars, watchVars>>
  PROVE  /\ time \in Nat /\ time' \in Nat /\ time <= time'
         /\ watch' \in [Watchers -> [Wallets -> Nat]]
         /\ \A u \in Watchers, w \in Wallets : watch'[u][w] <= watch[u][w]
  <1>1. time \in Nat /\ watch \in [Watchers -> [Wallets -> Nat]]
    BY DEF WatchInv, WatchTypeOK
  <1>2. \A u \in Watchers, w \in Wallets : watch[u][w] \in Nat
    BY <1>1
  <1>3. CASE watch' = watch /\ (time' = time \/ time' = time + 1)
    BY <1>1, <1>2, <1>3
  <1>4. CASE \E u \in Watchers, w \in Wallets : CancelWatch(u, w)
    <2>1. PICK u \in Watchers, w \in Wallets :
              watch' = [watch EXCEPT ![u][w] = 0] /\ time' = time
      BY <1>4 DEF CancelWatch
    <2>2. watch' = [watch EXCEPT ![u] = [watch[u] EXCEPT ![w] = 0]]
      BY <2>1
    <2>3. [watch[u] EXCEPT ![w] = 0] \in [Wallets -> Nat]
      BY <1>1
    <2>4. watch' \in [Watchers -> [Wallets -> Nat]]
      BY <1>1, <2>2, <2>3
    <2>5. \A v \in Watchers, x \in Wallets : watch'[v][x] <= watch[v][x]
      <3> SUFFICES ASSUME NEW v \in Watchers, NEW x \in Wallets
                   PROVE  watch'[v][x] <= watch[v][x]
        OBVIOUS
      <3>1. watch'[v][x] = watch[v][x] \/ watch'[v][x] = 0
        BY <1>1, <2>2
      <3> QED
        BY <1>2, <3>1
    <2> QED
      BY <1>1, <2>1, <2>4, <2>5
  <1> QED
    BY <1>3, <1>4 DEF Consent, TimePasses, watchVars

\* The steps that are no request's.
LEMMA AmbientSafe ==
  ASSUME WatchInv, LedgerInv', BooksBalance',
         \/ \E u \in Watchers, current \in BOOLEAN : Consent(u, current)
         \/ \E u \in Watchers, w \in Wallets : CancelWatch(u, w)
         \/ TimePasses
         \/ UNCHANGED <<settlementVars, watchVars>>
  PROVE  WatchInv'
  <1>1. UNCHANGED <<movements, bought, opSeq, handler, plan>>
    BY DEF Consent, CancelWatch, TimePasses, Register, ledgerStore, watchVars, settlementVars
  <1>2. time \in Nat /\ time' \in Nat /\ time <= time'
    BY AmbientShrinks
  <1>3. /\ watch' \in [Watchers -> [Wallets -> Nat]]
        /\ \A u \in Watchers, w \in Wallets : watch'[u][w] <= watch[u][w]
    BY AmbientShrinks
  <1>4. WatchTypeOK'
    BY <1>1, <1>2, <1>3 DEF WatchInv, WatchTypeOK
  <1> QED
    BY <1>1, <1>2, <1>3, <1>4, CalmSafe

LEMMA WatchStepSafe ==
  WatchInv /\ [WatchNext]_<<settlementVars, watchVars>> => WatchInv'
  <1> SUFFICES ASSUME WatchInv, [WatchNext]_<<settlementVars, watchVars>> PROVE WatchInv'
    OBVIOUS
  <1>1. LedgerInv' /\ BooksBalance'
    BY WatchBooks
  <1>2. ASSUME NEW r \in Handlers, HandlerSteps(r) PROVE WatchInv'
    <2> DEFINE h == handler[r]
    <2>1. ASSUME NEW u \in Watchers, NEW order \in Orders, Arrive(r, u, order)
          PROVE  WatchInv'
      <3> DEFINE g == [at |-> "persist", now |-> time, user |-> u, order |-> order,
                       tier |-> FREE, paid |-> FALSE, alone |-> TRUE]
      <3>1. time \in Nat /\ FREE \in Plans
        BY WatchAssumption DEF WatchInv, WatchTypeOK
      <3>2. g \in Running
        BY <3>1 DEF Running
      <3>3. g.now = time /\ ~g.paid /\ g.at \notin {"issue", "subscribe"}
        OBVIOUS
      <3>4. Goto(r, g) /\ UNCHANGED <<movements, time, opSeq, plan, watch, bought>>
        BY <2>1 DEF Arrive, Register
      <3> HIDE DEF g
      <3>5. handler[r].at # "set"
        BY <2>1 DEF Arrive, Idle
      <3>6. /\ handler' \in [Handlers -> Running \cup {Idle}] /\ handler'[r] = g
            /\ \A s \in Handlers : s # r => handler'[s] = handler[s]
        BY <3>2, <3>4, GotoTyped DEF WatchInv
      <3> QED
        BY <1>1, <3>3, <3>4, <3>5, <3>6, RequestSafe
    <2>2. CASE Buy(r)
      BY <1>1, <2>2, BuySafe
    <2>3. CASE SetTier(r)
      BY <1>1, <2>3, WriteSafe DEF SetTier
    <2>4. CASE AskTier(r)
      <3>1. h \in Running /\ ~h.paid /\ h.at # "set"
            /\ UNCHANGED <<movements, time, opSeq, plan, watch, bought>>
            /\ (Query(r, h, "tier") \/ Goto(r, Idle))
        BY <2>4, Unpaid DEF AskTier, ledgerStore
      <3> QED
        BY <1>1, <3>1, QuerySafe, EndSafe
    <2>5. CASE ReadTier(r)
      <3> DEFINE g == [h EXCEPT !.tier = TierOf(h.user, h.now)]
      <3>1. h \in Running /\ ~h.paid /\ h.at # "set"
            /\ UNCHANGED <<movements, time, opSeq, plan, watch, bought>>
            /\ Query(r, g, "count")
        BY <2>5, Unpaid DEF ReadTier, ledgerStore
      <3>2. h.user \in Watchers
        BY <3>1 DEF Running
      <3>3. TierOf(h.user, h.now) \in Plans
        <4> HIDE DEF h
        <4> QED
          BY <3>2, WatchAssumption DEF TierOf, WatchInv, WatchTypeOK
      <3>4. g \in Running
        BY <3>1, <3>3, RequestTyped
      <3>5. ~g.paid
        BY <3>1 DEF Running
      <3> HIDE DEF g
      <3> QED
        BY <1>1, <3>1, <3>4, <3>5, QuerySafe
    <2>6. CASE CountUsed(r)
      BY <1>1, <2>6, CountSafe
    <2>7. CASE IssueWatch(r)
      <3>1. h \in Running /\ ~h.paid /\ h.at = "issue"
            /\ UNCHANGED <<movements, time, opSeq, plan, watch, bought>>
            /\ Query(r, h, "subscribe")
        BY <2>7, Unpaid DEF IssueWatch, ledgerStore
      <3> QED
        BY <1>1, <3>1, QuerySafe
    <2>8. CASE Subscribe(r)
      BY <1>1, <2>8, SubscribeSafe
    <2>9. CASE HandlerThrows(r) /\ handler[r].at # "set"
      BY <1>1, <2>9, EndSafe DEF HandlerThrows, ledgerStore
    <2>10. CASE HandlerThrows(r) /\ handler[r].at = "set"
      BY <1>1, <2>10, WriteSafe
    <2> QED
      BY <1>2, <2>1, <2>2, <2>3, <2>4, <2>5, <2>6, <2>7, <2>8, <2>9, <2>10
         DEF HandlerSteps
  <1>3. ASSUME NEW p \in Payments, NEW paid \in PaidAmounts, Settle(p, paid),
               UNCHANGED watchVars
        PROVE  WatchInv'
    <2>1. /\ \A op \in Ops : movements'[op] = movements[op]
          /\ UNCHANGED <<time, opSeq, plan, watch, handler, bought>>
      BY <1>3, PaymentBooks DEF watchVars
    <2>2. WatchTypeOK' /\ time <= time'
          /\ \A u \in Watchers, w \in Wallets : watch'[u][w] <= watch[u][w]
      BY <2>1 DEF WatchInv, WatchTypeOK
    <2> QED
      BY <1>1, <2>1, <2>2, CalmSafe
  <1> QED
    BY <1>1, <1>2, <1>3, AmbientSafe DEF WatchNext, WatchRoutes

LEMMA WatchSafe == WatchSpec => []WatchInv
  BY WatchInitSafe, WatchStepSafe, PTL DEF WatchSpec

\* Charges and purchases outside the promotion are as many, user by user, the
\* plans opened and the writes that failed: POST /wallet-watch/subscribe.
THEOREM PlansArePaid == WatchSpec => []PlanIsPaid
  <1>1. WatchInv => PlanIsPaid
    <2> SUFFICES ASSUME WatchInv PROVE PlanIsPaid
      OBVIOUS
    <2>1. \A u \in Watchers : ChargesOf(u) = Charged(u)
      BY DEF WatchInv, OpsGivenOut, ChargesOf, Charged
    <2> QED
      BY <2>1 DEF WatchInv, PurchasesCharged, PlanIsPaid
  <1> QED
    BY <1>1, WatchSafe, PTL

\* The routes of the watch keep the books as well.
THEOREM WatchBooksBalance == WatchSpec => []BooksBalance /\ AccountsMoveByTheBook
  <1>1. WatchInv => BooksBalance
    BY DEF WatchInv
  <1>2. WatchInv /\ [WatchNext]_<<settlementVars, watchVars>> =>
            [\A u \in Users : MovedByTheBook(u)]_ledgerStore
    BY WatchBooks, BookStepMoves DEF WatchInv
  <1> QED
    BY <1>1, <1>2, WatchSafe, PTL DEF WatchSpec, AccountsMoveByTheBook

\* Nobody gets above their plan's wallets but by two requests that counted
\* before either subscribed: POST /wallet-watch/subscribe.
THEOREM QuotaKept == WatchSpec => QuotaHolds
  <1>1. WatchInv /\ [WatchNext]_<<settlementVars, watchVars>> =>
            [\A u \in Watchers \ AdminUsers : TakesWithinQuota(u)]_<<ledgerStore, watchVars>>
    <2> SUFFICES ASSUME WatchInv, WatchNext, NEW u \in Watchers \ AdminUsers,
                        ActiveCount(u, time)' > ActiveCount(u, time)
                 PROVE  \E r \in Handlers :
                           /\ handler[r].at = "subscribe" /\ handler[r].user = u
                           /\ handler[r].alone =>
                                ActiveCount(u, time)' <= MaxWallets[handler[r].tier]
      BY DEF TakesWithinQuota, settlementVars, ledgerStore
    <2>1. ~(/\ time <= time'
            /\ \A w \in Wallets : watch'[u][w] <= watch[u][w]
            /\ time' \in Nat /\ watch'[u] \in [Wallets -> Nat])
      <3> SUFFICES ASSUME time <= time', \A w \in Wallets : watch'[u][w] <= watch[u][w],
                          time' \in Nat, watch'[u] \in [Wallets -> Nat]
                   PROVE  FALSE
        OBVIOUS
      <3> DEFINE now == {w \in Wallets : watch'[u][w] > time'}
      <3>1. now \subseteq Active(u, time)
        BY DEF Active, WatchInv, WatchTypeOK
      <3>2. /\ Cardinality(now) <= Cardinality(Active(u, time))
            /\ Cardinality(now) \in Nat /\ Cardinality(Active(u, time)) \in Nat
        BY <3>1, FewerActive DEF Active
      <3>3. ActiveCount(u, time)' = Cardinality(now)
        BY DEF ActiveCount
      <3>4. ActiveCount(u, time) = Cardinality(Active(u, time))
        BY DEF ActiveCount, Active
      <3> QED
        BY <3>2, <3>3, <3>4
    <2>2. WatchInv'
      BY WatchStepSafe
    <2>3. PICK r \in Handlers : Subscribe(r) /\ handler[r].user = u
      <3>1. ASSUME NEW r \in Handlers, Subscribe(r) PROVE handler[r].user = u
        <4>1. handler[r].user \in Watchers /\ time' = time
              /\ watch' = [watch EXCEPT ![handler[r].user][handler[r].order.wallet] =
                               handler[r].now + Month]
          BY <3>1, SubscribeEffect
        <4>2. CASE handler[r].user # u
          <5>1. watch'[u] = watch[u]
            BY <4>1, <4>2 DEF WatchInv, WatchTypeOK
          <5> QED
            BY <2>1, <4>1, <5>1 DEF WatchInv, WatchTypeOK
        <4> QED
          BY <4>2
      <3>2. CASE ~\E r \in Handlers : Subscribe(r)
        <4>1. time <= time' /\ \A w \in Wallets : watch'[u][w] <= watch[u][w]
          <5>1. CASE \E r \in Handlers : HandlerSteps(r)
            <6>1. UNCHANGED <<time, watch>>
              BY <3>2, <5>1 DEF HandlerSteps, Arrive, Buy, SetTier, AskTier, ReadTier,
                                CountUsed, IssueWatch, HandlerThrows
            <6> QED
              BY <6>1 DEF WatchInv, WatchTypeOK
          <5>2. CASE WatchRoutes /\ ~\E r \in Handlers : HandlerSteps(r)
            BY <5>2, AmbientShrinks, u \in Watchers DEF WatchRoutes
          <5>3. CASE UNCHANGED watchVars
            BY <5>3 DEF watchVars, WatchInv, WatchTypeOK
          <5> QED
            BY <5>1, <5>2, <5>3 DEF WatchNext
        <4>2. time' \in Nat /\ watch'[u] \in [Wallets -> Nat]
          BY <2>2 DEF WatchInv, WatchTypeOK
        <4> QED
          BY <2>1, <4>1, <4>2
      <3> QED
        BY <3>1, <3>2
    <2>4. handler[r].alone => ActiveCount(u, time)' <= MaxWallets[handler[r].tier]
      BY <2>3, SubscribeFits
    <2> QED
      BY <2>3, <2>4 DEF Subscribe
  <1> QED
    BY <1>1, WatchSafe, PTL DEF WatchSpec, QuotaHolds
=============================================================================
