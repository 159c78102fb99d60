------------------------ MODULE BalanceLedger_proofs ------------------------
(***************************************************************************)
(* Lemmas about the balance ledger, for any users, charges and payments:   *)
(* what an operation may do to the accounts and to the movements, and that *)
(* the books balance before and after it.                                  *)
(*                                                                         *)
(* The books need sums over finite sets.  Induction over a finite set is   *)
(* the choice of a smallest counterexample.                                *)
(***************************************************************************)
EXTENDS BalanceLedger, FiniteSetTheorems, TLAPS

---------------------------------------------------------------------------
(* Finite sets and sums *)

\* A set of subsets of a finite set has a smallest one.
LEMMA SmallestSubset ==
  ASSUME NEW D, IsFiniteSet(D), NEW C \in SUBSET SUBSET D, C # {}
  PROVE  \E s \in C : \A t \in C : t \subseteq s => t = s
  <1>1. IsWellFoundedOn(StrictSubsetOrdering(D), SUBSET D)
    BY FS_StrictSubsetOrderingWellFounded, FS_FiniteSubsetsOfFinite
  <1>2. PICK s \in C : \A t \in C : ~(<<t, s>> \in StrictSubsetOrdering(D))
    BY <1>1, WFMin
  <1> QED
    BY <1>2 DEF StrictSubsetOrdering

\* A set of numbers has a least one: the smallest of the intervals up to each.
LEMMA SmallestNumber ==
  ASSUME NEW S \in SUBSET Nat, S # {}
  PROVE  \E m \in S : \A n \in S : m <= n
  <1>1. PICK k \in S : TRUE
    OBVIOUS
  <1> DEFINE D == 0..k
             C == {0..n : n \in {i \in S : i <= k}}
  <1>2. IsFiniteSet(D)
    BY FS_Interval
  <1>3. C \in SUBSET SUBSET D /\ C # {}
    BY <1>1
  <1>4. PICK s \in C : \A t \in C : t \subseteq s => t = s
    <2> HIDE DEF C, D
    <2> QED
      BY <1>2, <1>3, SmallestSubset
  <1>5. PICK m \in S : m <= k /\ s = 0..m
    OBVIOUS
  <1>6. \A n \in S : n < m => FALSE
    <2> SUFFICES ASSUME NEW n \in S, n < m PROVE FALSE
      OBVIOUS
    <2>1. 0..n \in C /\ 0..n \subseteq s
      BY <1>5
    <2>2. 0..n = 0..m
      BY <1>4, <1>5, <2>1
    <2> QED
      BY <2>2
  <1> QED
    BY <1>6

Pick(s) == CHOOSE x \in s : TRUE

\* f sums w over the subsets of T, an element at a time.
Sums(w, T, f) ==
    f = [s \in SUBSET T |-> IF s = {} THEN 0 ELSE w[Pick(s)] + f[s \ {Pick(s)}]]

LEMMA SumsAgree ==
  ASSUME NEW D, IsFiniteSet(D), NEW w, NEW S \in SUBSET D, NEW T \in SUBSET D,
         NEW f, NEW g, Sums(w, S, f), Sums(w, T, g)
  PROVE  \A s \in SUBSET (S \cap T) : f[s] = g[s]
  <1> DEFINE bad == {s \in SUBSET (S \cap T) : f[s] # g[s]}
  <1> SUFFICES ASSUME bad # {} PROVE FALSE
    OBVIOUS
  <1>1. PICK s \in bad : \A t \in bad : t \subseteq s => t = s
    <2>1. bad \in SUBSET SUBSET D
      OBVIOUS
    <2> HIDE DEF bad
    <2> QED
      BY <2>1, SmallestSubset
  <1>2. s # {}
    BY DEF Sums
  <1>3. Pick(s) \in s
    BY <1>2 DEF Pick
  <1> DEFINE t == s \ {Pick(s)}
  <1>4. f[t] = g[t]
    BY <1>1, <1>3
  <1>5. f[s] = w[Pick(s)] + f[t] /\ g[s] = w[Pick(s)] + g[t]
    BY <1>2 DEF Sums
  <1> QED
    BY <1>4, <1>5

\* The recursion is defined on every finite set.
LEMMA SumsExist ==
  ASSUME NEW D, IsFiniteSet(D), NEW w
  PROVE  \A T \in SUBSET D : \E f : Sums(w, T, f)
  <1> DEFINE bad == {T \in SUBSET D : ~ \E f : Sums(w, T, f)}
  <1> SUFFICES ASSUME bad # {} PROVE FALSE
    OBVIOUS
  <1>1. PICK T \in bad : \A S \in bad : S \subseteq T => S = T
    <2>1. bad \in SUBSET SUBSET D
      OBVIOUS
    <2> HIDE DEF bad
    <2> QED
      BY <2>1, SmallestSubset
  <1> DEFINE h(s) == CHOOSE f : Sums(w, s, f)
             step(s) == IF s = {} THEN 0 ELSE w[Pick(s)] + h(s \ {Pick(s)})[s \ {Pick(s)}]
             g == [s \in SUBSET T |-> step(s)]
  <1>2. \A s \in SUBSET T : s # T => Sums(w, s, h(s))
    BY <1>1
  <1>3. \A s \in SUBSET T : s # {} => Pick(s) \in s
    BY DEF Pick
  <1>4. \A s \in SUBSET T : s # T => h(s)[s] = g[s]
    <2> SUFFICES ASSUME NEW s \in SUBSET T, s # T PROVE h(s)[s] = g[s]
      OBVIOUS
    <2>1. Sums(w, s, h(s))
      BY <1>2
    <2>2. CASE s = {}
      <3> HIDE DEF h
      <3> QED
        BY <2>1, <2>2 DEF Sums
    <2>3. CASE s # {}
      <3> DEFINE t == s \ {Pick(s)}
      <3>1. t \in SUBSET s /\ t # T
        BY <1>3, <2>3
      <3>2. Sums(w, t, h(t))
        BY <1>2, <3>1
      <3>3. h(s)[t] = h(t)[t]
        <4> HIDE DEF h, t
        <4>1. IsFiniteSet(D) /\ s \in SUBSET D /\ t \in SUBSET D /\ t \in SUBSET (s \cap t)
          BY <3>1
        <4> QED
          BY <2>1, <3>2, <4>1, SumsAgree
      <3>4. h(s)[s] = w[Pick(s)] + h(s)[t]
        <4> HIDE DEF h
        <4> QED
          BY <2>1, <2>3 DEF Sums
      <3> QED
        BY <2>3, <3>3, <3>4
    <2> QED
      BY <2>2, <2>3
  <1>5. Sums(w, T, g)
    <2>1. ASSUME NEW s \in SUBSET T, s # {}
          PROVE  g[s] = w[Pick(s)] + g[s \ {Pick(s)}]
      <3>1. s \ {Pick(s)} \in SUBSET T /\ s \ {Pick(s)} # T
        BY <1>3, <2>1
      <3>2. g[s \ {Pick(s)}] = h(s \ {Pick(s)})[s \ {Pick(s)}]
        BY <1>4, <3>1
      <3> QED
        BY <2>1, <3>2
    <2>2. g[{}] = 0
      OBVIOUS
    <2>3. g = [s \in SUBSET T |-> g[s]]
      OBVIOUS
    <2> HIDE DEF g
    <2> QED
      BY <2>1, <2>2, <2>3 DEF Sums
  <1> QED
    BY <1>1, <1>5

\* What SumOver computes, one element at a time.
LEMMA SumEquation ==
  ASSUME NEW D, IsFiniteSet(D), NEW w, DOMAIN w = D, NEW s \in SUBSET D
  PROVE  SumOver(w, s) = IF s = {} THEN 0 ELSE w[Pick(s)] + SumOver(w, s \ {Pick(s)})
  <1> DEFINE f == CHOOSE f : Sums(w, D, f)
  <1>1. Sums(w, D, f)
    BY SumsExist
  <1>2. \A t : SumOver(w, t) = f[t]
    BY DEF SumOver, Sums, Pick
  <1>3. s # {} => s \ {Pick(s)} \in SUBSET D
    OBVIOUS
  <1> HIDE DEF f
  <1> QED
    BY <1>1, <1>2, <1>3 DEF Sums

LEMMA SumIsNat ==
  ASSUME NEW D, IsFiniteSet(D), NEW w \in [D -> Nat], NEW s \in SUBSET D
  PROVE  SumOver(w, s) \in Nat
  <1> DEFINE bad == {t \in SUBSET D : SumOver(w, t) \notin Nat}
  <1> SUFFICES ASSUME bad # {} PROVE FALSE
    OBVIOUS
  <1>1. PICK t \in bad : \A r \in bad : r \subseteq t => r = t
    <2>1. bad \in SUBSET SUBSET D
      OBVIOUS
    <2> HIDE DEF bad
    <2> QED
      BY <2>1, SmallestSubset
  <1>2. SumOver(w, t) = IF t = {} THEN 0 ELSE w[Pick(t)] + SumOver(w, t \ {Pick(t)})
    BY SumEquation
  <1>3. t # {} => Pick(t) \in t
    BY DEF Pick
  <1>4. t # {} => SumOver(w, t \ {Pick(t)}) \in Nat
    BY <1>1, <1>3
  <1> QED
    BY <1>2, <1>3, <1>4

\* An element adds its own weight, wherever the recursion picks it.
LEMMA SumAdd ==
  ASSUME NEW D, IsFiniteSet(D), NEW w \in [D -> Nat], NEW s \in SUBSET D,
         NEW x \in D \ s
  PROVE  SumOver(w, s \cup {x}) = w[x] + SumOver(w, s)
  <1> DEFINE bad == {t \in SUBSET D :
                        \E y \in D \ t : SumOver(w, t \cup {y}) # w[y] + SumOver(w, t)}
  <1> SUFFICES ASSUME bad # {} PROVE FALSE
    OBVIOUS
  <1>1. PICK t \in bad : \A r \in bad : r \subseteq t => r = t
    <2>1. bad \in SUBSET SUBSET D
      OBVIOUS
    <2> HIDE DEF bad
    <2> QED
      BY <2>1, SmallestSubset
  <1>2. PICK y \in D \ t : SumOver(w, t \cup {y}) # w[y] + SumOver(w, t)
    OBVIOUS
  <1> DEFINE p == Pick(t \cup {y})
             r == t \ {p}
  <1>3. p \in t \cup {y}
    BY DEF Pick
  <1>4. SumOver(w, t \cup {y}) = w[p] + SumOver(w, (t \cup {y}) \ {p})
    BY SumEquation
  <1>5. p # y
    <2> SUFFICES ASSUME p = y PROVE FALSE
      OBVIOUS
    <2>1. (t \cup {y}) \ {p} = t
      OBVIOUS
    <2> QED
      BY <1>2, <1>4, <2>1
  <1>6. /\ p \in t /\ r \subseteq t /\ r # t /\ r \in SUBSET D
        /\ (t \cup {y}) \ {p} = r \cup {y} /\ r \cup {p} = t /\ y \in D \ r /\ p \in D \ r
    BY <1>3, <1>5
  <1>7. r \notin bad
    BY <1>1, <1>6
  <1>8. SumOver(w, r \cup {y}) = w[y] + SumOver(w, r)
    BY <1>6, <1>7
  <1>9. SumOver(w, t) = w[p] + SumOver(w, r)
    BY <1>6, <1>7
  <1>10. SumOver(w, r) \in Nat /\ w[p] \in Nat /\ w[y] \in Nat
    BY <1>6, SumIsNat
  <1>11. SumOver(w, t \cup {y}) = w[p] + SumOver(w, r \cup {y})
    BY <1>4, <1>6
  <1> HIDE DEF p, r, bad
  <1> QED
    BY <1>2, <1>8, <1>9, <1>10, <1>11

\* Only the weights of the elements count.
LEMMA SumSame ==
  ASSUME NEW D, IsFiniteSet(D), NEW v, NEW w, DOMAIN v = D, DOMAIN w = D,
         NEW s \in SUBSET D, \A x \in s : v[x] = w[x]
  PROVE  SumOver(v, s) = SumOver(w, s)
  <1> DEFINE bad == {t \in SUBSET s : SumOver(v, t) # SumOver(w, t)}
  <1> SUFFICES ASSUME bad # {} PROVE FALSE
    OBVIOUS
  <1>1. PICK t \in bad : \A r \in bad : r \subseteq t => r = t
    <2>1. bad \in SUBSET SUBSET D
      OBVIOUS
    <2> HIDE DEF bad
    <2> QED
      BY <2>1, SmallestSubset
  <1>2. /\ SumOver(v, t) = IF t = {} THEN 0 ELSE v[Pick(t)] + SumOver(v, t \ {Pick(t)})
        /\ SumOver(w, t) = IF t = {} THEN 0 ELSE w[Pick(t)] + SumOver(w, t \ {Pick(t)})
    BY SumEquation
  <1>3. t # {} => Pick(t) \in t
    BY DEF Pick
  <1>4. t # {} => SumOver(v, t \ {Pick(t)}) = SumOver(w, t \ {Pick(t)})
    BY <1>1, <1>3
  <1> QED
    BY <1>2, <1>3, <1>4

---------------------------------------------------------------------------
(* The ledger *)

\* Top-ups are booked under payments, charges under opIds, and only a charge is
\* ever given back.
LedgerInv ==
    /\ LedgerTypeOK
    /\ \A i \in MovementIds :
           movements[i] # NoMovement => (movements[i].kind = "TOPUP" <=> i \in Payments)
    /\ \A i \in refunded :
           movements[i] # NoMovement /\ movements[i].kind \in {"DEBIT", "FREE_DEBIT"}

LEMMA LedgerInitSafe == LedgerInit => LedgerInv
  BY DEF LedgerInit, LedgerInv, LedgerTypeOK

LEMMA RequireTyped ==
  ASSUME LedgerTypeOK, NEW u \in Users
  PROVE  Require(u) \in Account
  BY LedgerAssumption DEF LedgerTypeOK, Require, NewAccount, Account, AccountTier

\* What setting an account does to what is required of all.
LEMMA SetAccountRequire ==
  ASSUME LedgerTypeOK, NEW u \in Users, NEW a \in Account, SetAccount(u, a)
  PROVE  /\ accounts' \in [Users -> Account \cup {NoAccount}]
         /\ Require(u)' = a
         /\ \A v \in Users : v # u => Require(v)' = Require(v)
  BY LedgerAssumption DEF LedgerTypeOK, SetAccount, Require

LEMMA RecordTyped ==
  ASSUME LedgerTypeOK, NEW i \in MovementIds, NEW u \in Users,
         NEW kind \in {"TOPUP", "DEBIT", "FREE_DEBIT"}, NEW n \in Nat,
         Record(i, u, kind, n)
  PROVE  /\ movements' \in [MovementIds -> Movement \cup {NoMovement}]
         /\ movements'[i] = [user |-> u, kind |-> kind, amount |-> n]
         /\ movements'[i] # NoMovement
         /\ \A j \in MovementIds : j # i => movements'[j] = movements[j]
  <1>1. [user |-> u, kind |-> kind, amount |-> n] \in Movement
    BY DEF Movement
  <1> QED
    BY <1>1, LedgerAssumption DEF LedgerTypeOK, Record

\* What an operation can do to the books: book a movement, give a charge back,
\* or leave money and free scans as they are.
OthersStay(u) == \A v \in Users : v # u => Require(v)' = Require(v)

Booking(u, i, kind, n) ==
    /\ movements[i] = NoMovement
    /\ Record(i, u, kind, n)
    /\ UNCHANGED refunded
    /\ OthersStay(u)
    /\ \/ /\ kind = "TOPUP" /\ i \in Payments
          /\ Require(u)'.balance = Require(u).balance + n
          /\ Require(u)'.free = Require(u).free
       \/ /\ kind = "DEBIT" /\ i \in Ops
          /\ Require(u).balance = Require(u)'.balance + n
          /\ Require(u)'.free = Require(u).free
       \/ /\ kind = "FREE_DEBIT" /\ i \in Ops /\ n = 0
          /\ Require(u)'.balance = Require(u).balance
          /\ Require(u).free = Require(u)'.free + 1

GivingBack(u, i) ==
    /\ CanRefund(u, i)
    /\ refunded' = refunded \cup {i}
    /\ UNCHANGED movements
    /\ OthersStay(u)
    /\ \/ /\ movements[i].kind = "DEBIT"
          /\ Require(u)'.balance = Require(u).balance + movements[i].amount
          /\ Require(u)'.free = Require(u).free
       \/ /\ movements[i].kind = "FREE_DEBIT"
          /\ Require(u)'.balance = Require(u).balance
          /\ Require(u)'.free = Require(u).free + 1

Quiet ==
    /\ UNCHANGED <<movements, refunded>>
    /\ \A v \in Users :
           Require(v)'.balance = Require(v).balance /\ Require(v)'.free = Require(v).free

BookStep ==
    \/ Quiet
    \/ \E u \in Users, i \in MovementIds, kind \in {"TOPUP", "DEBIT", "FREE_DEBIT"}, n \in Nat :
           Booking(u, i, kind, n)
    \/ \E u \in Users, i \in MovementIds : GivingBack(u, i)

LEMMA RegisterBooks ==
  ASSUME LedgerInv, NEW u \in Users, Register(u)
  PROVE  Quiet /\ accounts' \in [Users -> Account \cup {NoAccount}]
  <1>1. Require(u) \in Account
    BY RequireTyped DEF LedgerInv
  <1>2. /\ accounts' \in [Users -> Account \cup {NoAccount}]
        /\ Require(u)' = Require(u)
        /\ \A v \in Users : v # u => Require(v)' = Require(v)
    BY <1>1, SetAccountRequire DEF LedgerInv, Register
  <1> QED
    BY <1>2 DEF Quiet, Register

LEMMA TopUpBooks ==
  ASSUME LedgerInv, NEW p \in Payments, NEW u \in Users, NEW amount \in Nat,
         NEW tiered \in BOOLEAN, TopUp(p, u, amount, tiered)
  PROVE  /\ accounts' \in [Users -> Account \cup {NoAccount}]
         /\ UNCHANGED refunded
         /\ movements[p] # NoMovement => Quiet
         /\ movements[p] = NoMovement => Booking(u, p, "TOPUP", amount)
         /\ OthersStay(u)
         /\ Require(u)'.tier = IF tiered THEN "COMMAND" ELSE Require(u).tier
  <1> DEFINE b == [Require(u) EXCEPT !.tier = IF tiered THEN "COMMAND" ELSE @]
             c == [b EXCEPT !.balance = @ + amount]
  <1>1. Require(u) \in Account
    BY RequireTyped DEF LedgerInv
  <1>2. /\ b \in Account /\ b.balance = Require(u).balance /\ b.free = Require(u).free
        /\ b.tier = IF tiered THEN "COMMAND" ELSE Require(u).tier
        /\ c \in Account /\ c.balance = Require(u).balance + amount
        /\ c.free = Require(u).free /\ c.tier = b.tier
    <2>1. /\ b \in Account /\ b.balance = Require(u).balance /\ b.free = Require(u).free
          /\ b.tier = IF tiered THEN "COMMAND" ELSE Require(u).tier
      BY <1>1 DEF Account, AccountTier
    <2>2. /\ c \in Account /\ c.balance = b.balance + amount
          /\ c.free = b.free /\ c.tier = b.tier
      <3> HIDE DEF b
      <3> QED
        BY <2>1 DEF Account
    <2> HIDE DEF b, c
    <2> QED
      BY <2>1, <2>2
  <1>3. p \in MovementIds
    BY DEF MovementIds
  <1>4. CASE movements[p] = NoMovement
    <2>1. SetAccount(u, c) /\ Record(p, u, "TOPUP", amount) /\ UNCHANGED refunded
      BY <1>4 DEF TopUp
    <2>2. accounts' \in [Users -> Account \cup {NoAccount}] /\ Require(u)' = c /\ OthersStay(u)
      <3> HIDE DEF c
      <3> QED
        BY <1>2, <2>1, SetAccountRequire DEF LedgerInv, OthersStay
    <2> QED
      BY <1>2, <1>4, <2>1, <2>2 DEF Booking
  <1>5. CASE movements[p] # NoMovement
    <2>1. SetAccount(u, b) /\ UNCHANGED <<movements, refunded>>
      BY <1>5 DEF TopUp
    <2>2. accounts' \in [Users -> Account \cup {NoAccount}] /\ Require(u)' = b /\ OthersStay(u)
      <3> HIDE DEF b
      <3> QED
        BY <1>2, <2>1, SetAccountRequire DEF LedgerInv, OthersStay
    <2> QED
      BY <1>2, <1>5, <2>1, <2>2 DEF Quiet, OthersStay
  <1> QED
    BY <1>4, <1>5

LEMMA ChargeBooks ==
  ASSUME LedgerInv, NEW u \in Users, NEW op \in Ops, NEW price \in Nat,
         NEW allowFree \in BOOLEAN, Charge(u, op, price, allowFree)
  PROVE  /\ accounts' \in [Users -> Account \cup {NoAccount}]
         /\ \A v \in Users : Require(v)'.tier = Require(v).tier
         /\ movements[op] # NoMovement => Quiet
         /\ movements[op] = NoMovement =>
              Booking(u, op, "FREE_DEBIT", 0) \/ Booking(u, op, "DEBIT", price)
  <1> DEFINE a == Require(u)
             b == [a EXCEPT !.free = @ - 1]
             c == [a EXCEPT !.balance = @ - price]
  <1>1. a \in Account
    BY RequireTyped DEF LedgerInv
  <1>2. op \in MovementIds
    BY DEF MovementIds
  <1>3. CASE movements[op] # NoMovement
    BY <1>3 DEF Charge, Quiet, Require, LedgerInv, LedgerTypeOK
  <1>4. CASE movements[op] = NoMovement /\ allowFree /\ a.free > 0
    <2>1. /\ b \in Account /\ b.balance = a.balance /\ a.free = b.free + 1 /\ b.tier = a.tier
      BY <1>1, <1>4 DEF Account
    <2>2. SetAccount(u, b) /\ Record(op, u, "FREE_DEBIT", 0) /\ UNCHANGED refunded
      BY <1>4 DEF Charge
    <2>3. accounts' \in [Users -> Account \cup {NoAccount}] /\ Require(u)' = b /\ OthersStay(u)
      <3> HIDE DEF b
      <3> QED
        BY <2>1, <2>2, SetAccountRequire DEF LedgerInv, OthersStay
    <2> QED
      BY <1>4, <2>1, <2>2, <2>3 DEF Booking, OthersStay
  <1>5. CASE movements[op] = NoMovement /\ ~(allowFree /\ a.free > 0)
    <2>1. a.balance >= price
      BY <1>5 DEF Charge, CanCharge
    <2>2. /\ c \in Account /\ a.balance = c.balance + price /\ c.free = a.free /\ c.tier = a.tier
      BY <1>1, <2>1 DEF Account
    <2>3. SetAccount(u, c) /\ Record(op, u, "DEBIT", price) /\ UNCHANGED refunded
      BY <1>5 DEF Charge
    <2>4. accounts' \in [Users -> Account \cup {NoAccount}] /\ Require(u)' = c /\ OthersStay(u)
      <3> HIDE DEF c
      <3> QED
        BY <2>2, <2>3, SetAccountRequire DEF LedgerInv, OthersStay
    <2> QED
      BY <1>5, <2>2, <2>3, <2>4 DEF Booking, OthersStay
  <1> QED
    BY <1>3, <1>4, <1>5

LEMMA RefundBooks ==
  ASSUME LedgerInv, NEW u \in Users, NEW i \in MovementIds, Refund(u, i)
  PROVE  /\ accounts' \in [Users -> Account \cup {NoAccount}]
         /\ UNCHANGED movements
         /\ \A v \in Users : Require(v)'.tier = Require(v).tier
         /\ CanRefund(u, i) => GivingBack(u, i)
         /\ ~CanRefund(u, i) => Quiet
  <1> DEFINE a == Require(u)
             b == IF movements[i].kind = "FREE_DEBIT"
                  THEN [a EXCEPT !.free = @ + 1]
                  ELSE [a EXCEPT !.balance = @ + movements[i].amount]
  <1>1. a \in Account
    BY RequireTyped DEF LedgerInv
  <1>2. CASE CanRefund(u, i)
    <2>1. movements[i] \in Movement /\ movements[i].kind \in {"DEBIT", "FREE_DEBIT"}
      BY <1>2 DEF LedgerInv, LedgerTypeOK, CanRefund
    <2>2. movements[i].amount \in Nat
      BY <2>1 DEF Movement
    <2>3. /\ b \in Account /\ b.tier = a.tier
          /\ \/ /\ movements[i].kind = "DEBIT"
                /\ b.balance = a.balance + movements[i].amount /\ b.free = a.free
             \/ /\ movements[i].kind = "FREE_DEBIT"
                /\ b.balance = a.balance /\ b.free = a.free + 1
      BY <1>1, <2>1, <2>2 DEF Account
    <2>4. SetAccount(u, b) /\ refunded' = refunded \cup {i} /\ UNCHANGED movements
      BY <1>2 DEF Refund
    <2>5. accounts' \in [Users -> Account \cup {NoAccount}] /\ Require(u)' = b /\ OthersStay(u)
      <3> HIDE DEF b
      <3> QED
        BY <2>3, <2>4, SetAccountRequire DEF LedgerInv, OthersStay
    <2> QED
      BY <1>2, <2>3, <2>4, <2>5 DEF GivingBack, OthersStay
  <1>3. CASE ~CanRefund(u, i)
    BY <1>3 DEF Refund, Quiet, Require, ledgerStore, LedgerInv, LedgerTypeOK
  <1> QED
    BY <1>2, <1>3

\* Every step of the books keeps the ledger well formed.
LEMMA BookStepSafe ==
  ASSUME LedgerInv, accounts' \in [Users -> Account \cup {NoAccount}], BookStep
  PROVE  LedgerInv'
  <1>1. CASE Quiet
    BY <1>1 DEF Quiet, LedgerInv, LedgerTypeOK
  <1>2. ASSUME NEW u \in Users, NEW i \in MovementIds,
               NEW kind \in {"TOPUP", "DEBIT", "FREE_DEBIT"}, NEW n \in Nat,
               Booking(u, i, kind, n)
        PROVE  LedgerInv'
    <2>1. /\ movements' \in [MovementIds -> Movement \cup {NoMovement}]
          /\ movements'[i] = [user |-> u, kind |-> kind, amount |-> n]
          /\ movements'[i] # NoMovement
          /\ \A j \in MovementIds : j # i => movements'[j] = movements[j]
      BY <1>2, RecordTyped DEF Booking, LedgerInv
    <2>2. kind = "TOPUP" <=> i \in Payments
      BY <1>2, LedgerAssumption DEF Booking
    <2> QED
      BY <1>2, <2>1, <2>2 DEF Booking, LedgerInv, LedgerTypeOK
  <1>3. ASSUME NEW u \in Users, NEW i \in MovementIds, GivingBack(u, i)
        PROVE  LedgerInv'
    BY <1>3 DEF GivingBack, CanRefund, LedgerInv, LedgerTypeOK
  <1> QED
    BY <1>1, <1>2, <1>3 DEF BookStep

\* Every step of the books moves accounts by the book.
LEMMA BookStepMoves ==
  ASSUME LedgerInv, accounts' \in [Users -> Account \cup {NoAccount}], BookStep,
         NEW v \in Users
  PROVE  MovedByTheBook(v)
  <1>1. Require(v) \in Account /\ Require(v)' \in Account
    BY RequireTyped, LedgerAssumption
       DEF LedgerInv, LedgerTypeOK, Require, NewAccount, Account, AccountTier
  <1>2. CASE Quiet
    BY <1>1, <1>2 DEF Quiet, MovedByTheBook, Account
  <1>3. ASSUME NEW u \in Users, NEW i \in MovementIds,
               NEW kind \in {"TOPUP", "DEBIT", "FREE_DEBIT"}, NEW n \in Nat,
               Booking(u, i, kind, n)
        PROVE  MovedByTheBook(v)
    <2>1. CASE u # v
      BY <1>1, <1>3, <2>1 DEF Booking, OthersStay, MovedByTheBook, Account
    <2>2. CASE u = v
      <3>1. movements'[i] = [user |-> v, kind |-> kind, amount |-> n]
        BY <1>3, <2>2, RecordTyped DEF Booking, LedgerInv
      <3>2. CASE kind = "TOPUP"
        BY <1>1, <1>3, <2>2, <3>1, <3>2 DEF Booking, MovedByTheBook, Account
      <3>3. CASE kind = "DEBIT"
        BY <1>1, <1>3, <2>2, <3>1, <3>3 DEF Booking, MovedByTheBook, Account
      <3>4. CASE kind = "FREE_DEBIT"
        BY <1>1, <1>3, <2>2, <3>1, <3>4 DEF Booking, MovedByTheBook, Account
      <3> QED
        BY <3>2, <3>3, <3>4
    <2> QED
      BY <2>1, <2>2
  <1>4. ASSUME NEW u \in Users, NEW i \in MovementIds, GivingBack(u, i)
        PROVE  MovedByTheBook(v)
    <2>1. CASE u # v
      BY <1>1, <1>4, <2>1 DEF GivingBack, OthersStay, MovedByTheBook, Account
    <2>2. CASE u = v
      <3>1. movements[i].amount \in Nat
        BY <1>4 DEF GivingBack, CanRefund, LedgerInv, LedgerTypeOK, Movement
      <3>2. Standing(i, movements[i].kind) /\ movements[i].user = v /\ i \in refunded'
        BY <1>4, <2>2 DEF GivingBack, CanRefund, Standing
      <3> QED
        BY <1>1, <1>4, <2>2, <3>1, <3>2 DEF GivingBack, MovedByTheBook, Account
    <2> QED
      BY <2>1, <2>2
  <1> QED
    BY <1>2, <1>3, <1>4 DEF BookStep

LEMMA AmountsTyped ==
  ASSUME LedgerTypeOK
  PROVE  Amounts \in [MovementIds -> Nat]
  BY DEF LedgerTypeOK, Amounts, Movement

\* A movement is added to the movements of its user and kind, and to no others.
LEMMA BookingTotals ==
  ASSUME LedgerInv, LedgerInv', NEW u \in Users, NEW i \in MovementIds,
         NEW kind \in {"TOPUP", "DEBIT", "FREE_DEBIT"}, NEW n \in Nat,
         Booking(u, i, kind, n), NEW v \in Users,
         NEW k \in {"TOPUP", "DEBIT", "FREE_DEBIT"}
  PROVE  /\ u = v /\ k = kind =>
              /\ MovementsOf(v, k)' = MovementsOf(v, k) \cup {i}
              /\ i \notin MovementsOf(v, k)
              /\ Total(MovementsOf(v, k))' = n + Total(MovementsOf(v, k))
         /\ ~(u = v /\ k = kind) =>
              /\ MovementsOf(v, k)' = MovementsOf(v, k)
              /\ Total(MovementsOf(v, k))' = Total(MovementsOf(v, k))
  <1>1. /\ movements'[i] = [user |-> u, kind |-> kind, amount |-> n]
        /\ movements'[i] # NoMovement
        /\ \A j \in MovementIds : j # i => movements'[j] = movements[j]
    BY RecordTyped DEF Booking, LedgerInv
  <1>2. movements[i] = NoMovement /\ refunded' = refunded /\ i \notin refunded
    BY DEF Booking, LedgerInv
  <1> DEFINE S == MovementsOf(v, k)
  <1>3. /\ S \subseteq MovementIds /\ i \notin S
        /\ S' = IF u = v /\ k = kind THEN S \cup {i} ELSE S
    BY <1>1, <1>2 DEF MovementsOf, Standing
  <1>4. /\ Amounts \in [MovementIds -> Nat] /\ Amounts' \in [MovementIds -> Nat]
        /\ Amounts'[i] = n
        /\ \A j \in MovementIds : j # i => Amounts'[j] = Amounts[j]
    BY <1>1, AmountsTyped DEF LedgerInv, LedgerTypeOK, Amounts, Movement
  <1>5. IsFiniteSet(MovementIds)
    BY LedgerAssumption
  <1> DEFINE A == Amounts
             B == Amounts'
  <1>6. SumOver(B, S) = SumOver(A, S)
    <2>1. \A j \in S : B[j] = A[j]
      BY <1>3, <1>4
    <2>2. DOMAIN A = MovementIds /\ DOMAIN B = MovementIds /\ S \in SUBSET MovementIds
      BY <1>3, <1>4
    <2> HIDE DEF A, B, S
    <2> QED
      BY <2>1, <2>2, <1>5, SumSame
  <1>7. SumOver(B, S \cup {i}) = n + SumOver(B, S)
    <2>1. B \in [MovementIds -> Nat] /\ S \in SUBSET MovementIds /\ i \in MovementIds \ S
          /\ B[i] = n
      BY <1>3, <1>4
    <2> HIDE DEF B, S
    <2> QED
      BY <2>1, <1>5, SumAdd
  <1>8. Total(MovementsOf(v, k)) = SumOver(A, S)
    BY DEF Total
  <1>9. Total(MovementsOf(v, k))' = SumOver(B, S')
    BY DEF Total
  <1> QED
    BY <1>3, <1>6, <1>7, <1>8, <1>9

\* A charge given back is taken from the movements that stand.
LEMMA GivingBackTotals ==
  ASSUME LedgerInv, NEW u \in Users, NEW i \in MovementIds, GivingBack(u, i),
         NEW v \in Users, NEW k \in {"TOPUP", "DEBIT", "FREE_DEBIT"}
  PROVE  /\ u = v /\ k = movements[i].kind =>
              /\ i \in MovementsOf(v, k)
              /\ MovementsOf(v, k)' = MovementsOf(v, k) \ {i}
              /\ Total(MovementsOf(v, k)) = movements[i].amount + Total(MovementsOf(v, k))'
         /\ ~(u = v /\ k = movements[i].kind) =>
              /\ MovementsOf(v, k)' = MovementsOf(v, k)
              /\ Total(MovementsOf(v, k))' = Total(MovementsOf(v, k))
  <1> DEFINE S == MovementsOf(v, k)
             A == Amounts
  <1>1. /\ movements' = movements /\ refunded' = refunded \cup {i} /\ i \notin refunded
        /\ movements[i] # NoMovement /\ movements[i].user = u
        /\ movements[i].kind \in {"DEBIT", "FREE_DEBIT"}
    BY DEF GivingBack, CanRefund
  <1>2. /\ S \subseteq MovementIds
        /\ u = v /\ k = movements[i].kind => i \in S /\ S' = S \ {i}
        /\ ~(u = v /\ k = movements[i].kind) => S' = S
    BY <1>1 DEF MovementsOf, Standing
  <1>3. A \in [MovementIds -> Nat] /\ A' = A /\ A[i] = movements[i].amount
    BY <1>1, AmountsTyped DEF LedgerInv, Amounts
  <1>4. IsFiniteSet(MovementIds)
    BY LedgerAssumption
  <1>5. i \in S => SumOver(A, S) = A[i] + SumOver(A, S \ {i})
    <2> DEFINE R == S \ {i}
    <2>1. A \in [MovementIds -> Nat] /\ R \in SUBSET MovementIds /\ i \in MovementIds \ R
      BY <1>2, <1>3
    <2>2. i \in S => R \cup {i} = S
      OBVIOUS
    <2>3. SumOver(A, R \cup {i}) = A[i] + SumOver(A, R)
      <3> HIDE DEF A, R
      <3> QED
        BY <2>1, <1>4, SumAdd
    <2> QED
      BY <2>2, <2>3
  <1>6. Total(MovementsOf(v, k)) = SumOver(A, S) /\ Total(MovementsOf(v, k))' = SumOver(A', S')
    BY DEF Total
  <1> HIDE DEF A
  <1> QED
    BY <1>2, <1>3, <1>5, <1>6

\* Every step of the books keeps them balanced.
LEMMA BookStepBalances ==
  ASSUME LedgerInv, LedgerInv', BookStep, BooksBalance
  PROVE  BooksBalance'
  <1> SUFFICES ASSUME NEW v \in Users
               PROVE  /\ Total(MovementsOf(v, "TOPUP"))' =
                             Require(v)'.balance + Total(MovementsOf(v, "DEBIT"))'
                      /\ FreeScanGrant =
                             Require(v)'.free + Cardinality(MovementsOf(v, "FREE_DEBIT"))'
    BY DEF BooksBalance
  <1>1. /\ Total(MovementsOf(v, "TOPUP")) =
               Require(v).balance + Total(MovementsOf(v, "DEBIT"))
        /\ FreeScanGrant = Require(v).free + Cardinality(MovementsOf(v, "FREE_DEBIT"))
    BY DEF BooksBalance
  <1>2. Require(v) \in Account /\ Require(v)' \in Account
    BY RequireTyped, LedgerAssumption
       DEF LedgerInv, LedgerTypeOK, Require, NewAccount, Account, AccountTier
  <1>3. \A k \in {"TOPUP", "DEBIT", "FREE_DEBIT"} :
            /\ Total(MovementsOf(v, k)) \in Nat /\ Total(MovementsOf(v, k))' \in Nat
            /\ IsFiniteSet(MovementsOf(v, k)) /\ IsFiniteSet(MovementsOf(v, k))'
            /\ Cardinality(MovementsOf(v, k)) \in Nat
    <2> SUFFICES ASSUME NEW k \in {"TOPUP", "DEBIT", "FREE_DEBIT"}
                 PROVE  /\ Total(MovementsOf(v, k)) \in Nat
                        /\ Total(MovementsOf(v, k))' \in Nat
                        /\ IsFiniteSet(MovementsOf(v, k)) /\ IsFiniteSet(MovementsOf(v, k))'
                        /\ Cardinality(MovementsOf(v, k)) \in Nat
      OBVIOUS
    <2>1. MovementsOf(v, k) \in SUBSET MovementIds /\ MovementsOf(v, k)' \in SUBSET MovementIds
      BY DEF MovementsOf
    <2>2. Amounts \in [MovementIds -> Nat] /\ Amounts' \in [MovementIds -> Nat]
      BY AmountsTyped DEF LedgerInv, LedgerTypeOK, Amounts, Movement
    <2>3. IsFiniteSet(MovementIds)
      BY LedgerAssumption
    <2> QED
      BY <2>1, <2>2, <2>3, SumIsNat, FS_Subset, FS_CardinalityType DEF Total
  <1>4. CASE Quiet
    <2>1. \A k \in {"TOPUP", "DEBIT", "FREE_DEBIT"} :
              MovementsOf(v, k)' = MovementsOf(v, k)
              /\ Total(MovementsOf(v, k))' = Total(MovementsOf(v, k))
      BY <1>4 DEF Quiet, MovementsOf, Standing, Total, Amounts
    <2> QED
      BY <1>1, <1>4, <2>1 DEF Quiet
  <1>5. ASSUME NEW u \in Users, NEW i \in MovementIds,
               NEW kind \in {"TOPUP", "DEBIT", "FREE_DEBIT"}, NEW n \in Nat,
               Booking(u, i, kind, n)
        PROVE  /\ Total(MovementsOf(v, "TOPUP"))' =
                      Require(v)'.balance + Total(MovementsOf(v, "DEBIT"))'
               /\ FreeScanGrant =
                      Require(v)'.free + Cardinality(MovementsOf(v, "FREE_DEBIT"))'
    <2>1. \A k \in {"TOPUP", "DEBIT", "FREE_DEBIT"} :
              /\ u = v /\ k = kind =>
                   /\ MovementsOf(v, k)' = MovementsOf(v, k) \cup {i}
                   /\ i \notin MovementsOf(v, k)
                   /\ Total(MovementsOf(v, k))' = n + Total(MovementsOf(v, k))
              /\ ~(u = v /\ k = kind) =>
                   /\ MovementsOf(v, k)' = MovementsOf(v, k)
                   /\ Total(MovementsOf(v, k))' = Total(MovementsOf(v, k))
      BY <1>5, BookingTotals
    <2>2. u = v /\ kind = "FREE_DEBIT" =>
              Cardinality(MovementsOf(v, kind))' = Cardinality(MovementsOf(v, kind)) + 1
      BY <2>1, <1>3, FS_AddElement
    <2>3. CASE u # v
      BY <1>1, <1>5, <2>1, <2>3 DEF Booking, OthersStay
    <2>4. CASE u = v /\ kind = "TOPUP"
      BY <1>1, <1>2, <1>3, <1>5, <2>1, <2>4 DEF Booking, Account
    <2>5. CASE u = v /\ kind = "DEBIT"
      BY <1>1, <1>2, <1>3, <1>5, <2>1, <2>5 DEF Booking, Account
    <2>6. CASE u = v /\ kind = "FREE_DEBIT"
      BY <1>1, <1>2, <1>3, <1>5, <2>1, <2>2, <2>6 DEF Booking, Account
    <2> QED
      BY <2>3, <2>4, <2>5, <2>6
  <1>6. ASSUME NEW u \in Users, NEW i \in MovementIds, GivingBack(u, i)
        PROVE  /\ Total(MovementsOf(v, "TOPUP"))' =
                      Require(v)'.balance + Total(MovementsOf(v, "DEBIT"))'
               /\ FreeScanGrant =
                      Require(v)'.free + Cardinality(MovementsOf(v, "FREE_DEBIT"))'
    <2>1. \A k \in {"TOPUP", "DEBIT", "FREE_DEBIT"} :
              /\ u = v /\ k = movements[i].kind =>
                   /\ i \in MovementsOf(v, k)
                   /\ MovementsOf(v, k)' = MovementsOf(v, k) \ {i}
                   /\ Total(MovementsOf(v, k)) = movements[i].amount + Total(MovementsOf(v, k))'
              /\ ~(u = v /\ k = movements[i].kind) =>
                   /\ MovementsOf(v, k)' = MovementsOf(v, k)
                   /\ Total(MovementsOf(v, k))' = Total(MovementsOf(v, k))
      BY <1>6, GivingBackTotals
    <2>2. u = v /\ movements[i].kind = "FREE_DEBIT" =>
              Cardinality(MovementsOf(v, "FREE_DEBIT"))' =
                  Cardinality(MovementsOf(v, "FREE_DEBIT")) - 1
      BY <2>1, <1>3, FS_RemoveElement
    <2>3. movements[i].amount \in Nat
      BY <1>6 DEF GivingBack, CanRefund, LedgerInv, LedgerTypeOK, Movement
    <2>4. CASE u # v
      BY <1>1, <1>6, <2>1, <2>4 DEF GivingBack, OthersStay
    <2>5. CASE u = v /\ movements[i].kind = "DEBIT"
      BY <1>1, <1>2, <1>3, <1>6, <2>1, <2>3, <2>5 DEF GivingBack, Account
    <2>6. CASE u = v /\ movements[i].kind = "FREE_DEBIT"
      BY <1>1, <1>2, <1>3, <1>6, <2>1, <2>2, <2>6 DEF GivingBack, Account
    <2> QED
      BY <1>6, <2>4, <2>5, <2>6 DEF GivingBack
  <1> QED
    BY <1>4, <1>5, <1>6 DEF BookStep

LEMMA LedgerInitBalances == LedgerInit => BooksBalance
  <1> SUFFICES ASSUME LedgerInit PROVE BooksBalance
    OBVIOUS
  <1>1. \A u \in Users : Require(u) = NewAccount
    BY DEF LedgerInit, Require
  <1>2. \A u \in Users, k \in {"TOPUP", "DEBIT", "FREE_DEBIT"} : MovementsOf(u, k) = {}
    BY DEF LedgerInit, MovementsOf, Standing
  <1>3. Total({}) = 0
    <2>1. DOMAIN Amounts = MovementIds /\ {} \in SUBSET MovementIds
      BY DEF Amounts
    <2> QED
      BY <2>1, LedgerAssumption, SumEquation DEF Total
  <1> QED
    BY <1>1, <1>2, <1>3, FS_EmptySet, LedgerAssumption DEF BooksBalance, NewAccount
=============================================================================
