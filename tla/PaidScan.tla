------------------------------ MODULE PaidScan ------------------------------
(***************************************************************************)
(* What POST /scan promises a user, without how: a scan is paid for with   *)
(* one credit before it runs, and ends with either the result or the       *)
(* credit back.  Within a promotion a scan is a gift and costs nothing.    *)
(***************************************************************************)
EXTENDS Naturals

CONSTANTS
    Users,
    Ops,        \* scans asked for
    UserOf,     \* [Ops -> Users]
    Grant,      \* credits of a new user
    Credits     \* amounts of credit a user may buy at once

VARIABLES
    purse,      \* credits by user
    stage       \* how far each scan is

vars == <<purse, stage>>

Stages == {"new", "paid", "gift", "delivered", "over"}

TypeOK ==
    /\ purse \in [Users -> Nat]
    /\ stage \in [Ops -> Stages]

Init ==
    /\ purse = [u \in Users |-> Grant]
    /\ stage = [o \in Ops |-> "new"]

Move(o, from, to) == stage[o] = from /\ stage' = [stage EXCEPT ![o] = to]

Buy(u, n) == purse' = [purse EXCEPT ![u] = @ + n] /\ UNCHANGED stage

Pay(o) ==
    /\ purse[UserOf[o]] > 0
    /\ purse' = [purse EXCEPT ![UserOf[o]] = @ - 1]
    /\ Move(o, "new", "paid")

Give(o) == Move(o, "new", "gift") /\ UNCHANGED purse

TurnAway(o) == Move(o, "new", "over") /\ UNCHANGED purse

Deliver(o) ==
    /\ \E from \in {"paid", "gift"} : Move(o, from, "delivered")
    /\ UNCHANGED purse

GiveBack(o) ==
    /\ Move(o, "paid", "over")
    /\ purse' = [purse EXCEPT ![UserOf[o]] = @ + 1]

DropGift(o) == Move(o, "gift", "over") /\ UNCHANGED purse

End(o) == Deliver(o) \/ GiveBack(o) \/ DropGift(o)

Next ==
    \/ \E u \in Users, n \in Credits : Buy(u, n)
    \/ \E o \in Ops : Pay(o) \/ Give(o) \/ TurnAway(o) \/ End(o)

\* What was paid for or given ends one way or the other.
Spec == Init /\ [][Next]_vars /\ \A o \in Ops : WF_vars(End(o))
=============================================================================
