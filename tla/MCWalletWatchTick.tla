------------------------- MODULE MCWalletWatchTick -------------------------
(* alice watches wallets A and B.  A buys and sells a lot in one second and  *)
(* trades again later, when B buys as well: so the order within a second,    *)
(* what shows up late in it, the window and both kinds of alert matter.      *)
(* A behaviour is one of three, chosen at the start: cycles that overlap and *)
(* may fail, and ones that overlap while a watch ends and is renewed, both   *)
(* over the trades of A; or one cycle after the other, which may fail, over  *)
(* the trades of A and B.                                                    *)
EXTENDS WalletWatchTick

CONSTANTS alice, wa, wb, A, B, t1, t2, t3, t4, X, c1, c2

MCUserOf == [w \in Watches |-> alice]
MCWalletOf == [w \in Watches |-> IF w = wa THEN A ELSE B]
MCMadeBy == [t \in Trades |-> IF t = t3 THEN B ELSE A]
MCTimeOf == [t \in Trades |-> IF t \in {t1, t2} THEN 1 ELSE 2]
MCTokenOf == [t \in Trades |-> X]

VARIABLE side

vars == <<side, tickVars>>

Shown == IF side = "alone" THEN Trades ELSE Trades \ {t3}
Running == IF side = "alone" THEN {c1} ELSE Slots

MCInit == TickInit /\ side \in {"overlap", "ending", "alone"}

MCNext ==
    /\ UNCHANGED side
    /\ TickNext
    /\ feed' \subseteq Shown
    /\ \A c \in Slots \ Running : at'[c] = "idle"
    /\ IF side = "ending" THEN faults' = 0 ELSE active' = Watches

\* TickFairSpec of the cycles that run.
MCFairSpec ==
    /\ MCInit /\ [][MCNext]_vars
    /\ \A c \in Slots :
         WF_vars(c \in Running /\ (Start(c) \/ CycleStep(c)) /\ UNCHANGED side)
=============================================================================
