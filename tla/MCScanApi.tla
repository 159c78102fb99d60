----------------------------- MODULE MCScanApi -----------------------------
(* alice asks through o1, o2 and o3, bob through o4; a plain pack p1  *)
(* and a tier pack p2, whose amounts are multiples of the scan price.           *)
EXTENDS ScanApi

CONSTANTS alice, bob, o1, o2, o3, o4, p1, p2, small, command

MCOpUser == [o \in Ops |-> IF o = o4 THEN bob ELSE alice]
MCPayerOf == [p \in Payments |-> alice]
MCPackOf == [p \in Payments |-> IF p = p1 THEN small ELSE command]
MCPackPrice == [k \in Packs |-> 2]
MCPackBonus == [k \in Packs |-> IF k = small THEN 0 ELSE 2]
=============================================================================
