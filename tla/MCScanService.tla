--------------------------- MODULE MCScanService ---------------------------
(* Four calls on two requests: a1 and a2 retry one request, x1 asks for it    *)
(* as a user who does not own its entitlement, b1 is a second request that    *)
(* shares the entitlement.                                                    *)
EXTENDS ScanService

CONSTANTS a1, a2, x1, b1, ra, rb, e1, alice, bob

MCCalls == {a1, a2, x1, b1}
MCRequestOf == [c \in MCCalls |-> IF c = b1 THEN rb ELSE ra]
MCEntitlementOf == [c \in MCCalls |-> e1]
MCUserOf == [c \in MCCalls |-> IF c = x1 THEN bob ELSE alice]
MCOwnerOf == [e \in {e1} |-> alice]
=============================================================================
