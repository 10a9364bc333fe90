-------------------------- MODULE MCFabricOutbox --------------------------
(* Instances of FabricOutbox for TLC: e1 and e2 were created in the same     *)
(* second, e3 after them.                                                    *)
EXTENDS FabricOutbox

CONSTANTS e1, e2, e3

CreatedAt(e) == IF e = e3 THEN 1 ELSE 0
=============================================================================
