----------------------------- MODULE MCDeletion -----------------------------
EXTENDS Deletion

CONSTANTS i1, k1, k2, d1, d2, d3, w1

MCKindInvalid == [k \in Keys |-> IF k = k1 THEN "invalid" ELSE "supported"]
MCTargets == [d \in Deletions |-> IF d = d3 THEN {k2} ELSE {k1}]
===============================================================================
