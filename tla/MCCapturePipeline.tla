-------------------------- MODULE MCCapturePipeline --------------------------
EXTENDS CapturePipeline, TLC

CONSTANTS i1, i2, i3, k1, k2, w1, w2

MCKind == [k \in Keys |-> IF k = k1 THEN "supported" ELSE "unsupported"]
MCKindInvalid == [k \in Keys |-> IF k = k1 THEN "supported" ELSE "invalid"]
MCTarget == [d \in Deletions |-> Keys]

Symmetry == Permutations(Ids) \cup Permutations(Claimants)
===============================================================================
