------------------------ MODULE MCCaptureQueueFiles --------------------------
EXTENDS CaptureQueueFiles, TLC

CONSTANTS i1, i2, p1, p2

IdSymmetry == Permutations(Ids) \cup Permutations(Procs)

\* A bound: barriers and self-test items are both explored, not together.
SelfTestsApart ==
    barrier = None \/ \A i \in Published : item[i].key \notin SelfTestKeys
===============================================================================
