---------------------------- MODULE MCLearningJobs ----------------------------
EXTENDS LearningJobs

CONSTANTS w1, t1, t2

MCTask == [w \in Windows |-> t1]
===============================================================================
