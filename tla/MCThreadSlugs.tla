---------------------------- MODULE MCThreadSlugs ----------------------------
EXTENDS ThreadSlugs, TLC

CONSTANTS t1, t2, s1, s2, s3, s4, s5, s6

MCCandidates == t1 :> <<s1, s2>> @@ t2 :> <<s3, s4>>

Symmetry == Permutations(Users) \cup Permutations(Servers)
=============================================================================
