-------------------------- MODULE MCProfileHandler --------------------------
(* Model-checking instance of ProfileHandler: threads and token addresses *)
(* are model values, the thread and token sets are symmetric.             *)
EXTENDS ProfileHandler, TLC

CONSTANTS t1, t2, t3, k1, k2

MCThreads == {t1, t2}
MCThreads3 == {t1, t2, t3}
MCTokens == {k1, k2}

MCSymmetry == Permutations(MCThreads) \cup Permutations(MCTokens)
MCSymmetry3 == Permutations(MCThreads3) \cup Permutations(MCTokens)
=============================================================================
