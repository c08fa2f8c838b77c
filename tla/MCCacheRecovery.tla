-------------------------- MODULE MCCacheRecovery --------------------------
(* CacheRecovery for TLC.                                                  *)
EXTENDS CacheRecovery, TLC

CONSTANTS v1, v2

MCNothing == <<>>
MCOldNumbers == [cache_a |-> {}, cache_b |-> {2}]
SymmTwo == Permutations({v1, v2})
=============================================================================
