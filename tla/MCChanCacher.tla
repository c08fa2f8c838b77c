---------------------------- MODULE MCChanCacher ----------------------------
(* ChanCacher for TLC.                                                     *)
EXTENDS ChanCacher, TLC

CONSTANTS o1, o2, v1, v2

MCCached == <<o1>>
SymmTwo == Permutations({v1, v2})
=============================================================================
