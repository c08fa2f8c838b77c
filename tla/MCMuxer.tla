------------------------------ MODULE MCMuxer ------------------------------
(***************************************************************************)
(* Small instances of Muxer: tags 1 and 2, whose numbers differ between    *)
(* the muxer and the indexers; 0 is the tag that reverse() falls back to.  *)
(***************************************************************************)
EXTENDS Muxer, TLC

CONSTANTS d1, d2, s1, b1, b2

TwoDests == {d1, d2}
OneSingle == {s1}
OneBlock == {<<b1, b2>>}
SomeTags == 0..3
SomeLocalTag == s1 :> 1 @@ b1 :> 1 @@ b2 :> 2
SwappedTags == [t \in SomeTags |-> CASE t = 1 -> 2 [] t = 2 -> 1 [] OTHER -> t]
ShiftedTags == [t \in SomeTags |-> CASE t = 1 -> 2 [] t = 2 -> 3 [] t = 3 -> 1 [] OTHER -> t]
TwoRemotes == d1 :> SwappedTags @@ d2 :> ShiftedTags
=============================================================================
