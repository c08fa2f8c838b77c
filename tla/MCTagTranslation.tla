-------------------------- MODULE MCTagTranslation --------------------------
(* Small instances of TagTranslation. *)
EXTENDS TagTranslation, TLC
CONSTANTS n1, n2, n3, d1, d2, e1, e2

\* Two indexers that number the names differently, and not as the muxer does.
MCRemote == [d \in Dests |-> IF d = d1 THEN n1 :> 2 @@ n2 :> 0 @@ n3 :> 1
                                        ELSE n1 :> 1 @@ n2 :> 2 @@ n3 :> 0]
MCNameOf == e1 :> n2 @@ e2 :> n3
MCConfigs == SUBSET Names
=============================================================================
