----------------------------- MODULE MCAssetDag -----------------------------
(* hero, found by visual search, is a reference of mid, which is one of last; side needs    *)
(* nothing but a fact search.                                                               *)
EXTENDS AssetDag

MCAssets == {"hero", "mid", "last", "side"}
MCDeps == [a \in MCAssets |-> CASE a = "mid" -> {"hero"} [] a = "last" -> {"mid"} [] OTHER -> {}]
MCFactAsked == {"side"}
MCVisualAsked == {"hero"}
MCExemplars == {1, 2}
=============================================================================
