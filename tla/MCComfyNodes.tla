---------------------------- MODULE MCComfyNodes ----------------------------
(* Two shots of which the second shows the first; a shared image that no shot shows; a shot that *)
(* is called story.                                                                              *)
EXTENDS ComfyNodes

Style == <<"shared", "style-bible">>
Spare == <<"shared", "spare">>
Image(a) == SharedAsset(a, << >>, {}, FALSE, FALSE)
Refs(assets) == [k \in DOMAIN assets |-> [Reference(AssetRef(assets[k]), {assets[k]}, FALSE, TRUE)
                                            EXCEPT !.order = k]]
Shot(id, order, assets) ==
  PlannedShot(id, order, KeyframeOf(id), {}, Refs(assets), ToSet(assets))

MCPlans ==
  { [shared |-> <<Image(Style)>>,
     shots |-> <<Shot("s1", 1, <<Style>>), Shot("s2", 2, <<KeyframeOf("s1")>>)>>],
    [shared |-> <<Image(Style), Image(Spare)>>, shots |-> <<Shot("s1", 1, <<Style>>)>>],
    [shared |-> << >>, shots |-> <<Shot("story", 1, << >>)>>] }
=============================================================================
