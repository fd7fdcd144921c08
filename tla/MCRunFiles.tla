----------------------------- MODULE MCRunFiles -----------------------------
(* One shot: the style image, again as the keyframe's reference, the video and the midframe. *)
EXTENDS RunFiles

MCOrder == <<"style", "style", "video", "midframe">>
Symmetric == Permutations(Appenders) \cup Permutations(Rows)

\* The journal and the staging share no variable: each is run with the other one at its start.
OneAtWork == JournalInit \/ StageInit
=============================================================================
