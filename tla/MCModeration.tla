----------------------------- MODULE MCModeration -----------------------------
(* Moderation on small instances.                                          *)
EXTENDS Moderation, TLC

CONSTANTS w1, w2, c1

OneMessage == {[chat |-> c1, num |-> 1]}

ReportMuteWarn == {<<"report", "mute", "warn">>}

DeleteOnly == <<"delete">>

Symmetry == Permutations(Workers)

=============================================================================
