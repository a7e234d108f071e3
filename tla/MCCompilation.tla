--------------------------- MODULE MCCompilation ---------------------------
(* One learner's record, corrected while it is compiled and reported.       *)
EXTENDS Compilation

CONSTANTS ann, ben, t, h, d, low, high, c1, c2, p1

MCInitialScore == [r \in Records |-> low]
MCBandings == {Scores}
=============================================================================
