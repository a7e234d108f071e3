--------------------------- MODULE MCCorrections ---------------------------
(* A HOD who also teaches, a teacher and a deputy; two learners' records.   *)
EXTENDS Corrections

CONSTANTS ann, ben, t, h, d, low, high

MCTeachers == {t, h}
MCInitialScore == [r \in Records |-> low]

\* No schema or one that covers everything, and one with a gap.
MCBandings == {Scores, {low}}
=============================================================================
