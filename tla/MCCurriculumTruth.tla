-------------------------- MODULE MCCurriculumTruth --------------------------
(* One school, one assessment, a version to publish and one that is not.     *)
EXTENDS CurriculumTruth, TLC

CONSTANTS c1, v1, v2, s1, a1, w1, w2

MCProposes == [c \in ChangeSets |-> v1]
MCSchoolOf == [a \in Assessments |-> s1]
Callers == Permutations(Workers)
=============================================================================
