---------------------------- MODULE MCCurriculum ----------------------------
(* The three stories of the curriculum app: adopted truth (one school, one   *)
(* assessment, a version to publish and one that is not), evidence handed in *)
(* by two schools, and one regulatory notice.  They share no rows, so each   *)
(* behaviour follows one of them while the others stay at their beginning.   *)
EXTENDS MCCurriculumTruth, CurriculumEvidence, CurriculumNotices

VARIABLE story

storyVars == <<story, vars, evidenceVars, noticeVars>>

MCClaims == {[known |-> TRUE, reference |-> "valid", publication |-> "valid",
              dates |-> "both", marks |-> 3]}

StoryInit == story \in {"truth", "evidence", "notices"} /\ Init /\ EvidenceInit /\ NoticesInit

StoryNext ==
    /\ UNCHANGED story
    /\ \/ story = "truth" /\ Next /\ UNCHANGED <<evidenceVars, noticeVars>>
       \/ story = "evidence" /\ EvidenceNext /\ UNCHANGED <<vars, noticeVars>>
       \/ story = "notices" /\ NoticesNext /\ UNCHANGED <<vars, evidenceVars>>

StorySpec == StoryInit /\ [][StoryNext]_storyVars
=============================================================================
