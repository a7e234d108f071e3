---------------------------- MODULE MCSubmission ----------------------------
(* Three draft saves with keys of their own and two submissions with the    *)
(* same key (the edits' names serve as the saves' keys).                    *)
EXTENDS Submission, TLC

CONSTANTS a, b, c, x, y, k, s1, w1, w2

MCKeyOf == [e \in Edits |-> IF e \in Saves THEN e ELSE k]

\* Saves, submissions and workers are interchangeable.
Interchangeable ==
    Permutations(Saves) \cup Permutations(Submits) \cup Permutations(Workers)
=============================================================================
