------------------------------ MODULE KycReviewMC ------------------------------
(* An ID with information on its back, two photos of its front and of the    *)
(* member, and reviewers who send back the form or the ID.                   *)
EXTENDS KycReview, TLC

EveryPhoto == Kind
Photos     == [k \in Kind |-> IF k = "ID_BACK" THEN 1 ELSE 2]
Asked      == {{"PERSONAL_INFO"}, {"ID_UPLOAD"}}
Symmetry   == Permutations(Reviewer) \cup Permutations(Call) \cup Permutations(Form)

===============================================================================
