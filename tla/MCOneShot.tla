----------------------------- MODULE MCOneShot -----------------------------
(* Instances of OneShot for TLC: which plan each command is given.        *)
EXTENDS OneShot, TLC

CONSTANTS p1, e1, e2, v1, v2, r1

(* Every command is about the one plan.                                   *)
OnePlan == [e \in {e1, e2} |-> p1]

OneReview == [v \in {v1} |-> p1]

TwoReviews == [v \in {v1, v2} |-> p1]
=============================================================================
