--------------------------- MODULE MCOnboarding -----------------------------
(* An instance of Onboarding for TLC: two accounts, each with its owner.   *)
EXTENDS Onboarding

OfEach == [a \in Accounts |-> IF a = "first" THEN "alice" ELSE "bob"]
=============================================================================
