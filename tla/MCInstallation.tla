--------------------------- MODULE MCInstallation ---------------------------
(* An instance of Installation for TLC: two equal openings of 60, within    *)
(* the budget together but above the concurrent ceiling, and one of 40,    *)
(* which fits beside one of them but not in what the two leave.            *)
EXTENDS Installation, TLC

CONSTANTS small

Equals == Permutations(Writes \ {small})

An(action, exposure, collateral) ==
    [action |-> action, accountId |-> "acc", increasesExposure |-> exposure,
     ticker |-> "BTC", side |-> "long", collateral |-> collateral,
     leverage |-> Undefined, slippagePercent |-> Undefined]

TheIntents ==
    [w \in Writes |-> An("openLong", TRUE, IF w = small THEN 40 ELSE 60)]

TheCeilings ==
    [accounts |-> {"acc"}, markets |-> Undefined, sides |-> Undefined, notAfter |-> 1,
     maxCollateralPerOrder |-> 60, maxOpenCollateral |-> 100, maxCumulativeCollateral |-> 120,
     maxLeverage |-> 3, maxSlippagePercent |-> 1]
=============================================================================
