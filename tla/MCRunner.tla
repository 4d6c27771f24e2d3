------------------------------ MODULE MCRunner ------------------------------
(* Instances of Runner for TLC: what the inbox files of each run hold.    *)
EXTENDS Runner, TLC

CONSTANTS a, b, f, k1

Plain(kind) == [kind |-> kind, key |-> NoKey, cooldown |-> FALSE, window |-> "none"]

Keyed(kind, key, cooldown) ==
    [kind |-> kind, key |-> key, cooldown |-> cooldown, window |-> "none"]

(* One idea decided twice: a reduce, and an order that is only worth       *)
(* placing for a while.                                                   *)
OneIdea == (a :> Keyed("reduce", k1, TRUE))
        @@ (b :> [Keyed("open", k1, TRUE) EXCEPT !.window = "expiry"])

(* A reduce whose follow-up resizes a stop once its window opens.         *)
ReduceThenFit == (a :> Plain("reduce"))
              @@ (f :> [Plain("fit-stop") EXCEPT !.window = "deferred"])

(* An open and a close, unrelated.                                        *)
OpenAndClose == (a :> Plain("open")) @@ (b :> Plain("close"))

(* A single change of margin.                                             *)
OneMargin == a :> Plain("margin")
=============================================================================
