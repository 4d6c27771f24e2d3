----------------------------- MODULE PolicyGate -----------------------------
(***************************************************************************)
(* The decisions of the policy gate: what an execution policy lets this    *)
(* process sign, what it counts against the ceilings of a scope, what is   *)
(* at risk, and what the inbox may accept before anybody signs.            *)
(* Source: src/src/policy.ts, agent/exposure.ts and runner/scope.ts.       *)
(*                                                                         *)
(* Abstractions: the order of the refusals and their wording are left out; *)
(* a number no ceiling can bound (NaN, an infinity) is NaN; amounts are    *)
(* integers in one unit.                                                   *)
(***************************************************************************)
EXTENDS Integers, Functions, Overlay

CONSTANTS
    Undefined,   \* a field nobody gave
    NaN          \* a number no ceiling can bound

V == INSTANCE Verifier WITH Unreadable <- NaN

-----------------------------------------------------------------------------
(* Policies.                                                              *)

Rank == [mode \in {"read-only", "interactive", "delegated-auto"} |->
            CASE mode = "read-only" -> 0
              [] mode = "interactive" -> 1
              [] mode = "delegated-auto" -> 2]

(* What one invocation may ask for: the configured policy or less.        *)
NarrowOnly(configured) == {mode \in DOMAIN Rank : Rank[mode] <= Rank[configured]}

(* Refused under delegated-auto whatever the scope says.                  *)
OwnerOnlyActions == {"withdraw", "deposit", "createAccount", "addDelegate",
                     "removeDelegate", "removeAllDelegates"}

Ceilings == {"maxCollateralPerOrder", "maxOpenCollateral", "maxCumulativeCollateral",
             "maxLeverage", "maxSlippagePercent"}

(* Every ceiling is mandatory.                                            *)
ScopeIsComplete(scope) ==
    /\ scope.accounts # {}
    /\ \A ceiling \in Ceilings : scope[ceiling] \notin {Undefined, NaN} /\ scope[ceiling] > 0
    /\ scope.notAfter \notin {Undefined, NaN}
    /\ scope.maxCumulativeCollateral >= scope.maxCollateralPerOrder

(* A gate that signs unattended is built with a scope and a delegate key. *)
CanBuild(mode, scope, asDelegate) ==
    mode = "delegated-auto" => scope # Undefined /\ ScopeIsComplete(scope) /\ asDelegate

-----------------------------------------------------------------------------
(* Ceilings.                                                              *)

Measurable(intent) ==
    \A amount \in {"collateral", "leverage", "slippagePercent"} :
        intent[amount] # NaN /\ (intent[amount] # Undefined => intent[amount] >= 0)

IsExit(action) == action \in V!Exits

(* Both the flag and the action have to say that a write only unwinds.    *)
IsMetered(intent) == intent.increasesExposure \/ ~IsExit(intent.action)

Within(value, ceiling) == value # Undefined => value <= ceiling

Allowed(value, list) == value # Undefined /\ list # Undefined => value \in list

(* statelessScopeViolations: the rules that read the intent, the scope and *)
(* a clock, and are met.                                                   *)
Settled(intent, scope, at) ==
    /\ at <= scope.notAfter
    /\ intent.accountId \in scope.accounts
    /\ Allowed(intent.ticker, scope.markets)
    /\ Allowed(intent.side, scope.sides)
    /\ Within(intent.slippagePercent, scope.maxSlippagePercent)
    /\ IsMetered(intent) =>
        /\ Within(intent.leverage, scope.maxLeverage)
        /\ Within(intent.collateral, scope.maxCollateralPerOrder)

(* And those that read what is open, measured by the caller, and what has  *)
(* been spent.                                                             *)
InScope(intent, scope, at, open, spent) ==
    /\ Settled(intent, scope, at)
    /\ IsMetered(intent) /\ intent.collateral # Undefined =>
        /\ open \notin {Undefined, NaN} /\ open >= 0
        /\ open + intent.collateral <= scope.maxOpenCollateral
        /\ spent + intent.collateral <= scope.maxCumulativeCollateral

(* PolicyGate.authorize: whether a permit is issued ...                   *)
Authorizes(mode, scope, intent, confirm, at, open, spent) ==
    /\ Measurable(intent)
    /\ mode # "read-only"
    /\ mode = "interactive" => confirm
    /\ mode = "delegated-auto" =>
        /\ intent.action \notin OwnerOnlyActions
        /\ InScope(intent, scope, at, open, spent)

(* ... and what it commits of the cumulative budget.                      *)
Commits(intent) ==
    IF ~IsExit(intent.action) /\ intent.collateral # Undefined THEN intent.collateral ELSE 0

(* At risk: open positions, and orders sent that are not settled.  An      *)
(* order of unknown size counts as the most it can have been.              *)
OpenCollateralOf(positions, inFlight, perOrder) ==
    LET atRisk == {o \in inFlight : ~IsExit(o.action)}
    IN SumFunction([p \in positions |-> p.collateral])
       + SumFunction([o \in atRisk |->
                         IF o.collateral = Undefined THEN perOrder ELSE o.collateral])

-----------------------------------------------------------------------------
(* Admission to the queue: the settled rules, asked early of what is       *)
(* written in the inbox.                                                   *)

(* The write each queued kind becomes.                                    *)
ActionOfIntent(queued) ==
    CASE queued.kind = "open" -> IF queued.side = "long" THEN "openLong" ELSE "openShort"
      [] queued.kind = "limit" -> "placeLimitOrder"
      [] queued.kind = "close" -> "closePosition"
      [] queued.kind = "cancel" -> "cancelOrder"
      [] queued.kind = "reduce" -> "reducePosition"
      [] queued.kind = "increase" -> "increasePosition"
      [] queued.kind = "add-margin" -> "addMargin"
      [] queued.kind = "remove-margin" -> "removeMargin"
      [] queued.kind = "fit-stop" -> "updateOrder"
      [] queued.kind = "wlp-mint" -> "mintWlp"
      [] queued.kind = "wlp-burn" -> "burnWlp"
      [] queued.kind = "wlp-cancel-burn" -> "cancelWlpBurn"
      [] queued.kind = "wlp-claim" -> "claimWlpRewards"

Has(queued, field) == field \in DOMAIN queued

IncreasesExposure(queued) ==
    \/ queued.kind \in {"open", "increase", "remove-margin", "wlp-mint"}
    \/ queued.kind = "limit" /\ ~(Has(queued, "reduceOnly") /\ queued.reduceOnly)

Checkable_NoLeverage(queued, account) ==
    [action |-> ActionOfIntent(queued), accountId |-> account,
     increasesExposure |-> IncreasesExposure(queued), leverage |-> Undefined]
    @@ [field \in {"ticker", "side", "collateral", "slippagePercent"} |->
            IF Has(queued, field) THEN queued[field] ELSE Undefined]

(* The fields the settled rules read, as far as the queued intent has them. *)
Checkable(queued, account) ==
    [action |-> ActionOfIntent(queued), accountId |-> account,
     increasesExposure |-> IncreasesExposure(queued)]
    @@ [field \in {"ticker", "side", "collateral", "leverage", "slippagePercent"} |->
            IF Has(queued, field) THEN queued[field] ELSE Undefined]

(* Nothing settled refuses it when it starts; nothing is authorized.      *)
Admissible(queued, scope, account, startsAt) ==
    /\ ActionOfIntent(queued) \notin OwnerOnlyActions
    /\ Settled(Checkable(queued, account), scope, startsAt)
=============================================================================
