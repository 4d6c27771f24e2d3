--------------------------- MODULE SigningProofs ---------------------------
(***************************************************************************)
(* An unattended signature stays in its scope, what rests on the book can  *)
(* be taken off it, and the queue's answer is the gate's. The first is     *)
(* proved for every request, answer of the backend, composition, change to *)
(* the bytes, scope and deployment. The argument goes through the three    *)
(* that look at it: the plan says of itself what it commits (the lemmas    *)
(* that end in Says), the gate bounds what the plan says (GateIsMet,       *)
(* Bounded), and the verifier holds every argument of the bytes to what    *)
(* the plan says (the tables, CallIsTheActions, PlacedIsConstructed).      *)
(* Sound is the invariant that puts the three in the order of a request.   *)
(* For the second, a signed placement is read for what it says of the      *)
(* deployment (PlacementTells), which is all a cancellation needs          *)
(* (PlacementIsRetractable). For the third, a plan says what the queue     *)
(* read of its intent (Mirrors), and a leverage that is turned into a size *)
(* and back moves by what the rounding of the size does (RoundedLeverage). *)
(***************************************************************************)
EXTENDS Signing, FiniteSetTheorems, TLAPS

-----------------------------------------------------------------------------
(* Functions laid over one another.                                       *)

(* What one function laid over another is defined for.                    *)
LEMMA OverDomain ==
    ASSUME NEW f, NEW g, NEW x
    PROVE  x \in DOMAIN (f @@ g) <=> x \in DOMAIN f \/ x \in DOMAIN g
  BY DEF @@

(* What lies above is what is read.                                       *)
LEMMA OverLeft ==
    ASSUME NEW f, NEW g, NEW x \in DOMAIN f
    PROVE  (f @@ g)[x] = f[x]
<1>1. f @@ g = [y \in DOMAIN f \cup DOMAIN g |-> IF y \in DOMAIN f THEN f[y] ELSE g[y]]
  BY DEF @@
<1>2. x \in DOMAIN f \cup DOMAIN g
  OBVIOUS
<1> QED
  BY <1>1, <1>2

(* What lies below is read where nothing lies above.                      *)
LEMMA OverRight ==
    ASSUME NEW f, NEW g, NEW x \in DOMAIN g
    PROVE  x \in DOMAIN f \/ (f @@ g)[x] = g[x]
<1>1. f @@ g = [y \in DOMAIN f \cup DOMAIN g |-> IF y \in DOMAIN f THEN f[y] ELSE g[y]]
  BY DEF @@
<1>2. x \in DOMAIN f \cup DOMAIN g
  OBVIOUS
<1> QED
  BY <1>1, <1>2

-----------------------------------------------------------------------------
(* Numbers.                                                               *)

(* Integer division, as the inequalities that define it.                  *)
LEMMA Division ==
    ASSUME NEW x \in Int, NEW c \in Int, c > 0
    PROVE  /\ x \div c \in Int
           /\ c * (x \div c) <= x
           /\ x < c * (x \div c) + c
  OBVIOUS

(* A leverage within an integer ceiling is a notional within that many     *)
(* times the collateral, however the quotient was rounded.                 *)
LEMMA LeverageBounds ==
    ASSUME NEW collateral \in Int, NEW size \in Int, NEW price \in Int, NEW ceiling \in Int,
           EffectiveLeverage(collateral, size, price) # NaN,
           EffectiveLeverage(collateral, size, price) # Undefined =>
               EffectiveLeverage(collateral, size, price) <= ceiling
    PROVE  size * price <= ceiling * collateral
<1> DEFINE n == size * price
           q == (n + collateral - 1) \div collateral
<1>1. collateral > 0 /\ EffectiveLeverage(collateral, size, price) = q
  BY DEF EffectiveLeverage
<1>2. n \in Int
  OBVIOUS
<1> HIDE DEF n
<1>3. q \in Int /\ n + collateral - 1 < collateral * q + collateral
  BY <1>1, <1>2, Division
<1>4. q <= ceiling
  BY <1>1, <1>3, NumberAssumption
<1> HIDE DEF q
<1>5. collateral * q <= collateral * ceiling
  BY <1>1, <1>3, <1>4
<1>6. n <= ceiling * collateral
  BY <1>2, <1>3, <1>5
<1> QED
  BY <1>6 DEF n

(* A rounded quotient is a number.                                        *)
LEMMA RoundedIsInt ==
    ASSUME NEW n \in Int, NEW d \in Int, d > 0
    PROVE  Rounded(n, d) \in Int
  BY Division DEF Rounded

(* Rounding to the nearest unit moves by half of one at most.             *)
LEMMA RoundedBounds ==
    ASSUME NEW n \in Int
    PROVE  /\ Rounded(n, 100) \in Int
           /\ 100 * Rounded(n, 100) <= n + 50
           /\ 100 * Rounded(n, 100) >= n - 50
<1>1. 2 * n + 100 \in Int
  OBVIOUS
<1>2. /\ Rounded(n, 100) \in Int
      /\ 200 * Rounded(n, 100) <= 2 * n + 100
      /\ 2 * n + 100 < 200 * Rounded(n, 100) + 200
  BY <1>1, Division DEF Rounded
<1> QED
  BY <1>2

(* The price an order may fill at is inside what the ceiling on slippage   *)
(* would have given, to the rounding of one unit.                          *)
LEMMA SlippageBounds ==
    ASSUME NEW spot \in Nat, NEW slippage \in Int, NEW ceiling \in Int, slippage <= ceiling
    PROVE  /\ 100 * AcceptablePriceFor(spot, "buy", slippage) <= spot * (100 + ceiling) + 50
           /\ 100 * AcceptablePriceFor(spot, "sell", slippage) >= spot * (100 - ceiling) - 50
<1>1. spot * (100 + slippage) <= spot * (100 + ceiling)
  OBVIOUS
<1>2. spot * (100 - slippage) >= spot * (100 - ceiling)
  OBVIOUS
<1>3. spot * (100 + slippage) \in Int /\ spot * (100 - slippage) \in Int
      /\ spot * (100 + ceiling) \in Int /\ spot * (100 - ceiling) \in Int
  OBVIOUS
<1>4. /\ 100 * AcceptablePriceFor(spot, "buy", slippage) <= spot * (100 + slippage) + 50
      /\ AcceptablePriceFor(spot, "buy", slippage) \in Int
  BY <1>3, RoundedBounds DEF AcceptablePriceFor
<1>5. /\ 100 * AcceptablePriceFor(spot, "sell", slippage) >= spot * (100 - slippage) - 50
      /\ AcceptablePriceFor(spot, "sell", slippage) \in Int
  BY <1>3, RoundedBounds DEF AcceptablePriceFor
<1> QED
  BY <1>1, <1>2, <1>3, <1>4, <1>5

-----------------------------------------------------------------------------
(* What can be reached.                                                   *)

(* The recursion of ReachableFrom has a solution: from each command, the   *)
(* smallest set that holds it and is closed under what a command is handed. *)
LEMMA ReachableIsDefined ==
    ASSUME NEW t
    PROVE  ReachableFrom(t) =
        [i \in DOMAIN t.commands |->
            {i} \cup UNION {ReachableFrom(t)[j] : j \in Sources(t, i)}]
<1> DEFINE D == DOMAIN t.commands
           Closed(S) == \A k \in S : Sources(t, k) \subseteq S
           Least(i) == {j \in D : \A S \in SUBSET D : i \in S /\ Closed(S) => j \in S}
           least == [i \in D |-> Least(i)]
           Step(f) == [i \in D |-> {i} \cup UNION {f[j] : j \in Sources(t, i)}]
<1>1. \A i : Sources(t, i) \subseteq D
  BY DEF Sources
<1>2. \A i \in D : /\ i \in Least(i)
                   /\ Closed(Least(i))
  <2>1. \A i \in D : i \in Least(i)
    OBVIOUS
  <2>2. ASSUME NEW i \in D, NEW k \in Least(i), NEW j \in Sources(t, k)
        PROVE  j \in Least(i)
    BY <1>1, <2>2
  <2> QED
    BY <2>1, <2>2
<1>3. ASSUME NEW i \in D
      PROVE  Least(i) = {i} \cup UNION {Least(j) : j \in Sources(t, i)}
  <2> DEFINE U == {i} \cup UNION {Least(j) : j \in Sources(t, i)}
  <2>1. \A k \in U : Sources(t, k) \subseteq U
    <3>1. ASSUME NEW k \in Sources(t, i)
          PROVE  k \in U
      BY <1>1, <1>2, <3>1
    <3>2. ASSUME NEW j \in Sources(t, i), NEW k \in Least(j), NEW l \in Sources(t, k)
          PROVE  l \in U
      BY <1>1, <1>2, <3>2
    <3> QED
      BY <3>1, <3>2
  <2>2. Least(i) \subseteq U
    <3>1. U \in SUBSET D
      OBVIOUS
    <3> QED
      BY <2>1, <3>1
  <2>3. ASSUME NEW j \in Sources(t, i)
        PROVE  Least(j) \subseteq Least(i)
    <3>1. j \in Least(i)
      BY <1>2, <2>3
    <3>2. Least(i) \in SUBSET D
      OBVIOUS
    <3> QED
      BY <1>2, <3>1, <3>2
  <2>4. U \subseteq Least(i)
    BY <1>2, <2>3
  <2> QED
    BY <2>2, <2>4
<1>4. least = Step(least)
  <2>1. ASSUME NEW i \in D
        PROVE  {least[j] : j \in Sources(t, i)} = {Least(j) : j \in Sources(t, i)}
    <3> HIDE DEF Least
    <3> QED
    BY <1>1
  <2> HIDE DEF Least
  <2> QED
    BY <1>3, <2>1
<1> HIDE DEF least
<1> QED
  BY <1>4 DEF ReachableFrom

(* What a command is handed is reached from it, directly or through one    *)
(* more command.                                                           *)
LEMMA HandedIsReached ==
    ASSUME NEW t, NEW i \in DOMAIN t.commands, NEW j \in Sources(t, i)
    PROVE  /\ j \in ReachableFrom(t)[i]
           /\ \A k \in Sources(t, j) : k \in ReachableFrom(t)[i]
<1> DEFINE R == ReachableFrom(t)
<1>1. \A x \in DOMAIN t.commands : R[x] = {x} \cup UNION {R[y] : y \in Sources(t, x)}
  <2>1. R = [x \in DOMAIN t.commands |-> {x} \cup UNION {R[y] : y \in Sources(t, x)}]
    BY ReachableIsDefined
  <2> HIDE DEF R
  <2> QED
    BY <2>1
<1>2. \A x : Sources(t, x) \subseteq DOMAIN t.commands
  BY DEF Sources
<1> HIDE DEF R
<1>3. j \in R[i] /\ \A k \in Sources(t, j) : k \in R[i]
  BY <1>1, <1>2
<1> QED
  BY <1>3 DEF R

-----------------------------------------------------------------------------
(* The tables.                                                            *)

(* What a delegate may do alone is defined by one call, which is none of   *)
(* those that move funds or authority, and rides with no other.            *)
LEMMA RuleOfADelegate ==
    ASSUME NEW action \in Actions, action \notin Gate!OwnerOnlyActions
    PROVE  /\ ActionRules[action].companions = {}
           /\ ActionRules[action].overrides = <<>>
           /\ ActionRules[action].entrypoint \in Sensitive
           /\ ActionRules[action].entrypoint \notin Account \cup Queue \cup {"custody_vault::mint"}
  BY DEF Actions, ActionRules, Rule, Gate!OwnerOnlyActions, Sensitive, Perp, Account, Queue,
         OrderArgument

(* Which action each call that commits something defines.                  *)
LEMMA RuleOfACall ==
    ASSUME NEW action \in Actions, action \notin Gate!OwnerOnlyActions
    PROVE  LET entrypoint == ActionRules[action].entrypoint
           IN /\ entrypoint = "trading::increase_position_request" => action = "increasePosition"
              /\ entrypoint = "trading::withdraw_collateral_request" => action = "removeMargin"
              /\ entrypoint = "trading::update_order_request" => action = "updateOrder"
              /\ entrypoint = "lp_pool::mint_wlp" => action = "mintWlp"
              /\ entrypoint = "trading::place_order_request" =>
                    action \in {"openLong", "openShort", "placeLimitOrder", "placeTpSl"}
  BY DEF Actions, ActionRules, Rule, Gate!OwnerOnlyActions

(* Below what does not name a parameter.                                  *)
LEMMA Under ==
    ASSUME NEW f, NEW g, NEW x, x \notin DOMAIN f
    PROVE  /\ x \in DOMAIN (f @@ g) <=> x \in DOMAIN g
           /\ x \in DOMAIN g => (f @@ g)[x] = g[x]
  BY OverDomain, OverRight

(* A parameter named ticker is the intent's.                              *)
LEMMA TickerIsBound ==
    ASSUME NEW fn \in Sensitive, "ticker" \in DOMAIN Bindings[fn]
    PROVE  Bindings[fn]["ticker"] = Field("ticker") /\ "ticker" \notin Optional(fn)
<1>1. TradingRequest["ticker"] = Field("ticker") /\ "ticker" \in DOMAIN TradingRequest
  BY Under DEF TradingRequest, Same
<1>2. "ticker" \notin DOMAIN PoolRequest /\ "ticker" \notin DOMAIN AccountRequest
  BY DEF PoolRequest, AccountRequest
<1>3. \A names : DOMAIN Same(names) = names
  BY DEF Same
<1>4. CASE fn \in Account \cup Queue \cup {"waterx_staking::claim", "custody_vault::mint"}
  <2>1. fn \in Account => "ticker" \notin DOMAIN Bindings[fn]
    BY <1>2, <1>3, OverDomain, <1>4 DEF Bindings, Account
  <2>2. fn \in Queue => "ticker" \notin DOMAIN Bindings[fn]
    BY <1>2, <1>3, OverDomain, <1>4 DEF Bindings, Queue
  <2>3. fn \in {"waterx_staking::claim", "custody_vault::mint"} =>
            "ticker" \notin DOMAIN Bindings[fn]
    BY <1>2, <1>3, OverDomain, <1>4 DEF Bindings
  <2> QED
    BY <1>4, <2>1, <2>2, <2>3
<1>5. CASE fn \in Perp \ {OrderArgument}
  <2>1. "ticker" \notin Optional(fn)
    BY <1>5 DEF Perp, Optional, OrderArgument
  <2>2. fn \in {"lp_pool::mint_wlp", "lp_pool::request_redeem", "lp_pool::cancel_redeem"} =>
            "ticker" \notin DOMAIN Bindings[fn]
    BY <1>2, <1>3, OverDomain DEF Bindings
  <2>3. fn \notin {"lp_pool::mint_wlp", "lp_pool::request_redeem", "lp_pool::cancel_redeem"} =>
            Bindings[fn]["ticker"] = Field("ticker")
    BY <1>1, <1>3, <1>5, Under DEF Bindings, Perp, OrderArgument
  <2> QED
    BY <2>1, <2>2, <2>3
<1> QED
  BY <1>4, <1>5 DEF Sensitive

(* What the verifier holds the arguments of each call to that commits.    *)
LEMMA IncreaseIsBound ==
    LET B == Bindings["trading::increase_position_request"]
    IN /\ {"collateralAmount", "size"} \subseteq DOMAIN B
       /\ B["collateralAmount"] = Field("collateralRaw")
       /\ B["size"] = Field("sizeRaw")
  BY OverDomain, OverLeft, OverRight
     DEF Bindings, Sensitive, Perp, OrderArgument

LEMMA WithdrawalIsBound ==
    LET B == Bindings["trading::withdraw_collateral_request"]
    IN "amount" \in DOMAIN B /\ B["amount"] = Field("collateralRaw")
  BY OverDomain, OverLeft, OverRight
     DEF Bindings, Sensitive, Perp, OrderArgument

LEMMA UpdateIsBound ==
    LET B == Bindings["trading::update_order_request"]
    IN /\ {"newSize", "newTriggerPrice"} \subseteq DOMAIN B
       /\ B["newSize"] = Field("sizeRaw")
       /\ B["newTriggerPrice"] = Field("triggerPriceRaw")
  BY OverDomain, OverLeft, OverRight
     DEF Bindings, Sensitive, Perp, OrderArgument

LEMMA MintIsBound ==
    LET B == Bindings["lp_pool::mint_wlp"]
    IN "depositAmount" \in DOMAIN B /\ B["depositAmount"] = Field("collateralRaw")
  BY OverDomain, OverLeft, OverRight
     DEF Bindings, Sensitive, Perp, OrderArgument

LEMMA PlaceIsBound ==
    LET B == Bindings["trading::place_order_request"]
    IN /\ {"main", "preOrder"} \subseteq DOMAIN B
       /\ B["main"] = ProducedBy(OrderArgument)
       /\ B["preOrder"] = VectorOf(OrderArgument)
  BY OverDomain, OverLeft, OverRight
     DEF Bindings, Sensitive, Perp, OrderArgument

-----------------------------------------------------------------------------
(* What an intent says.                                                   *)

(* The plan of each request the ceilings bound, as far as they read it.    *)
LEMMA OpenSays ==
    ASSUME NEW a, a.op = "open"
    PROVE  LET intent == Plan(a).intent
               size   == OrderSize(a, Spot)
           IN /\ intent.action = (IF a.isLong THEN "openLong" ELSE "openShort")
              /\ intent.accountId = AccountId /\ intent.side = Side(a.isLong)
              /\ intent.collateral = a.collateral /\ intent.collateralRaw = a.collateral
              /\ intent.sizeRaw = size /\ intent.triggerPriceRaw = Undefined
              /\ intent.leverage = EffectiveLeverage(a.collateral, size, Spot)
              /\ intent.slippagePercent = Slippage(a) /\ intent.reduceOnly = FALSE
              /\ intent.acceptablePriceRaw =
                     AcceptablePriceFor(Spot, Entry(Side(a.isLong)), Slippage(a))
  BY DEF Intent, Plan, PlanOpenPosition, Fields

LEMMA LimitSays ==
    ASSUME NEW a, a.op = "limit"
    PROVE  LET intent == Plan(a).intent
               size   == OrderSize(a, a.triggerPrice)
           IN /\ intent.action = "placeLimitOrder"
              /\ intent.accountId = AccountId /\ intent.side = Side(a.isLong)
              /\ intent.collateral = a.collateral /\ intent.collateralRaw = a.collateral
              /\ intent.sizeRaw = size /\ intent.triggerPriceRaw = a.triggerPrice
              /\ intent.leverage = EffectiveLeverage(a.collateral, size, a.triggerPrice)
              /\ intent.acceptablePriceRaw = Undefined
  BY DEF Intent, Plan, PlanPlaceLimitOrder, Fields

LEMMA IncreaseSays ==
    ASSUME NEW a, a.op = "increase"
    PROVE  LET intent == Plan(a).intent
               size   == OrderSize(a, Spot)
           IN /\ intent.action = "increasePosition"
              /\ intent.accountId = AccountId /\ intent.side = PositionOf(a).side
              /\ intent.collateral = a.collateral /\ intent.collateralRaw = a.collateral
              /\ intent.sizeRaw = size
              /\ intent.leverage = EffectiveLeverage(a.collateral, size, Spot)
  BY DEF Intent, Plan, PlanIncreasePosition, Fields

LEMMA RemoveMarginSays ==
    ASSUME NEW a, a.op = "removeMargin"
    PROVE  LET intent == Plan(a).intent
           IN /\ intent.action = "removeMargin" /\ intent.accountId = AccountId
              /\ intent.collateral = a.amount /\ intent.collateralRaw = a.amount
              /\ intent.leverage =
                     EffectiveLeverage(PositionOf(a).collateral - a.amount,
                                       PositionOf(a).notional, 1)
  BY DEF Intent, Plan, PlanRemoveMargin, Fields

LEMMA UpdateSays ==
    ASSUME NEW a, a.op = "update"
    PROVE  LET intent == Plan(a).intent
           IN /\ intent.action = "updateOrder"
              /\ intent.accountId = AccountId /\ intent.side = OrderOf(a).side
              /\ intent.collateral = OrderOf(a).collateral
              /\ intent.sizeRaw = a.newSize /\ intent.triggerPriceRaw = a.newTriggerPrice
              /\ intent.leverage =
                     EffectiveLeverage(OrderOf(a).collateral, a.newSize, a.newTriggerPrice)
  BY DEF Intent, Plan, PlanUpdateOrder, UpdatedLeverage, Fields

LEMMA MintSays ==
    ASSUME NEW a, a.op = "mintWlp"
    PROVE  LET intent == Plan(a).intent
           IN /\ intent.action = "mintWlp" /\ intent.accountId = AccountId
              /\ intent.collateral = a.amount /\ intent.collateralRaw = a.amount
  BY DEF Intent, Plan, PlanMintWlp, Fields

LEMMA BracketSays ==
    ASSUME NEW a, a.op = "placeTpSl"
    PROVE  LET intent == Plan(a).intent
           IN /\ intent.action = "placeTpSl" /\ intent.accountId = AccountId
              /\ intent.reduceOnly = TRUE
  BY DEF Intent, Plan, PlanPlaceTpSl, Fields

(* Every other request is none of the actions that commit.                *)
LEMMA OthersSay ==
    ASSUME NEW a, IsAsk(a),
           a.op \notin {"open", "limit", "increase", "removeMargin", "update", "mintWlp", "placeTpSl"}
    PROVE  LET intent == Plan(a).intent
           IN /\ intent.action \notin {"openLong", "openShort", "placeLimitOrder", "placeTpSl",
                     "increasePosition", "removeMargin", "updateOrder", "mintWlp"}
              /\ intent.action # "createAccount" => intent.accountId = AccountId
<1>1. a.op \in {"close", "reduce", "addMargin", "cancel", "createAccount", "deposit",
                "withdraw", "addDelegate", "removeDelegate", "removeAllDelegates", "burnWlp",
                "cancelWlpBurn", "claimWlpRewards"}
  BY DEF IsAsk, Needs
<1>0. DOMAIN <<>> = {}
  OBVIOUS
<1>2. CASE a.op \in {"close", "reduce"}
  BY <1>2 DEF Intent, Fields, Plan, PlanClosePosition, PlanReducePosition
<1>3. CASE a.op \in {"addMargin", "cancel"}
  BY <1>3 DEF Intent, Fields, Plan, PlanAddMargin, PlanCancelOrder
<1>4. CASE a.op \in {"burnWlp", "cancelWlpBurn", "claimWlpRewards"}
  BY <1>0, <1>4 DEF Intent, Fields, Plan, PlanBurnWlp, PlanCancelWlpBurn, PlanClaimWlpRewards
<1>5. CASE a.op \in {"deposit", "withdraw"}
  BY <1>5 DEF Intent, Fields, Plan, PlanDeposit, PlanWithdraw
<1>6. CASE a.op \in {"removeDelegate", "removeAllDelegates"}
  BY <1>0, <1>6 DEF Intent, Fields, Plan, PlanRemoveDelegate, PlanRemoveAllDelegates
<1>7. CASE a.op = "addDelegate"
  BY <1>7 DEF Intent, Fields, Plan, PlanAddDelegate
<1>8. CASE a.op = "createAccount"
  <2>1. Plan(a).intent = [Intent("createAccount", FALSE, [alias |-> a.name])
                              EXCEPT !.accountId = Undefined]
    BY <1>8 DEF Plan, PlanCreateAccount
  <2>2. Plan(a).intent.action = Intent("createAccount", FALSE, [alias |-> a.name]).action
    BY <2>1 DEF Intent, Fields
  <2> QED
    BY <2>2 DEF Intent, Fields
<1> QED
  BY <1>1, <1>2, <1>3, <1>4, <1>5, <1>6, <1>7, <1>8

-----------------------------------------------------------------------------
(* What the verifier makes sure of, for what a delegate may do alone.      *)

(* Every call that defines or rides with an action is the one call of the *)
(* action, published by the deployment, with every argument bound.        *)
LEMMA CallIsTheActions ==
    ASSUME NEW t, NEW intent, NEW signer, NEW known, Matches(t, intent, signer, known),
           intent.action \notin Gate!OwnerOnlyActions
    PROVE  LET entrypoint == ActionRules[intent.action].entrypoint
           IN /\ intent.action \in Actions
              /\ CallsOf(t, Sensitive) = CallsOf(t, {entrypoint})
              /\ \A i \in CallsOf(t, Sensitive) :
                    /\ t.commands[i].fn = entrypoint
                    /\ CodeIsTheDeployments(t.commands[i], intent, known.deployment)
                    /\ ArgumentsAreBound(t, t.commands[i], intent, known.deployment, <<>>)
              /\ entrypoint = "trading::place_order_request" =>
                    OrdersAreRight(t, CallsOf(t, {entrypoint}), intent)
<1> DEFINE rule == ActionRules[intent.action]
           defining == CallsOf(t, {rule.entrypoint})
<1>1. intent.action \in Actions
  BY DEF Matches, ActionRules
<1>2. /\ rule.companions = {} /\ rule.overrides = <<>> /\ rule.entrypoint \in Sensitive
  BY <1>1, RuleOfADelegate
<1>3. /\ CallsOf(t, Sensitive) \subseteq defining \cup CallsOf(t, rule.companions)
      /\ \A i \in defining \cup CallsOf(t, rule.companions) :
            /\ CodeIsTheDeployments(t.commands[i], intent, known.deployment)
            /\ ArgumentsAreBound(t, t.commands[i], intent, known.deployment, rule.overrides)
      /\ rule.entrypoint = "trading::place_order_request" => OrdersAreRight(t, defining, intent)
  BY DEF Matches
<1>4. CallsOf(t, rule.companions) = {}
  BY <1>2 DEF CallsOf
<1>5. defining \subseteq CallsOf(t, Sensitive) /\ \A i \in defining : t.commands[i].fn = rule.entrypoint
  BY <1>2 DEF CallsOf
<1> QED
  BY <1>1, <1>2, <1>3, <1>4, <1>5

(* No call moves funds or authority.                                      *)
LEMMA NothingOfTheOwners ==
    ASSUME NEW t, NEW intent, NEW signer, NEW known, Matches(t, intent, signer, known),
           intent.action \notin Gate!OwnerOnlyActions
    PROVE  CallsOf(t, Account \cup Queue \cup {"custody_vault::mint"}) = {}
<1> DEFINE owners == Account \cup Queue \cup {"custody_vault::mint"}
           entrypoint == ActionRules[intent.action].entrypoint
<1>1. owners \subseteq Sensitive
  BY DEF Sensitive
<1>2. entrypoint \notin owners
  BY CallIsTheActions, RuleOfADelegate
<1>3. \A i \in CallsOf(t, Sensitive) : t.commands[i].fn = entrypoint
  BY CallIsTheActions
<1> HIDE DEF entrypoint, owners
<1>4. \A i \in CallsOf(t, owners) : i \in CallsOf(t, Sensitive) /\ t.commands[i].fn \in owners
  BY <1>1 DEF CallsOf
<1>5. CallsOf(t, owners) = {}
  BY <1>2, <1>3, <1>4
<1> QED
  BY <1>5 DEF owners

(* Without an override, an argument is bound as the table says.           *)
LEMMA ArgumentIsBoundTo ==
    ASSUME NEW t, NEW call, NEW intent, NEW deployment,
           ArgumentsAreBound(t, call, intent, deployment, <<>>),
           NEW p \in DOMAIN Bindings[call.fn]
    PROVE  /\ p \in DOMAIN call.args
           /\ ArgumentIsBound(t, call, p, Bindings[call.fn][p], intent, deployment)
<1>1. p \in DOMAIN call.args
  BY DEF ArgumentsAreBound
<1>2. DOMAIN <<>> = {}
  OBVIOUS
<1>3. (<<>> @@ Bindings[call.fn])[p] = Bindings[call.fn][p]
  BY <1>2, Under
<1> QED
  BY <1>1, <1>3 DEF ArgumentsAreBound

(* An argument bound to a field, and not optional, is what the field says. *)
LEMMA ArgumentIsTheField ==
    ASSUME NEW t, NEW call, NEW intent, NEW deployment,
           ArgumentsAreBound(t, call, intent, deployment, <<>>),
           NEW p \in DOMAIN Bindings[call.fn], p \notin Optional(call.fn),
           NEW name, Bindings[call.fn][p] = Field(name)
    PROVE  /\ p \in DOMAIN call.args
           /\ call.args[p].is = "pure"
           /\ call.args[p].v = Authorized(intent, name)
           /\ Authorized(intent, name) # Undefined
<1>1. p \in DOMAIN call.args /\ ArgumentIsBound(t, call, p, Field(name), intent, deployment)
  BY ArgumentIsBoundTo
<1>2. Agrees(intent, name, p \in Optional(call.fn), Read(call.args[p]))
  BY <1>1 DEF ArgumentIsBound, Field
<1>3. /\ Authorized(intent, name) # Undefined /\ Read(call.args[p]) # Unreadable
      /\ Read(call.args[p]) = Authorized(intent, name)
  BY <1>2 DEF Agrees
<1> QED
  BY <1>1, <1>3 DEF Read

(* What a field of the intent authorizes.                                 *)
LEMMA AuthorizedIs ==
    ASSUME NEW intent
    PROVE  /\ Authorized(intent, "ticker") = intent.ticker
           /\ Authorized(intent, "collateralRaw") = intent.collateralRaw
           /\ Authorized(intent, "sizeRaw") = intent.sizeRaw
           /\ Authorized(intent, "triggerPriceRaw") = intent.triggerPriceRaw
           /\ Authorized(intent, "acceptablePriceRaw") = intent.acceptablePriceRaw
           /\ intent.side # Undefined => Authorized(intent, "side") = (intent.side = "long")
           /\ Authorized(intent, "side") # Undefined => intent.side # Undefined
  BY DEF Authorized

-----------------------------------------------------------------------------
(* What the gate makes sure of.                                           *)

(* What stands of a request once it is authorized.                        *)
Decided ==
    /\ IsAsk(ask) /\ CanPlan(ask, context.signer # OwnerAddress)
    /\ IsMarket(market)
    /\ context.mode = "delegated-auto" => IsScope(context.scope)
    /\ Gate!Authorizes(context.mode, context.scope, Plan(ask).intent, TRUE, market.now, Open, 0)

Unattended == Decided /\ context.mode = "delegated-auto"

(* The ceilings a scope must have are numbers.                            *)
LEMMA ScopeIsOfNumbers ==
    ASSUME Unattended
    PROVE  /\ context.scope.notAfter \in Int
           /\ context.scope.maxCollateralPerOrder \in Int
           /\ context.scope.maxLeverage \in Int
           /\ context.scope.maxSlippagePercent \in Int
  BY DEF Unattended, Decided, IsScope, Gate!Ceilings

(* What an authorization under delegated-auto says of the intent.         *)
LEMMA GateIsMet ==
    ASSUME Unattended
    PROVE  LET intent == Plan(ask).intent
           IN /\ intent.action \notin Gate!OwnerOnlyActions
              /\ market.now <= context.scope.notAfter
              /\ intent.accountId \in context.scope.accounts
              /\ Gate!Allowed(intent.ticker, context.scope.markets)
              /\ Gate!Allowed(intent.side, context.scope.sides)
              /\ intent.slippagePercent # Undefined =>
                     intent.slippagePercent <= context.scope.maxSlippagePercent
              /\ intent.leverage # NaN
              /\ ~Gate!IsExit(intent.action) =>
                    /\ intent.leverage # Undefined => intent.leverage <= context.scope.maxLeverage
                    /\ intent.collateral # Undefined =>
                           intent.collateral <= context.scope.maxCollateralPerOrder
  BY DEF Unattended, Decided, Gate!Authorizes, Gate!Measurable, Gate!InScope, Gate!Settled,
         Gate!Within, Gate!IsMetered

(* The actions the ceilings bound.                                        *)
LEMMA Commitments ==
    \A action \in {"openLong", "openShort", "placeLimitOrder", "increasePosition",
                   "removeMargin", "updateOrder", "mintWlp"} : ~Gate!IsExit(action)
  BY DEF Gate!IsExit, Gate!V!Exits

(* A collateral and a leverage that the gate lets through, and what they   *)
(* bound.                                                                  *)
LEMMA Bounded ==
    ASSUME Unattended, NEW collateral \in Int, NEW size \in Int, NEW price \in Int,
           ~Gate!IsExit(Plan(ask).intent.action), Plan(ask).intent.collateral = collateral,
           Plan(ask).intent.leverage = EffectiveLeverage(collateral, size, price)
    PROVE  WithinCeilings(collateral, size, price)
<1>1. collateral <= context.scope.maxCollateralPerOrder
  BY GateIsMet, NumberAssumption
<1>2. size * price <= context.scope.maxLeverage * collateral
  <2>1. /\ EffectiveLeverage(collateral, size, price) # NaN
        /\ EffectiveLeverage(collateral, size, price) # Undefined =>
               EffectiveLeverage(collateral, size, price) <= context.scope.maxLeverage
    BY GateIsMet
  <2> QED
    BY <2>1, ScopeIsOfNumbers, LeverageBounds
<1> QED
  BY <1>1, <1>2 DEF WithinCeilings

(* A side and its flag say the same.                                      *)
LEMMA SideOf ==
    /\ \A isLong \in BOOLEAN : (Side(isLong) = "long") = isLong
    /\ \A side \in {"long", "short"} : Side(side = "long") = side
  BY DEF Side

(* A position that is found is one the backend answered.                  *)
LEMMA PositionIsTyped ==
    ASSUME IsMarket(market), HasPosition(ask)
    PROVE  LET p == PositionOf(ask)
           IN /\ p.side \in {"long", "short"} /\ p.collateral \in Int /\ p.notional \in Int
              /\ p.sizeInAsset \in Int
<1>1. \E p \in Positions : p.ticker = ask.ticker /\ p.id = ask.positionId
  BY DEF HasPosition
<1>2. PositionOf(ask) \in Positions
  BY <1>1 DEF PositionOf
<1> QED
  BY <1>2 DEF IsMarket, Positions

(* So is an order.                                                        *)
LEMMA OrderIsTyped ==
    ASSUME IsMarket(market), HasOrder(ask)
    PROVE  LET o == OrderOf(ask)
           IN o.side \in {"long", "short"} /\ o.collateral \in Int
<1>1. \E o \in Orders : o.ticker = ask.ticker /\ o.id = ask.orderId
  BY DEF HasOrder
<1>2. OrderOf(ask) \in Orders
  BY <1>1 DEF OrderOf
<1> QED
  BY <1>2 DEF IsMarket, Orders

(* A size that was not refused is a number.                               *)
LEMMA SizeIsInt ==
    ASSUME NEW a, IsAsk(a), a.op \in {"open", "limit", "increase"}, NEW price \in Int,
           CanSize(a, price)
    PROVE  OrderSize(a, price) \in Int
<1>1. a.collateral \in Int
  BY DEF IsAsk, Needs, Amounts
<1>2. CASE Given(a, "size")
  BY <1>2 DEF OrderSize, IsAsk, Amounts, Given
<1>3. CASE ~Given(a, "size")
  <2>1. a.leverage \in Int /\ price > 0
    BY <1>3 DEF CanSize, Given, IsAsk, Amounts
  <2>2. a.collateral * a.leverage \in Int
    BY <1>1, <2>1
  <2> QED
    BY <1>3, <2>1, <2>2, RoundedIsInt DEF OrderSize
<1> QED
  BY <1>2, <1>3

-----------------------------------------------------------------------------
(* One operation of a transaction that matches what the gate authorized.   *)

Verified == Matches(tx, Plan(ask).intent, context.signer, context)

(* What a property reads of a call is its argument.                       *)
LEMMA ValueIs ==
    ASSUME NEW i, NEW p \in DOMAIN tx.commands[i].args, tx.commands[i].args[p].is = "pure"
    PROVE  /\ <<tx.commands[i].fn, p>> \notin Listed =>
                 p \in DOMAIN Values(i) /\ Values(i)[p] = tx.commands[i].args[p].v
           /\ p \in DOMAIN Values(i) => Values(i)[p] = tx.commands[i].args[p].v
  BY DEF Values, IsListed

(* The value of a parameter that is bound to a field of the intent.        *)
LEMMA ValueIsTheField ==
    ASSUME Unattended, Verified, NEW i \in CallsOf(tx, Sensitive),
           NEW p \in DOMAIN Bindings[tx.commands[i].fn],
           p \notin Optional(tx.commands[i].fn), <<tx.commands[i].fn, p>> \notin Listed,
           NEW name, Bindings[tx.commands[i].fn][p] = Field(name)
    PROVE  /\ Values(i)[p] = Authorized(Plan(ask).intent, name)
           /\ Authorized(Plan(ask).intent, name) # Undefined
<1>1. ArgumentsAreBound(tx, tx.commands[i], Plan(ask).intent, context.deployment, <<>>)
  BY GateIsMet, CallIsTheActions DEF Verified
<1>2. /\ p \in DOMAIN tx.commands[i].args /\ tx.commands[i].args[p].is = "pure"
      /\ tx.commands[i].args[p].v = Authorized(Plan(ask).intent, name)
      /\ Authorized(Plan(ask).intent, name) # Undefined
  BY <1>1, ArgumentIsTheField
<1> QED
  BY <1>2, ValueIs

(* A call names no market outside the scope.                              *)
LEMMA MarketIsAllowed ==
    ASSUME Unattended, Verified, NEW i \in CallsOf(tx, Sensitive),
           "ticker" \in DOMAIN Values(i)
    PROVE  Gate!Allowed(Values(i).ticker, context.scope.markets)
<1> DEFINE fn == tx.commands[i].fn
           intent == Plan(ask).intent
<1>1. fn \in Sensitive
  BY DEF CallsOf
<1>2. ArgumentsAreBound(tx, tx.commands[i], intent, context.deployment, <<>>)
  BY GateIsMet, CallIsTheActions DEF Verified
<1>3. "ticker" \in DOMAIN Bindings[fn]
  BY <1>2 DEF Values, ArgumentsAreBound
<1>4. Bindings[fn]["ticker"] = Field("ticker") /\ "ticker" \notin Optional(fn)
  BY <1>1, <1>3, TickerIsBound
<1>5. tx.commands[i].args["ticker"].v = intent.ticker
  BY <1>2, <1>3, <1>4, ArgumentIsTheField, AuthorizedIs
<1>6. Values(i)["ticker"] = intent.ticker
  BY <1>5 DEF Values
<1> QED
  BY <1>6, GateIsMet

(* Which request an authorized action comes from.                         *)
LEMMA ActionOf ==
    ASSUME Unattended
    PROVE  LET action == Plan(ask).intent.action
           IN /\ action = "increasePosition" => ask.op = "increase"
              /\ action = "removeMargin" => ask.op = "removeMargin"
              /\ action = "updateOrder" => ask.op = "update"
              /\ action = "mintWlp" => ask.op = "mintWlp"
              /\ action \in {"openLong", "openShort"} => ask.op = "open"
              /\ action = "placeLimitOrder" => ask.op = "limit"
              /\ action = "placeTpSl" => ask.op = "placeTpSl"
<1>1. IsAsk(ask)
  BY DEF Unattended, Decided
<1>2. CASE ask.op \notin {"open", "limit", "increase", "removeMargin", "update", "mintWlp",
                          "placeTpSl"}
  BY <1>1, <1>2, OthersSay
<1>3. CASE ask.op \in {"open", "limit", "increase", "removeMargin", "update", "mintWlp",
                       "placeTpSl"}
  BY <1>3, OpenSays, LimitSays, IncreaseSays, RemoveMarginSays, UpdateSays, MintSays, BracketSays
<1> QED
  BY <1>2, <1>3

(* Which request a verified call comes from.                              *)
LEMMA CallSaysTheOp ==
    ASSUME Unattended, Verified, NEW i \in CallsOf(tx, Sensitive)
    PROVE  LET fn == tx.commands[i].fn
           IN /\ fn = "trading::increase_position_request" => ask.op = "increase"
              /\ fn = "trading::withdraw_collateral_request" => ask.op = "removeMargin"
              /\ fn = "trading::update_order_request" => ask.op = "update"
              /\ fn = "lp_pool::mint_wlp" => ask.op = "mintWlp"
              /\ fn = "trading::place_order_request" => ask.op \in {"open", "limit", "placeTpSl"}
<1> DEFINE action == Plan(ask).intent.action
<1>1. /\ action \notin Gate!OwnerOnlyActions /\ action \in Actions
      /\ tx.commands[i].fn = ActionRules[action].entrypoint
  BY GateIsMet, CallIsTheActions DEF Verified
<1> QED
  BY <1>1, RuleOfACall, ActionOf

(* One operation after another: an increase,                              *)
LEMMA IncreaseIsWithin ==
    ASSUME Unattended, Verified, NEW i \in CallsOf(tx, Sensitive),
           tx.commands[i].fn = "trading::increase_position_request"
    PROVE  /\ WithinCeilings(Values(i).collateralAmount, Values(i).size, Spot)
           /\ AllowedSide(PositionOf(ask).side = "long")
<1> DEFINE intent == Plan(ask).intent
           size == OrderSize(ask, Spot)
<1>1. ask.op = "increase" /\ IsAsk(ask)
  BY CallSaysTheOp DEF Unattended, Decided
<1>2. HasPosition(ask) /\ CanSize(ask, Spot) /\ Spot \in Int
  BY <1>1 DEF Unattended, Decided, CanPlan, IsMarket, Spot
<1>3. /\ intent.action = "increasePosition" /\ intent.side = PositionOf(ask).side
      /\ intent.collateral = ask.collateral /\ intent.collateralRaw = ask.collateral
      /\ intent.sizeRaw = size
      /\ intent.leverage = EffectiveLeverage(ask.collateral, size, Spot)
  BY <1>1, IncreaseSays
<1>4. Values(i)["collateralAmount"] = ask.collateral /\ Values(i)["size"] = size
  <2>1. "collateralAmount" \notin Optional(tx.commands[i].fn)
        /\ "size" \notin Optional(tx.commands[i].fn)
    BY DEF Optional
  <2>2. <<tx.commands[i].fn, "collateralAmount">> \notin Listed
        /\ <<tx.commands[i].fn, "size">> \notin Listed
    BY DEF Listed
  <2> QED
    BY <1>3, <2>1, <2>2, ValueIsTheField, IncreaseIsBound, AuthorizedIs
<1>5. ask.collateral \in Int /\ size \in Int
  BY <1>1, <1>2, SizeIsInt DEF IsAsk, Needs, Amounts
<1>6. WithinCeilings(ask.collateral, size, Spot)
  BY <1>2, <1>3, <1>5, Bounded, Commitments
<1>7. AllowedSide(PositionOf(ask).side = "long")
  BY <1>2, <1>3, PositionIsTyped, SideOf, GateIsMet DEF AllowedSide, Unattended, Decided
<1> HIDE DEF size
<1> QED
  BY <1>4, <1>6, <1>7

(* a withdrawal of margin,                                                *)
LEMMA WithdrawalIsWithin ==
    ASSUME Unattended, Verified, NEW i \in CallsOf(tx, Sensitive),
           tx.commands[i].fn = "trading::withdraw_collateral_request"
    PROVE  /\ Values(i).amount <= context.scope.maxCollateralPerOrder
           /\ PositionOf(ask).notional
                 <= context.scope.maxLeverage * (PositionOf(ask).collateral - Values(i).amount)
<1> DEFINE intent == Plan(ask).intent
           left == PositionOf(ask).collateral - ask.amount
<1>1. ask.op = "removeMargin" /\ IsAsk(ask)
  BY CallSaysTheOp DEF Unattended, Decided
<1>2. HasPosition(ask) /\ IsMarket(market)
  BY <1>1 DEF Unattended, Decided, CanPlan
<1>3. /\ intent.action = "removeMargin"
      /\ intent.collateral = ask.amount /\ intent.collateralRaw = ask.amount
      /\ intent.leverage = EffectiveLeverage(left, PositionOf(ask).notional, 1)
  BY <1>1, RemoveMarginSays
<1>4. Values(i)["amount"] = ask.amount
  <2>1. "amount" \notin Optional(tx.commands[i].fn)
        /\ <<tx.commands[i].fn, "amount">> \notin Listed
    BY DEF Optional, Listed
  <2> QED
    BY <1>3, <2>1, ValueIsTheField, WithdrawalIsBound, AuthorizedIs
<1>5. /\ ask.amount \in Int /\ PositionOf(ask).collateral \in Int /\ left \in Int
      /\ PositionOf(ask).notional \in Int
  BY <1>1, <1>2, PositionIsTyped DEF IsAsk, Needs, Amounts
<1>6. ~Gate!IsExit(intent.action)
  BY <1>3, Commitments
<1>7. ask.amount <= context.scope.maxCollateralPerOrder
  BY <1>3, <1>5, <1>6, GateIsMet, NumberAssumption
<1>8. PositionOf(ask).notional * 1 <= context.scope.maxLeverage * left
  <2> HIDE DEF left
  <2>1. /\ EffectiveLeverage(left, PositionOf(ask).notional, 1) # NaN
        /\ EffectiveLeverage(left, PositionOf(ask).notional, 1) # Undefined =>
             EffectiveLeverage(left, PositionOf(ask).notional, 1) <= context.scope.maxLeverage
    BY <1>3, <1>6, GateIsMet
  <2> QED
    BY <1>5, <2>1, ScopeIsOfNumbers, LeverageBounds
<1>9. PositionOf(ask).notional * 1 = PositionOf(ask).notional
  BY <1>5
<1> QED
  BY <1>4, <1>7, <1>8, <1>9

(* an update of a resting order,                                          *)
LEMMA UpdateIsWithin ==
    ASSUME Unattended, Verified, NEW i \in CallsOf(tx, Sensitive),
           tx.commands[i].fn = "trading::update_order_request"
    PROVE  /\ WithinCeilings(OrderOf(ask).collateral, Values(i).newSize, Values(i).newTriggerPrice)
           /\ AllowedSide(OrderOf(ask).side = "long")
<1> DEFINE intent == Plan(ask).intent
<1>1. ask.op = "update" /\ IsAsk(ask)
  BY CallSaysTheOp DEF Unattended, Decided
<1>2. HasOrder(ask) /\ IsMarket(market)
  BY <1>1 DEF Unattended, Decided, CanPlan
<1>3. /\ intent.action = "updateOrder" /\ intent.side = OrderOf(ask).side
      /\ intent.collateral = OrderOf(ask).collateral
      /\ intent.sizeRaw = ask.newSize /\ intent.triggerPriceRaw = ask.newTriggerPrice
      /\ intent.leverage =
             EffectiveLeverage(OrderOf(ask).collateral, ask.newSize, ask.newTriggerPrice)
  BY <1>1, UpdateSays
<1>4. Values(i)["newSize"] = ask.newSize /\ Values(i)["newTriggerPrice"] = ask.newTriggerPrice
  <2>1. "newSize" \notin Optional(tx.commands[i].fn)
        /\ "newTriggerPrice" \notin Optional(tx.commands[i].fn)
    BY DEF Optional
  <2>2. <<tx.commands[i].fn, "newSize">> \notin Listed
        /\ <<tx.commands[i].fn, "newTriggerPrice">> \notin Listed
    BY DEF Listed
  <2> QED
    BY <1>3, <2>1, <2>2, ValueIsTheField, UpdateIsBound, AuthorizedIs
<1>5. ask.newSize \in Int /\ ask.newTriggerPrice \in Int /\ OrderOf(ask).collateral \in Int
  BY <1>1, <1>2, OrderIsTyped DEF IsAsk, Needs, Amounts
<1>6. WithinCeilings(OrderOf(ask).collateral, ask.newSize, ask.newTriggerPrice)
  BY <1>3, <1>5, Bounded, Commitments
<1>7. AllowedSide(OrderOf(ask).side = "long")
  BY <1>2, <1>3, OrderIsTyped, SideOf, GateIsMet DEF AllowedSide
<1> QED
  BY <1>4, <1>6, <1>7

(* and a deposit into the pool are each inside the scope.                 *)
LEMMA MintIsWithin ==
    ASSUME Unattended, Verified, NEW i \in CallsOf(tx, Sensitive),
           tx.commands[i].fn = "lp_pool::mint_wlp"
    PROVE  Values(i).depositAmount <= context.scope.maxCollateralPerOrder
<1> DEFINE intent == Plan(ask).intent
<1>1. ask.op = "mintWlp" /\ IsAsk(ask)
  BY CallSaysTheOp DEF Unattended, Decided
<1>2. /\ intent.action = "mintWlp"
      /\ intent.collateral = ask.amount /\ intent.collateralRaw = ask.amount
  BY <1>1, MintSays
<1>3. Values(i)["depositAmount"] = ask.amount
  <2>1. "depositAmount" \notin Optional(tx.commands[i].fn)
        /\ <<tx.commands[i].fn, "depositAmount">> \notin Listed
    BY DEF Optional, Listed
  <2> QED
    BY <1>2, <2>1, ValueIsTheField, MintIsBound, AuthorizedIs
<1>4. ask.amount \in Int
  BY <1>1 DEF IsAsk, Needs, Amounts
<1>5. ask.amount <= context.scope.maxCollateralPerOrder
  BY <1>2, <1>4, Commitments, GateIsMet, NumberAssumption
<1> QED
  BY <1>3, <1>5

(* Every operation of the bytes is inside the scope.                      *)
LEMMA OperationsAreWithin ==
    ASSUME Unattended, Verified, NEW i \in CallsOf(tx, Sensitive)
    PROVE  OperationIsWithin(i)
  BY MarketIsAllowed, IncreaseIsWithin, WithdrawalIsWithin, UpdateIsWithin, MintIsWithin
     DEF OperationIsWithin

-----------------------------------------------------------------------------
(* The orders a call places.                                              *)

(* The package that places an order also constructs it.                   *)
LEMMA PackageOfAnOrder ==
    /\ AbiPackage(OrderArgument) = "waterx_perp"
    /\ AbiPackage("trading::place_order_request") = "waterx_perp"
  BY DEF AbiPackage, Perp, Account, Queue, OrderArgument

(* What a place call is handed is what the verifier looked at.            *)
LEMMA PlacedIsConstructed ==
    ASSUME Unattended, Verified, NEW p \in PlacedOrders
    PROVE  /\ p[1] \in CallsOf(tx, Sensitive)
           /\ tx.commands[p[1]].fn = "trading::place_order_request"
           /\ p \in CallsOf(tx, {"trading::place_order_request"}) \X Calls(tx)
           /\ p[2] \in Constructors(tx, p[1])
<1> DEFINE i == p[1]
           c == p[2]
           call == tx.commands[i]
           main == call.args["main"]
           legs == call.args["preOrder"]
<1>1. /\ p \in CallsOf(tx, {"trading::place_order_request"}) \X Calls(tx)
      /\ \/ c = main.of
         \/ \E k \in DOMAIN tx.commands[legs.of].args : c = tx.commands[legs.of].args[k].of
  BY DEF PlacedOrders
<1>2. i \in CallsOf(tx, Sensitive) /\ call.fn = "trading::place_order_request"
  BY <1>1 DEF CallsOf, Sensitive, Perp, OrderArgument
<1>3. i \in DOMAIN tx.commands
  BY <1>2 DEF CallsOf, Calls
<1>4. /\ ArgumentsAreBound(tx, call, Plan(ask).intent, context.deployment, <<>>)
      /\ CodeIsTheDeployments(call, Plan(ask).intent, context.deployment)
  BY <1>2, GateIsMet, CallIsTheActions DEF Verified
<1>5. /\ {"main", "preOrder"} \subseteq DOMAIN call.args
      /\ IsProducedBy(tx, main, OrderArgument, context.deployment)
      /\ IsVectorOf(tx, legs, OrderArgument, context.deployment)
  <2>1. ArgumentIsBound(tx, call, "main", ProducedBy(OrderArgument), Plan(ask).intent,
                        context.deployment)
    BY <1>2, <1>4, ArgumentIsBoundTo, PlaceIsBound
  <2>2. ArgumentIsBound(tx, call, "preOrder", VectorOf(OrderArgument), Plan(ask).intent,
                        context.deployment)
    BY <1>2, <1>4, ArgumentIsBoundTo, PlaceIsBound
  <2>3. {"main", "preOrder"} \subseteq DOMAIN call.args
    BY <1>2, <1>4, ArgumentIsBoundTo, PlaceIsBound
  <2> QED
    BY <2>1, <2>2, <2>3 DEF ArgumentIsBound, ProducedBy, VectorOf
<1>6. AbiPackage(OrderArgument) \in context.deployment.packages
  BY <1>2, <1>4, PackageOfAnOrder DEF CodeIsTheDeployments
<1>7. ASSUME NEW argument, IsProducedBy(tx, argument, OrderArgument, context.deployment)
      PROVE  /\ argument.is = "result" /\ argument.of \in DOMAIN tx.commands
             /\ argument.of \in CallsOf(tx, {OrderArgument})
             /\ tx.commands[argument.of].pkg = Package(AbiPackage(OrderArgument))
  BY <1>6, <1>7 DEF IsProducedBy, CallsOf, Calls
<1>8. CASE c = main.of
  <2>1. c \in Sources(tx, i)
    BY <1>5, <1>7, <1>8 DEF Sources
  <2> QED
    BY <1>1, <1>2, <1>3, <1>5, <1>7, <1>8, <2>1, HandedIsReached DEF Constructors
<1>9. CASE \E k \in DOMAIN tx.commands[legs.of].args : c = tx.commands[legs.of].args[k].of
  <2>1. PICK k \in DOMAIN tx.commands[legs.of].args : c = tx.commands[legs.of].args[k].of
    BY <1>9
  <2>2. IsProducedBy(tx, tx.commands[legs.of].args[k], OrderArgument, context.deployment)
    BY <1>5, <2>1 DEF IsVectorOf
  <2>3. legs.of \in Sources(tx, i)
    BY <1>5 DEF Sources, IsVectorOf
  <2>4. c \in Sources(tx, legs.of)
    BY <1>7, <2>1, <2>2 DEF Sources
  <2> QED
    BY <1>1, <1>2, <1>3, <1>7, <2>1, <2>2, <2>3, <2>4, HandedIsReached DEF Constructors
<1> QED
  BY <1>1, <1>8, <1>9

(* What the constructor of an order is held to.                           *)
LEMMA OrderFields ==
    /\ {"isLong", "size", "triggerPrice", "acceptablePrice", "collateralAmount", "reduceOnly"}
           \subseteq DOMAIN OrderArgBindings
    /\ OrderArgBindings["isLong"] = Field("side") /\ OrderArgBindings["size"] = Field("sizeRaw")
    /\ OrderArgBindings["triggerPrice"] = Field("triggerPriceRaw")
    /\ OrderArgBindings["acceptablePrice"] = Field("acceptablePriceRaw")
    /\ OrderArgBindings["collateralAmount"] = Field("collateralRaw")
    /\ Optional(OrderArgument) = {"triggerPrice", "linkedPositionId", "acceptablePrice"}
<1>1. Optional(OrderArgument) = {"triggerPrice", "linkedPositionId", "acceptablePrice"}
  BY DEF Optional, OrderArgument
<1>2. DOMAIN Same({"isStopOrder", "reduceOnly"}) = {"isStopOrder", "reduceOnly"}
  BY DEF Same
<1> QED
  BY <1>1, <1>2, OverDomain, OverLeft DEF OrderArgBindings

(* An agreement: with what is said, or on saying nothing.                  *)
LEMMA AgreesSays ==
    ASSUME NEW intent, NEW field, NEW optional, NEW got, Agrees(intent, field, optional, got)
    PROVE  got = Authorized(intent, field)
  BY DEF Agrees

(* A main order is the intent's, in all that a ceiling reads.             *)
LEMMA MainSays ==
    ASSUME NEW order, NEW intent, MainIsBound(order, intent)
    PROVE  /\ order["isLong"] = Authorized(intent, "side")
           /\ order["isLong"] # Undefined
           /\ order["size"] = intent.sizeRaw
           /\ order["triggerPrice"] = intent.triggerPriceRaw
           /\ order["acceptablePrice"] = intent.acceptablePriceRaw
           /\ order["collateralAmount"] = intent.collateralRaw
<1>1. \A param \in DOMAIN OrderArgBindings :
        Agrees(intent, OrderArgBindings[param].of, param \in Optional(OrderArgument), order[param])
  BY DEF MainIsBound
<1>2. \A name : Field(name).of = name
  BY DEF Field
<1>3. Agrees(intent, "side", "isLong" \in Optional(OrderArgument), order["isLong"])
  BY <1>1, <1>2, OrderFields
<1>4. order["isLong"] = Authorized(intent, "side") /\ order["isLong"] # Undefined
  BY <1>3, OrderFields DEF Agrees
<1>5. order["size"] = Authorized(intent, "sizeRaw")
  BY <1>1, <1>2, OrderFields, AgreesSays
<1>6. order["triggerPrice"] = Authorized(intent, "triggerPriceRaw")
  BY <1>1, <1>2, OrderFields, AgreesSays
<1>7. order["acceptablePrice"] = Authorized(intent, "acceptablePriceRaw")
  BY <1>1, <1>2, OrderFields, AgreesSays
<1>8. order["collateralAmount"] = Authorized(intent, "collateralRaw")
  BY <1>1, <1>2, OrderFields, AgreesSays
<1> QED
  BY <1>4, <1>5, <1>6, <1>7, <1>8, AuthorizedIs

(* The main order of an opening is inside the scope.                       *)
LEMMA OpeningIsWithin ==
    ASSUME Unattended, ask.op = "open", NEW order, MainIsBound(order, Plan(ask).intent)
    PROVE  OrderIsWithin(order)
<1> DEFINE intent == Plan(ask).intent
           size == OrderSize(ask, Spot)
           limit == AcceptablePriceFor(Spot, Entry(Side(ask.isLong)), Slippage(ask))
<1>1. /\ IsAsk(ask) /\ CanSize(ask, Spot) /\ Spot \in Nat
      /\ ask.collateral \in Int /\ ask.isLong \in BOOLEAN
  BY DEF Unattended, Decided, CanPlan, IsMarket, Spot, IsAsk, Needs, Amounts
<1>2. /\ intent.action \in {"openLong", "openShort"} /\ intent.side = Side(ask.isLong)
      /\ intent.collateral = ask.collateral /\ intent.collateralRaw = ask.collateral
      /\ intent.sizeRaw = size /\ intent.triggerPriceRaw = Undefined
      /\ intent.leverage = EffectiveLeverage(ask.collateral, size, Spot)
      /\ intent.slippagePercent = Slippage(ask) /\ intent.acceptablePriceRaw = limit
  BY OpenSays
<1>3. /\ order["isLong"] = Authorized(intent, "side") /\ order["isLong"] # Undefined
      /\ order["size"] = size
      /\ order["triggerPrice"] = Undefined /\ order["acceptablePrice"] = limit
      /\ order["collateralAmount"] = ask.collateral
  BY <1>2, MainSays
<1>4. order["isLong"] = ask.isLong
  BY <1>1, <1>2, <1>3, AuthorizedIs, SideOf
<1>5. size \in Int
  BY <1>1, SizeIsInt
<1>6. Slippage(ask) \in Int
  BY <1>1, NumberAssumption DEF Slippage, Or, Given, IsAsk, Amounts
<1>7. Slippage(ask) <= context.scope.maxSlippagePercent
  BY <1>2, <1>6, GateIsMet, NumberAssumption
<1>8. WithinCeilings(ask.collateral, size, Spot)
  BY <1>1, <1>2, <1>5, Bounded, Commitments
<1>9. AllowedSide(ask.isLong)
  BY <1>2, GateIsMet DEF AllowedSide
<1>10. AllowedSlippage(limit, Entry(Side(ask.isLong)))
  <2>1. context.scope.maxSlippagePercent \in Int
    BY ScopeIsOfNumbers
  <2>2. Entry(Side(ask.isLong)) \in {"buy", "sell"}
    BY DEF Entry
  <2> QED
    BY <1>1, <1>6, <1>7, <2>1, <2>2, SlippageBounds DEF AllowedSlippage
<1> HIDE DEF size, limit
<1> QED
  BY <1>3, <1>4, <1>8, <1>9, <1>10 DEF OrderIsWithin

(* The main order of a limit order is inside the scope, at its own price.  *)
LEMMA LimitIsWithin ==
    ASSUME Unattended, ask.op = "limit", NEW order, MainIsBound(order, Plan(ask).intent)
    PROVE  OrderIsWithin(order)
<1> DEFINE intent == Plan(ask).intent
           size == OrderSize(ask, ask.triggerPrice)
<1>1. /\ IsAsk(ask) /\ CanSize(ask, ask.triggerPrice) /\ ask.triggerPrice \in Int
      /\ ask.collateral \in Int /\ ask.isLong \in BOOLEAN
  BY DEF Unattended, Decided, CanPlan, IsAsk, Needs, Amounts
<1>2. /\ intent.action = "placeLimitOrder" /\ intent.side = Side(ask.isLong)
      /\ intent.collateral = ask.collateral /\ intent.collateralRaw = ask.collateral
      /\ intent.sizeRaw = size /\ intent.triggerPriceRaw = ask.triggerPrice
      /\ intent.leverage = EffectiveLeverage(ask.collateral, size, ask.triggerPrice)
      /\ intent.acceptablePriceRaw = Undefined
  BY LimitSays
<1>3. /\ order["isLong"] = Authorized(intent, "side") /\ order["isLong"] # Undefined
      /\ order["size"] = size
      /\ order["triggerPrice"] = ask.triggerPrice /\ order["acceptablePrice"] = Undefined
      /\ order["collateralAmount"] = ask.collateral
  BY <1>2, MainSays
<1>4. order["isLong"] = ask.isLong
  BY <1>1, <1>2, <1>3, AuthorizedIs, SideOf
<1>5. size \in Int
  BY <1>1, SizeIsInt
<1>6. WithinCeilings(ask.collateral, size, ask.triggerPrice)
  BY <1>1, <1>2, <1>5, Bounded, Commitments
<1>7. AllowedSide(ask.isLong)
  BY <1>2, GateIsMet DEF AllowedSide
<1>8. ask.triggerPrice # Undefined
  BY <1>1, NumberAssumption
<1> HIDE DEF size
<1> QED
  BY <1>3, <1>4, <1>6, <1>7, <1>8 DEF OrderIsWithin

(* Every order the bytes place is inside the scope: one that only reduces  *)
(* commits nothing, and the other is the one that was authorized.          *)
LEMMA PlacedOrdersAreWithin ==
    ASSUME Unattended, Verified, NEW p \in PlacedOrders
    PROVE  OrderIsWithin(OrderAt(tx, p[2]))
<1> DEFINE intent == Plan(ask).intent
           place == "trading::place_order_request"
           order == OrderAt(tx, p[2])
           placed == {o \in CallsOf(tx, {place}) \X Calls(tx) : o[2] \in Constructors(tx, o[1])}
           legs == {o \in placed : IsLeg(OrderAt(tx, o[2]), intent)}
<1>1. p \in placed /\ p[1] \in CallsOf(tx, Sensitive) /\ tx.commands[p[1]].fn = place
  BY PlacedIsConstructed
<1>2. intent.action \notin Gate!OwnerOnlyActions
  BY GateIsMet
<1>3. ActionRules[intent.action].entrypoint = place
  BY <1>1, <1>2, CallIsTheActions DEF Verified
<1>4. OrdersAreRight(tx, CallsOf(tx, {place}), intent)
  BY <1>2, <1>3, CallIsTheActions DEF Verified
<1>5. CASE p \in legs
  <2>1. order.reduceOnly /\ order.collateralAmount = 0
    BY <1>4, <1>5 DEF OrdersAreRight, LegIsBound
  <2> HIDE DEF order
  <2>2. OrderIsWithin(order)
    BY <2>1 DEF OrderIsWithin
  <2> QED
    BY <2>2 DEF order
<1>6. CASE p \notin legs
  <2>1. MainIsBound(order, intent) /\ intent.reduceOnly # TRUE
    BY <1>1, <1>4, <1>6 DEF OrdersAreRight, IsLeg
  <2>2. ask.op \in {"open", "limit"}
    BY <1>1, <2>1, CallSaysTheOp, BracketSays
  <2> QED
    BY <2>1, <2>2, OpeningIsWithin, LimitIsWithin
<1> QED
  BY <1>5, <1>6

-----------------------------------------------------------------------------
(* What never changes once a request is asked.                            *)

(* The same market is read the same way,                                  *)
LEMMA SamePosition ==
    ASSUME NEW a, market' = market, ask' = a
    PROVE  /\ Spot' = Spot /\ Open' = Open
           /\ HasPosition(ask)' = HasPosition(a) /\ PositionOf(ask)' = PositionOf(a)
           /\ HasOrder(ask)' = HasOrder(a) /\ OrderOf(ask)' = OrderOf(a)
  BY DEF Spot, Open, Positions, Orders, HasPosition, PositionOf, HasOrder, OrderOf

(* admits the same requests,                                              *)
LEMMA SameCanPlan ==
    ASSUME NEW a, market' = market, ask' = a, context' = context
    PROVE  CanPlan(ask, context.signer # OwnerAddress)'
               <=> CanPlan(a, context.signer # OwnerAddress)
<1>1. NotCrossing(ask.isLong, ask.triggerPrice, Or(ask, "isStopOrder", FALSE),
                  Or(ask, "reduceOnly", FALSE))'
      = NotCrossing(a.isLong, a.triggerPrice, Or(a, "isStopOrder", FALSE),
                  Or(a, "reduceOnly", FALSE))
  BY DEF NotCrossing, Crosses, Spot
<1>2. NotCrossing(OrderOf(ask).side = "long", ask.newTriggerPrice,
                  OrderOf(ask).orderType = "stop-loss", OrderOf(ask).reduceOnly)'
      = NotCrossing(OrderOf(a).side = "long", a.newTriggerPrice,
                  OrderOf(a).orderType = "stop-loss", OrderOf(a).reduceOnly)
  BY SamePosition DEF NotCrossing, Crosses, Spot
<1> QED
  BY <1>1, <1>2, SamePosition DEF CanPlan

(* and yields the same plan.                                              *)
LEMMA SamePlan ==
    ASSUME market' = market, ask' = ask
    PROVE  Plan(ask)' = Plan(ask)
<1>1. /\ Spot' = Spot
      /\ PositionOf(ask)' = PositionOf(ask) /\ OrderOf(ask)' = OrderOf(ask)
  BY SamePosition
<1>2. PlanOpenPosition(ask)' = PlanOpenPosition(ask)
  BY <1>1 DEF PlanOpenPosition
<1>3. PlanClosePosition(ask)' = PlanClosePosition(ask)
  BY <1>1 DEF PlanClosePosition
<1>4. PlanReducePosition(ask)' = PlanReducePosition(ask)
  BY <1>1 DEF PlanReducePosition
<1>5. PlanIncreasePosition(ask)' = PlanIncreasePosition(ask)
  BY <1>1 DEF PlanIncreasePosition
<1>6. PlanRemoveMargin(ask)' = PlanRemoveMargin(ask)
  BY <1>1 DEF PlanRemoveMargin
<1>7. PlanPlaceTpSl(ask)' = PlanPlaceTpSl(ask)
  BY <1>1 DEF PlanPlaceTpSl
<1>8. PlanUpdateOrder(ask)' = PlanUpdateOrder(ask)
  BY <1>1 DEF PlanUpdateOrder
<1> QED
  BY <1>2, <1>3, <1>4, <1>5, <1>6, <1>7, <1>8 DEF Plan

-----------------------------------------------------------------------------
(* The inductive invariant: how far the request has come is how much of it *)
(* has been looked at, against what the signer knew then and knows now.    *)
KnownIsBuilt ==
    /\ context \in Contexts
    /\ Gate!CanBuild(context.mode, context.scope, context.signer # OwnerAddress)

AskedIsPlanned ==
    verdict \in {"asked", "denied", "composed", "refused", "signed"} =>
        IsAsk(ask) /\ CanPlan(ask, context.signer # OwnerAddress)

ComposedIsAuthorized ==
    verdict \in {"composed", "refused", "signed"} =>
        Gate!Authorizes(context.mode, context.scope, Plan(ask).intent, TRUE, market.now, Open, 0)

SignedIsVerified == verdict = "signed" => Verified

Sound ==
    /\ KnownIsBuilt
    /\ market \in Markets
    /\ verdict \in {"offered", "queued", "asked", "denied", "composed", "refused", "signed"}
    /\ verdict \in {"offered", "queued"} => queued \in Queued
    /\ AskedIsPlanned
    /\ ComposedIsAuthorized
    /\ SignedIsVerified

(* It holds of a request nobody has looked at,                            *)
LEMMA InitIsSound ==
    ASSUME Init
    PROVE  Sound
  BY AskAssumption DEF Init, Sound, KnownIsBuilt, AskedIsPlanned, ComposedIsAuthorized,
     SignedIsVerified

(* What the runner asks for an intent of the queue is an ask like another. *)
LEMMA QueuedIsAsked ==
    ASSUME IsMarket(market), NEW q \in Queued, NEW a \in AsksOf(q)
    PROVE  IsAsk(a)
<1>1. CASE q.kind = "fit-stop"
  <2>1. a \in FitStops(q)
    BY <1>1 DEF AsksOf
  <2>2. PICK p \in Positions, o \in Orders :
            a = [op |-> "update", ticker |-> p.ticker, orderId |-> o.id,
                 newTriggerPrice |-> o.triggerPrice, newSize |-> p.sizeInAsset]
    BY <2>1 DEF FitStops, OversizedStops
  <2>3. o.triggerPrice \in Int /\ p.sizeInAsset \in Int
    BY DEF IsMarket, Positions, Orders
  <2> QED
    BY <2>2, <2>3 DEF IsAsk, Needs, Amounts
<1>2. CASE q.kind # "fit-stop"
  BY <1>2, QueueAssumption DEF AsksOf
<1> QED
  BY <1>1, <1>2

(* every step keeps it,                                                   *)
LEMMA NextIsSound ==
    ASSUME Sound, [Next]_vars
    PROVE  Sound'
<1> USE DEF Sound, KnownIsBuilt
<1>1. CASE Offer
  BY <1>1 DEF Offer, AskedIsPlanned, ComposedIsAuthorized, SignedIsVerified
<1>2. CASE Drift
  BY <1>2 DEF Drift, AskedIsPlanned, ComposedIsAuthorized, SignedIsVerified
<1>3. CASE Start
  <2>1. PICK a \in AsksOf(queued) : CanPlan(a, context.signer # OwnerAddress) /\ ask' = a
    BY <1>3 DEF Start
  <2>2. /\ UNCHANGED <<market, context, queued, tx>> /\ verdict' = "asked"
        /\ verdict = "queued"
    BY <1>3 DEF Start
  <2>3. IsAsk(a)
    BY <2>1, <2>2, QueuedIsAsked, MarketAssumption
  <2>4. CanPlan(ask, context.signer # OwnerAddress)'
    BY <2>1, <2>2, SameCanPlan
  <2>5. AskedIsPlanned'
    BY <2>1, <2>3, <2>4 DEF AskedIsPlanned
  <2> QED
    BY <2>2, <2>5 DEF ComposedIsAuthorized, SignedIsVerified
<1>4. ASSUME UNCHANGED <<market, queued, ask, context>>
      PROVE  /\ KnownIsBuilt' /\ (market \in Markets)' /\ (queued \in Queued)' = (queued \in Queued)
             /\ Plan(ask)' = Plan(ask) /\ Open' = Open
             /\ (IsAsk(ask) /\ CanPlan(ask, context.signer # OwnerAddress))' =
                    (IsAsk(ask) /\ CanPlan(ask, context.signer # OwnerAddress))
  BY <1>4, SamePlan, SamePosition, SameCanPlan
<1>5. CASE Authorize
  BY <1>4, <1>5 DEF Authorize, AskedIsPlanned, ComposedIsAuthorized, SignedIsVerified
<1>6. CASE Damage
  BY <1>4, <1>6 DEF Damage, AskedIsPlanned, ComposedIsAuthorized, SignedIsVerified
<1>7. CASE Verify
  BY <1>4, <1>7 DEF Verify, AskedIsPlanned, ComposedIsAuthorized, SignedIsVerified, Verified
<1>8. CASE UNCHANGED vars
  BY <1>4, <1>8 DEF vars, AskedIsPlanned, ComposedIsAuthorized, SignedIsVerified, Verified
<1> QED
  BY <1>1, <1>2, <1>3, <1>5, <1>6, <1>7, <1>8 DEF Next

(* and it says of a signature that it stays in the scope.                 *)
LEMMA SoundIsWithinScope ==
    ASSUME Sound
    PROVE  SignedIsWithinScope
<1> SUFFICES ASSUME verdict = "signed", context.mode = "delegated-auto"
             PROVE  /\ market.now <= context.scope.notAfter
                    /\ AccountId \in context.scope.accounts
                    /\ CallsOf(tx, Account \cup Queue \cup {"custody_vault::mint"}) = {}
                    /\ \A i \in CallsOf(tx, Sensitive) : OperationIsWithin(i)
                    /\ \A p \in PlacedOrders : OrderIsWithin(OrderAt(tx, p[2]))
  BY DEF SignedIsWithinScope
<1>1. IsScope(context.scope)
  BY ContextAssumption DEF Sound, KnownIsBuilt, Gate!CanBuild
<1>2. Unattended /\ Verified
  BY <1>1, MarketAssumption DEF Sound, AskedIsPlanned, ComposedIsAuthorized, SignedIsVerified,
     Unattended, Decided
<1>3. Plan(ask).intent.accountId = AccountId
  <2>1. IsAsk(ask) /\ Plan(ask).intent.action # "createAccount"
    BY <1>2, GateIsMet DEF Unattended, Decided, Gate!OwnerOnlyActions
  <2>2. CASE ask.op \in {"open", "limit", "increase", "removeMargin", "update", "mintWlp",
                         "placeTpSl"}
    BY <2>2, OpenSays, LimitSays, IncreaseSays, RemoveMarginSays, UpdateSays, MintSays,
       BracketSays
  <2> QED
    BY <2>1, <2>2, OthersSay
<1>4. CallsOf(tx, Account \cup Queue \cup {"custody_vault::mint"}) = {}
  BY <1>2, GateIsMet, NothingOfTheOwners DEF Verified
<1> QED
  BY <1>2, <1>3, <1>4, GateIsMet, OperationsAreWithin, PlacedOrdersAreWithin

(* AN UNATTENDED SIGNATURE STAYS IN ITS SCOPE, whatever is asked or waits  *)
(* in the queue, whatever the backend answers and composes, however many   *)
(* times the bytes are changed before they are verified, and for every     *)
(* scope, deployment, corpus and list of exceptions.                       *)
THEOREM SignedStaysInScope == Spec => []SignedIsWithinScope
<1>1. Init => Sound
  BY InitIsSound
<1>2. Sound /\ [Next]_vars => Sound'
  BY NextIsSound
<1>3. Sound => SignedIsWithinScope
  BY SoundIsWithinScope
<1> QED
  BY <1>1, <1>2, <1>3, PTL DEF Spec

-----------------------------------------------------------------------------
(* What rests on the book can be taken off it.                            *)

(* The authority handle is made of nothing.                               *)
IsCommand(command) ==
    /\ {"kind", "fn", "types", "pkg", "args"} \subseteq DOMAIN command
    /\ command.kind = "MoveCall" /\ command.fn = "account::request" =>
          DOMAIN command.args = {}

AreCommands(commands) ==
    /\ commands \in Seq({commands[k] : k \in DOMAIN commands})
    /\ \A k \in DOMAIN commands : IsCommand(commands[k])

(* A command of a composed order or bracket is one of these.              *)
IsOfAPlacement(command) ==
    /\ IsCommand(command)
    /\ command.kind = "MoveCall" /\ command.fn = "account::request" =>
          command.pkg = Package("bucket_framework")

LEMMA SequenceOfItsOwn ==
    ASSUME NEW S, NEW s \in Seq(S)
    PROVE  s \in Seq({s[k] : k \in DOMAIN s})
<1>1. DOMAIN s = 1 .. Len(s) /\ Len(s) \in Nat /\ s = [k \in 1 .. Len(s) |-> s[k]]
  OBVIOUS
<1> QED
  BY <1>1

(* Two sequences joined, the first of two commands at least.              *)
LEMMA Joining ==
    ASSUME NEW S, NEW s \in Seq(S), NEW t \in Seq(S), Len(s) >= 2
    PROVE  /\ s \o t \in Seq(S) /\ Len(s \o t) >= 2
           /\ (s \o t)[1] = s[1] /\ (s \o t)[2] = s[2]
  OBVIOUS

LEMMA TwoFirst ==
    ASSUME NEW S, NEW s \in Seq(S), Len(s) >= 2
    PROVE  {1, 2} \subseteq DOMAIN s /\ \A k \in DOMAIN s : s[k] \in S
  OBVIOUS

LEMMA CommandsOfAPlacement ==
    /\ IsOfAPlacement(Refresh) /\ IsOfAPlacement(Handle)
    /\ \A order : IsOfAPlacement(Order(order))
    /\ \A results : IsOfAPlacement(Vector(results))
    /\ \A request, main, vector : IsOfAPlacement(Place(request, main, vector))
<1>1. AbiPackage("account::request") = "bucket_framework" /\ DOMAIN <<>> = {}
  BY DEF AbiPackage, Perp, Account, Queue
<1>2. /\ IsOfAPlacement(Refresh) /\ IsOfAPlacement(Handle)
      /\ \A results : IsOfAPlacement(Vector(results))
  BY <1>1 DEF IsOfAPlacement, IsCommand, Refresh, Handle, Vector, Call
<1>3. \A fn, types, args : fn # "account::request" => IsOfAPlacement(Call(fn, types, args))
  BY DEF IsOfAPlacement, IsCommand, Call
<1> QED
  BY <1>2, <1>3 DEF Order, Place, Operation, OrderArgument

LEMMA PlaceOrderIs ==
    ASSUME NEW request, NEW main, Len(request.preOrders) \in Nat
    PROVE  LET commands == PlaceOrder(request, main)
           IN /\ {1, 2} \subseteq DOMAIN commands
              /\ commands[1] = Refresh /\ commands[2] = Handle
              /\ AreCommands(commands)
              /\ \A k \in DOMAIN commands : IsOfAPlacement(commands[k])
<1> DEFINE n == Len(request.preOrders)
           L(k) == Order(Leg(request.preOrders[k], request.size, Undefined))
           V == Vector([k \in 1 .. n |-> 3 + k])
           P == Place(request, 3, 4 + n)
           S == {Refresh, Handle, Order(main), V, P} \cup {L(k) : k \in 1 .. n}
           first == <<Refresh, Handle, Order(main)>>
           legs == [k \in 1 .. n |-> L(k)]
           last == <<V, P>>
<1>1. \A c \in S : IsOfAPlacement(c)
  BY CommandsOfAPlacement
<1>2. PlaceOrder(request, main) = first \o legs \o last
  BY DEF PlaceOrder
<1>3. /\ first \in Seq(S) /\ Len(first) = 3 /\ first[1] = Refresh /\ first[2] = Handle
      /\ last \in Seq(S)
  <2> HIDE DEF L, V, P
  <2> QED
    OBVIOUS
<1>4. legs \in Seq(S)
  <2> HIDE DEF L, V, P
  <2> QED
    OBVIOUS
<1> HIDE DEF first, legs, last, S, L, V, P
<1>5. /\ first \o legs \in Seq(S) /\ Len(first \o legs) >= 2
      /\ (first \o legs)[1] = Refresh /\ (first \o legs)[2] = Handle
  <2>1. first \in Seq(S) /\ Len(first) >= 2 /\ legs \in Seq(S)
    BY <1>3, <1>4
  <2>2. /\ first \o legs \in Seq(S) /\ Len(first \o legs) >= 2
        /\ (first \o legs)[1] = first[1] /\ (first \o legs)[2] = first[2]
    BY <2>1, Joining
  <2> QED
    BY <1>3, <2>2
<1>6. /\ first \o legs \o last \in Seq(S) /\ Len(first \o legs \o last) >= 2
      /\ (first \o legs \o last)[1] = Refresh /\ (first \o legs \o last)[2] = Handle
  BY <1>3, <1>5, Joining
<1> DEFINE commands == first \o legs \o last
<1>7. commands \in Seq(S) /\ Len(commands) >= 2 /\ commands[1] = Refresh /\ commands[2] = Handle
  BY <1>6
<1> HIDE DEF commands
<1>8. /\ {1, 2} \subseteq DOMAIN commands /\ commands[1] = Refresh /\ commands[2] = Handle
      /\ \A k \in DOMAIN commands : IsOfAPlacement(commands[k])
  BY <1>1, <1>7, TwoFirst
<1>9. AreCommands(commands)
  BY <1>7, <1>8, SequenceOfItsOwn DEF AreCommands, IsOfAPlacement
<1> QED
  BY <1>2, <1>8, <1>9 DEF commands

LEMMA PlaceLegsAre ==
    ASSUME NEW request
    PROVE  LET commands == PlaceLegs(request)
           IN /\ {1, 2} \subseteq DOMAIN commands
              /\ commands[1] = Refresh /\ commands[2] = Handle
              /\ AreCommands(commands)
              /\ \A k \in DOMAIN commands : IsOfAPlacement(commands[k])
<1> DEFINE legs == BracketLegs(
            (IF request.takeProfitPrice = Undefined THEN <<>>
             ELSE [takeProfit |-> request.takeProfitPrice])
            @@ (IF request.stopLossPrice = Undefined THEN <<>>
                ELSE [stopLoss |-> request.stopLossPrice]), request.isLong)
           O(k) == Order(Leg(legs[k], request.size, request.linkedPositionId))
           V == Vector(<<>>)
           P(k) == Place(request, 3 * k, 3 * k + 1)
           One(k) == <<O(k), V, P(k)>>
           S == {Refresh, Handle, O(1), O(2), V, P(1), P(2)}
           first == <<Refresh, Handle>>
           second == IF Len(legs) = 2 THEN One(2) ELSE <<>>
<1>1. \A c \in S : IsOfAPlacement(c)
  BY CommandsOfAPlacement
<1>2. PlaceLegs(request) = first \o One(1) \o second
  BY DEF PlaceLegs
<1>3. /\ first \in Seq(S) /\ Len(first) = 2 /\ first[1] = Refresh /\ first[2] = Handle
      /\ One(1) \in Seq(S) /\ second \in Seq(S)
  <2> HIDE DEF O, V, P, legs
  <2>1. One(1) \in Seq(S) /\ One(2) \in Seq(S) /\ <<>> \in Seq(S)
    OBVIOUS
  <2> QED
    BY <2>1
<1> HIDE DEF first, One, second, S, O, V, P, legs
<1>5. /\ first \o One(1) \in Seq(S) /\ Len(first \o One(1)) >= 2
      /\ (first \o One(1))[1] = Refresh /\ (first \o One(1))[2] = Handle
  <2>1. first \in Seq(S) /\ Len(first) >= 2 /\ One(1) \in Seq(S)
    BY <1>3
  <2>2. /\ first \o One(1) \in Seq(S) /\ Len(first \o One(1)) >= 2
        /\ (first \o One(1))[1] = first[1] /\ (first \o One(1))[2] = first[2]
    BY <2>1, Joining
  <2> QED
    BY <1>3, <2>2
<1>6. /\ first \o One(1) \o second \in Seq(S) /\ Len(first \o One(1) \o second) >= 2
      /\ (first \o One(1) \o second)[1] = Refresh /\ (first \o One(1) \o second)[2] = Handle
  BY <1>3, <1>5, Joining
<1> DEFINE commands == first \o One(1) \o second
<1>7. commands \in Seq(S) /\ Len(commands) >= 2 /\ commands[1] = Refresh /\ commands[2] = Handle
  BY <1>6
<1> HIDE DEF commands
<1>8. /\ {1, 2} \subseteq DOMAIN commands /\ commands[1] = Refresh /\ commands[2] = Handle
      /\ \A k \in DOMAIN commands : IsOfAPlacement(commands[k])
  BY <1>1, <1>7, TwoFirst
<1>9. AreCommands(commands)
  BY <1>7, <1>8, SequenceOfItsOwn DEF AreCommands, IsOfAPlacement
<1> QED
  BY <1>2, <1>8, <1>9 DEF commands

LEMMA BracketLegsAreASequence ==
    ASSUME NEW a, NEW isLong
    PROVE  Len(BracketLegs(a, isLong)) \in Nat
<1> DEFINE L(price, isStop) == [triggerPrice |-> price, isStopOrder |-> isStop,
                                isLong |-> ~isLong]
           x == L(a.takeProfit, FALSE)
           y == L(a.stopLoss, TRUE)
           S == {x, y}
           profit == IF Given(a, "takeProfit") THEN <<x>> ELSE <<>>
           stop == IF Given(a, "stopLoss") THEN <<y>> ELSE <<>>
<1>1. profit \in Seq(S) /\ stop \in Seq(S)
  <2> HIDE DEF x, y
  <2>1. <<x>> \in Seq(S) /\ <<y>> \in Seq(S) /\ <<>> \in Seq(S)
    OBVIOUS
  <2> QED
    BY <2>1
<1>2. BracketLegs(a, isLong) = profit \o stop
  BY DEF BracketLegs
<1> HIDE DEF profit, stop, S
<1> QED
  BY <1>1, <1>2

(* What is composed for an order or a bracket.                            *)
LEMMA PlacementIs ==
    ASSUME NEW a, a.op \in {"open", "limit", "placeTpSl"}
    PROVE  LET commands == Composed(Plan(a).request).commands
           IN /\ {1, 2} \subseteq DOMAIN commands
              /\ commands[1] = Refresh /\ commands[2] = Handle
              /\ AreCommands(commands)
              /\ \A k \in DOMAIN commands : IsOfAPlacement(commands[k])
<1> DEFINE request == Plan(a).request
<1>0. Composed(request).commands = Commands(request)
  BY DEF Composed
<1>1. CASE a.op \in {"open", "limit"}
  <2>1. /\ request.kind \in {"marketOrder", "limitOrder"}
        /\ request.preOrders = BracketLegs(a, a.isLong)
    BY <1>1 DEF Plan, PlanOpenPosition, PlanPlaceLimitOrder
  <2>2. \E main : Commands(request) = PlaceOrder(request, main)
    BY <2>1 DEF Commands
  <2> QED
    BY <1>0, <2>1, <2>2, BracketLegsAreASequence, PlaceOrderIs
<1>2. CASE a.op = "placeTpSl"
  <2>1. request.kind = "placeTpSl"
    BY <1>2 DEF Plan, PlanPlaceTpSl
  <2>2. Commands(request) = PlaceLegs(request)
    BY <2>1 DEF Commands
  <2> QED
    BY <1>0, <2>2, PlaceLegsAre
<1> QED
  BY <1>1, <1>2

(* What is read of two layers.                                            *)
LEMMA Layers ==
    ASSUME NEW f, NEW g
    PROVE  /\ DOMAIN (f @@ g) = DOMAIN f \cup DOMAIN g
           /\ \A x \in DOMAIN f : (f @@ g)[x] = f[x]
           /\ \A x \in DOMAIN g : x \notin DOMAIN f => (f @@ g)[x] = g[x]
<1>1. DOMAIN (f @@ g) = DOMAIN f \cup DOMAIN g
  BY OverDomain
<1>2. \A x \in DOMAIN f : (f @@ g)[x] = f[x]
  BY OverLeft
<1>3. ASSUME NEW x \in DOMAIN g, x \notin DOMAIN f
      PROVE  (f @@ g)[x] = g[x]
  BY <1>3, Under
<1> QED
  BY <1>1, <1>2, <1>3

(* The arguments of a cancellation, and what each is held to.             *)
LEMMA TradingIsBound ==
    /\ DOMAIN TradingRequest = {"globalConfig", "wxaRegistry", "marketRegistry",
                                "senderRequest", "ticker", "accountId"}
    /\ TradingRequest["globalConfig"] = Obj("perp.global_config")
    /\ TradingRequest["wxaRegistry"] = Obj("account.registry")
    /\ TradingRequest["marketRegistry"] = Obj("perp.market_registry_wlp")
    /\ TradingRequest["senderRequest"] = SenderRequest
    /\ TradingRequest["ticker"] = Field("ticker")
    /\ TradingRequest["accountId"] = Field("accountId")
<1>1. DOMAIN Same({"ticker", "accountId"}) = {"ticker", "accountId"}
      /\ \A name \in {"ticker", "accountId"} : Same({"ticker", "accountId"})[name] = Field(name)
  BY DEF Same
<1> DEFINE own == [globalConfig   |-> Obj("perp.global_config"),
                   wxaRegistry    |-> Obj("account.registry"),
                   marketRegistry |-> Obj("perp.market_registry_wlp"),
                   senderRequest  |-> SenderRequest]
           named == Same({"ticker", "accountId"})
<1>2. TradingRequest = own @@ named
  BY DEF TradingRequest
<1>3. /\ DOMAIN own = {"globalConfig", "wxaRegistry", "marketRegistry", "senderRequest"}
      /\ own["globalConfig"] = Obj("perp.global_config")
      /\ own["wxaRegistry"] = Obj("account.registry")
      /\ own["marketRegistry"] = Obj("perp.market_registry_wlp")
      /\ own["senderRequest"] = SenderRequest
  OBVIOUS
<1> HIDE DEF own
<1>4. /\ DOMAIN (own @@ named) = DOMAIN own \cup DOMAIN named
      /\ \A x \in DOMAIN own : (own @@ named)[x] = own[x]
      /\ \A x \in DOMAIN named : x \notin DOMAIN own => (own @@ named)[x] = named[x]
  BY Layers
<1> QED
  BY <1>1, <1>2, <1>3, <1>4

LEMMA CancelIsBound ==
    LET B == Bindings["trading::cancel_order_request"]
    IN /\ DOMAIN B = {"triggerPrice", "orderTypeTag", "orderId"} \cup DOMAIN TradingRequest
       /\ B["triggerPrice"] = Free /\ B["orderTypeTag"] = Free
       /\ B["orderId"] = Field("orderId")
       /\ \A p \in DOMAIN TradingRequest : B[p] = TradingRequest[p]
<1> DEFINE free == [triggerPrice |-> Free, orderTypeTag |-> Free]
           own == free @@ Same({"orderId"})
<1>1. Bindings["trading::cancel_order_request"] = own @@ TradingRequest
  BY DEF Bindings, Sensitive, Perp, OrderArgument
<1>2. DOMAIN Same({"orderId"}) = {"orderId"} /\ Same({"orderId"})["orderId"] = Field("orderId")
  BY DEF Same
<1>3. /\ DOMAIN own = {"triggerPrice", "orderTypeTag", "orderId"}
      /\ own["triggerPrice"] = Free /\ own["orderTypeTag"] = Free
      /\ own["orderId"] = Field("orderId")
  <2> DEFINE one == Same({"orderId"})
  <2>1. DOMAIN free = {"triggerPrice", "orderTypeTag"}
        /\ free["triggerPrice"] = Free /\ free["orderTypeTag"] = Free
    OBVIOUS
  <2> HIDE DEF free, one
  <2>2. /\ DOMAIN (free @@ one) = DOMAIN free \cup DOMAIN one
        /\ \A x \in DOMAIN free : (free @@ one)[x] = free[x]
        /\ \A x \in DOMAIN one : x \notin DOMAIN free => (free @@ one)[x] = one[x]
    BY Layers
  <2> QED
    BY <1>2, <2>1, <2>2 DEF one
<1> HIDE DEF own
<1>4. \A p \in DOMAIN TradingRequest : p \notin DOMAIN own
  BY <1>3, TradingIsBound
<1>5. /\ DOMAIN (own @@ TradingRequest) = DOMAIN own \cup DOMAIN TradingRequest
      /\ \A x \in DOMAIN own : (own @@ TradingRequest)[x] = own[x]
      /\ \A x \in DOMAIN TradingRequest :
            x \notin DOMAIN own => (own @@ TradingRequest)[x] = TradingRequest[x]
  BY Layers
<1> QED
  BY <1>1, <1>3, <1>4, <1>5

LEMMA PlacingIsBound ==
    LET B == Bindings["trading::place_order_request"]
    IN \A p \in DOMAIN TradingRequest : p \in DOMAIN B /\ B[p] = TradingRequest[p]
<1> DEFINE own == [main |-> ProducedBy(OrderArgument), preOrder |-> VectorOf(OrderArgument)]
<1>1. Bindings["trading::place_order_request"] = own @@ TradingRequest
  BY DEF Bindings, Sensitive, Perp, OrderArgument
<1>2. DOMAIN own = {"main", "preOrder"}
  OBVIOUS
<1> HIDE DEF own
<1> QED
  BY <1>1, <1>2, TradingIsBound, OverDomain, Under

(* What the backend composes to cancel an order.                          *)
LEMMA CancelIs ==
    ASSUME NEW a, a.op = "cancel"
    PROVE  LET t  == Composed(Plan(a).request)
               op == t.commands[3]
           IN /\ t.sender = context.signer /\ t.payer = Sponsor /\ t.withdrawals = <<>>
              /\ t.commands = <<Refresh, Handle, op>>
              /\ op.kind = "MoveCall" /\ op.fn = "trading::cancel_order_request"
              /\ op.pkg = Package("waterx_perp") /\ op.types = <<USD, WLP>>
              /\ DOMAIN op.args = DOMAIN Bindings["trading::cancel_order_request"]
              /\ op.args["triggerPrice"].is = "pure" /\ op.args["orderTypeTag"].is = "pure"
              /\ op.args["orderId"] = Pure(a.orderId) /\ op.args["ticker"] = Pure(a.ticker)
              /\ op.args["accountId"] = Pure(AccountId)
              /\ op.args["globalConfig"] = Shared("perp.global_config")
              /\ op.args["wxaRegistry"] = Shared("account.registry")
              /\ op.args["marketRegistry"] = Shared("perp.market_registry_wlp")
              /\ op.args["senderRequest"] = Result(2)
<1> DEFINE fn == "trading::cancel_order_request"
           B == Bindings["trading::cancel_order_request"]
           request == Plan(a).request
           named == [ticker |-> Pure(request.ticker), accountId |-> Pure(request.accountId)]
           own == [triggerPrice |-> Pure(Spot), orderTypeTag |-> Pure(0)]
           said == own @@ PurePart(request, {"orderId"})
           args == named @@ said
           standing == Standing(fn, 2)
           op == Operation(fn, <<USD, WLP>>, 2, args)
<1>1. /\ request.kind = "cancelOrder" /\ request.ticker = a.ticker
      /\ request.accountId = AccountId /\ request.orderId = a.orderId
  BY DEF Plan, PlanCancelOrder
<1>2. Commands(request) = Trade(fn, request, said)
  BY <1>1 DEF Commands
<1>3. Trade(fn, request, said) = <<Refresh, Handle, op>>
  BY DEF Trade
<1>4. op = Call(fn, <<USD, WLP>>, args @@ standing)
  BY DEF Operation
<1>5. /\ op.kind = "MoveCall" /\ op.fn = fn /\ op.types = <<USD, WLP>>
      /\ op.args = args @@ standing /\ op.pkg = Package(AbiPackage(fn))
  <2> HIDE DEF args, standing, op, fn
  <2> QED
    BY <1>4 DEF Call
<1>6. AbiPackage(fn) = "waterx_perp"
  BY DEF AbiPackage, Perp, Account, Queue
<1>7. /\ DOMAIN args = {"ticker", "accountId", "triggerPrice", "orderTypeTag", "orderId"}
      /\ args["ticker"] = Pure(a.ticker) /\ args["accountId"] = Pure(AccountId)
      /\ args["triggerPrice"] = Pure(Spot) /\ args["orderTypeTag"] = Pure(0)
      /\ args["orderId"] = Pure(a.orderId)
  <2>1. /\ DOMAIN PurePart(request, {"orderId"}) = {"orderId"}
        /\ PurePart(request, {"orderId"})["orderId"] = Pure(request["orderId"])
    BY DEF PurePart
  <2>2. request["orderId"] = a.orderId
    BY DEF Plan, PlanCancelOrder
  <2>3. /\ DOMAIN said = {"triggerPrice", "orderTypeTag", "orderId"}
        /\ said["triggerPrice"] = Pure(Spot) /\ said["orderTypeTag"] = Pure(0)
        /\ said["orderId"] = Pure(a.orderId)
    <3> DEFINE free == [triggerPrice |-> Pure(Spot), orderTypeTag |-> Pure(0)]
               part == PurePart(request, {"orderId"})
    <3>1. DOMAIN free = {"triggerPrice", "orderTypeTag"}
          /\ free["triggerPrice"] = Pure(Spot) /\ free["orderTypeTag"] = Pure(0)
      OBVIOUS
    <3>2. said = free @@ part
      OBVIOUS
    <3>3. DOMAIN part = {"orderId"} /\ part["orderId"] = Pure(a.orderId)
      BY <2>1, <2>2
    <3> HIDE DEF free, part, said, request
    <3>4. /\ DOMAIN (free @@ part) = DOMAIN free \cup DOMAIN part
          /\ \A x \in DOMAIN free : (free @@ part)[x] = free[x]
          /\ \A x \in DOMAIN part : x \notin DOMAIN free => (free @@ part)[x] = part[x]
      BY Layers
    <3> QED
      BY <3>1, <3>2, <3>3, <3>4
  <2>4. /\ DOMAIN named = {"ticker", "accountId"} /\ named["ticker"] = Pure(a.ticker)
        /\ named["accountId"] = Pure(AccountId)
    BY <1>1
  <2> HIDE DEF said, named
  <2>5. /\ DOMAIN (named @@ said) = DOMAIN named \cup DOMAIN said
        /\ \A x \in DOMAIN named : (named @@ said)[x] = named[x]
        /\ \A x \in DOMAIN said : x \notin DOMAIN named => (named @@ said)[x] = said[x]
    BY Layers
  <2> QED
    BY <2>3, <2>4, <2>5
<1>8. \A role, f : Obj(role).by = "object" /\ Obj(role).of = role
                   /\ Free.by # "object" /\ Field(f).by # "object"
                   /\ SenderRequest.by = "produced" /\ Free.by = "free" /\ Field(f).by = "field"
  BY DEF Obj, Free, Field, SenderRequest, ProducedBy
<1>9. /\ DOMAIN standing = {"globalConfig", "wxaRegistry", "marketRegistry", "senderRequest"}
      /\ standing["globalConfig"] = Shared("perp.global_config")
      /\ standing["wxaRegistry"] = Shared("account.registry")
      /\ standing["marketRegistry"] = Shared("perp.market_registry_wlp")
      /\ standing["senderRequest"] = Result(2)
  <2> DEFINE objects == {q \in DOMAIN B : B[q].by = "object"}
             handles == {q \in DOMAIN B : B[q] = SenderRequest}
             O == [p \in objects |-> Shared(B[p].of)]
             H == [p \in handles |-> Result(2)]
  <2>1. standing = O @@ H
    BY DEF Standing
  <2>2. objects = {"globalConfig", "wxaRegistry", "marketRegistry"}
    BY <1>8, CancelIsBound, TradingIsBound
  <2>3. handles = {"senderRequest"}
    BY <1>8, CancelIsBound, TradingIsBound
  <2>4. /\ DOMAIN O = {"globalConfig", "wxaRegistry", "marketRegistry"}
        /\ O["globalConfig"] = Shared("perp.global_config")
        /\ O["wxaRegistry"] = Shared("account.registry")
        /\ O["marketRegistry"] = Shared("perp.market_registry_wlp")
    BY <1>8, <2>2, CancelIsBound, TradingIsBound
  <2>5. DOMAIN H = {"senderRequest"} /\ H["senderRequest"] = Result(2)
    BY <2>3
  <2> HIDE DEF O, H, standing
  <2>6. /\ DOMAIN (O @@ H) = DOMAIN O \cup DOMAIN H
        /\ \A x \in DOMAIN O : (O @@ H)[x] = O[x]
        /\ \A x \in DOMAIN H : x \notin DOMAIN O => (O @@ H)[x] = H[x]
    BY Layers
  <2> QED
    BY <2>1, <2>4, <2>5, <2>6
<1>10. /\ DOMAIN op.args = DOMAIN B
       /\ op.args["triggerPrice"] = Pure(Spot) /\ op.args["orderTypeTag"] = Pure(0)
       /\ op.args["orderId"] = Pure(a.orderId) /\ op.args["ticker"] = Pure(a.ticker)
       /\ op.args["accountId"] = Pure(AccountId)
       /\ op.args["globalConfig"] = Shared("perp.global_config")
       /\ op.args["wxaRegistry"] = Shared("account.registry")
       /\ op.args["marketRegistry"] = Shared("perp.market_registry_wlp")
       /\ op.args["senderRequest"] = Result(2)
  <2> HIDE DEF args, standing, op
  <2>1. /\ DOMAIN (args @@ standing) = DOMAIN args \cup DOMAIN standing
        /\ \A x \in DOMAIN args : (args @@ standing)[x] = args[x]
        /\ \A x \in DOMAIN standing :
              x \notin DOMAIN args => (args @@ standing)[x] = standing[x]
    BY Layers
  <2>2. DOMAIN B = {"triggerPrice", "orderTypeTag", "orderId"} \cup DOMAIN TradingRequest
    BY CancelIsBound
  <2> HIDE DEF B
  <2>3. DOMAIN op.args = DOMAIN B
    BY <1>5, <1>7, <1>9, <2>1, <2>2, TradingIsBound
  <2> QED
    BY <1>5, <1>7, <1>9, <2>1, <2>3
<1>11. /\ Composed(request).sender = context.signer /\ Composed(request).payer = Sponsor
       /\ Composed(request).withdrawals = <<>>
       /\ Composed(request).commands = <<Refresh, Handle, op>>
  <2> HIDE DEF op
  <2> QED
    BY <1>1, <1>2, <1>3 DEF Composed
<1>12. Composed(request).commands[3] = op
  <2> HIDE DEF op
  <2> QED
    BY <1>11
<1>13. \A v : Pure(v).is = "pure"
  BY DEF Pure
<1> HIDE DEF op, request
<1> QED
  BY <1>5, <1>6, <1>10, <1>11, <1>12, <1>13 DEF request

(* WHAT IT TAKES.  A signed placement says of the deployment everything    *)
(* the verifier asks of the cancellation.                                  *)
CancelIsDescribed(known) ==
    /\ {"waterx_perp", "usd_credit", "wlp"} \subseteq known.deployment.packages
    /\ {"perp.global_config", "account.registry", "perp.market_registry_wlp"}
           \subseteq known.deployment.objects
    /\ Package("bucket_framework") \in
           (IF AbiPackage("account::request") \in known.deployment.packages
            THEN {Package(AbiPackage("account::request"))} ELSE Callable(known.deployment))
    /\ CallIsKnown(Refresh, known) /\ CallIsKnown(Handle, known)
    /\ "trading::cancel_order_request" \notin known.uncaptured \ known.allowUnconfirmed

(* The first two commands of every trade.                                 *)
LEMMA PreludeIs ==
    /\ Refresh.kind = "MoveCall" /\ Handle.kind = "MoveCall"
    /\ Refresh.fn = "oracle::refresh" /\ Handle.fn = "account::request"
    /\ Refresh.types = <<>> /\ Handle.types = <<>>
    /\ Refresh.args = <<>> /\ Handle.args = <<>>
    /\ Handle.pkg = Package("bucket_framework")
<1>1. AbiPackage("account::request") = "bucket_framework"
  BY DEF AbiPackage, Perp, Account, Queue
<1> QED
  BY <1>1 DEF Refresh, Handle, Call

LEMMA PlacementTells ==
    ASSUME NEW t, NEW intent, NEW signer, NEW known, Matches(t, intent, signer, known),
           intent.action \in {"placeLimitOrder", "placeTpSl"},
           {1, 2} \subseteq DOMAIN t.commands,
           t.commands[1] = Refresh, t.commands[2] = Handle,
           \A k \in DOMAIN t.commands : IsOfAPlacement(t.commands[k])
    PROVE  CancelIsDescribed(known)
<1> DEFINE place == "trading::place_order_request"
           cancel == "trading::cancel_order_request"
           D == known.deployment
<1>1. ActionRules[intent.action].entrypoint = place /\ intent.action \notin Gate!OwnerOnlyActions
  BY DEF ActionRules, Actions, Rule, Gate!OwnerOnlyActions
<1>2. PICK i \in CallsOf(t, {place}) :
          /\ t.commands[i].fn = place
          /\ CodeIsTheDeployments(t.commands[i], intent, D)
          /\ ArgumentsAreBound(t, t.commands[i], intent, D, <<>>)
  <2>1. CallsOf(t, {place}) # {}
    BY <1>1 DEF Matches
  <2> QED
    BY <1>1, <2>1, CallIsTheActions
<1> DEFINE call == t.commands[i]
<1>3. {"waterx_perp", "usd_credit", "wlp"} \subseteq D.packages
  <2>0. AbiPackage(place) = "waterx_perp"
    BY DEF AbiPackage, Perp, Account, Queue
  <2>1. TypeRoles(place) = <<Usd, Wlp>>
    BY DEF TypeRoles, Perp, OrderArgument
  <2>2. /\ "waterx_perp" \in D.packages
        /\ \A k \in {1, 2} : IsDeploymentType(call.types[k], <<Usd, Wlp>>[k], D)
    BY <1>2, <2>0, <2>1 DEF CodeIsTheDeployments
  <2>3. call.types[1].pkg \in IdsFor(D, "usd_credit") /\ call.types[2].pkg \in IdsFor(D, "wlp")
    BY <2>2 DEF IsDeploymentType, Usd, Wlp
  <2>4. IdsFor(D, "usd_credit") # {} /\ IdsFor(D, "wlp") # {}
    BY <2>3
  <2>5. "usd_credit" \in D.packages /\ "wlp" \in D.packages
    BY <2>4 DEF IdsFor
  <2> QED
    BY <2>2, <2>5
<1>4. \A p \in DOMAIN TradingRequest :
          ArgumentIsBound(t, call, p, TradingRequest[p], intent, D)
  <2> SUFFICES ASSUME NEW p \in DOMAIN TradingRequest
               PROVE  ArgumentIsBound(t, call, p, TradingRequest[p], intent, D)
    OBVIOUS
  <2>1. p \in DOMAIN Bindings[place] /\ Bindings[place][p] = TradingRequest[p]
    BY PlacingIsBound
  <2>2. DOMAIN <<>> = {}
    OBVIOUS
  <2>3. p \notin DOMAIN <<>>
    BY <2>2
  <2>4. (<<>> @@ Bindings[place])[p] = Bindings[place][p]
    BY <2>1, <2>3, Under
  <2>5. p \in DOMAIN call.args
    BY <1>2, <2>1 DEF ArgumentsAreBound
  <2>6. ArgumentIsBound(t, call, p, (<<>> @@ Bindings[call.fn])[p], intent, D)
    BY <1>2, <2>5 DEF ArgumentsAreBound
  <2> QED
    BY <1>2, <2>1, <2>4, <2>6
<1>5. {"perp.global_config", "account.registry", "perp.market_registry_wlp"} \subseteq D.objects
  <2>1. ASSUME NEW role, NEW p \in DOMAIN TradingRequest, TradingRequest[p] = Obj(role)
        PROVE  role \in D.objects
    <3>1. Obj(role).by = "object" /\ Obj(role).of = role
      BY DEF Obj
    <3>2. IsObject(call.args[p], role, D)
      BY <1>4, <2>1, <3>1 DEF ArgumentIsBound
    <3> QED
      BY <3>2 DEF IsObject
  <2> QED
    BY <2>1, TradingIsBound
<1>6. Package("bucket_framework") \in
         (IF AbiPackage("account::request") \in D.packages
          THEN {Package(AbiPackage("account::request"))} ELSE Callable(D))
  <2>1. SenderRequest.by = "produced" /\ SenderRequest.of = "account::request"
    BY DEF SenderRequest, ProducedBy
  <2>2. IsProducedBy(t, call.args["senderRequest"], "account::request", D)
    BY <1>4, <2>1, TradingIsBound DEF ArgumentIsBound
  <2> DEFINE j == call.args["senderRequest"].of
  <2>3. j \in CallsOf(t, {"account::request"})
        /\ t.commands[j].pkg \in
             (IF AbiPackage("account::request") \in D.packages
              THEN {Package(AbiPackage("account::request"))} ELSE Callable(D))
    BY <2>2 DEF IsProducedBy
  <2>4. j \in DOMAIN t.commands /\ t.commands[j].kind = "MoveCall"
        /\ t.commands[j].fn = "account::request"
    BY <2>3 DEF CallsOf, Calls
  <2>5. t.commands[j].pkg = Package("bucket_framework")
    BY <2>4 DEF IsOfAPlacement
  <2> QED
    BY <2>3, <2>5
<1>7. CallIsKnown(Refresh, known) /\ CallIsKnown(Handle, known)
  <2>1. 1 \in Calls(t) /\ 2 \in Calls(t)
    BY PreludeIs DEF Calls
  <2> QED
    BY <2>1 DEF Matches, ShapeIsAllowed
<1>8. cancel \notin known.uncaptured \ known.allowUnconfirmed
  <2>1. intent.action \in DOMAIN NeedsAWayBack /\ NeedsAWayBack[intent.action] = cancel
    BY DEF NeedsAWayBack
  <2> QED
    BY <2>1 DEF Matches, LayoutConfirmed
<1> QED
  BY <1>3, <1>5, <1>6, <1>7, <1>8 DEF CancelIsDescribed

(* An exception is for a call outside the deployment: none is of the       *)
(* package that trades.                                                    *)
ExceptionsAreForeign ==
    \A c \in Contexts : \A k \in DOMAIN c.exceptions :
        c.exceptions[k].pkg # Package("waterx_perp")

(* What the plan of a cancellation authorizes.                            *)
LEMMA CancelSays ==
    ASSUME NEW a, a.op = "cancel"
    PROVE  LET intent == Plan(a).intent
           IN /\ intent.action = "cancelOrder" /\ intent["accountId"] = AccountId
              /\ intent["ticker"] = a.ticker /\ intent["orderId"] = a.orderId
              /\ intent.movesFundsIn = Undefined
<1> DEFINE stated == [ticker |-> a.ticker, orderId |-> a.orderId]
<1>1. Plan(a).intent = Intent("cancelOrder", FALSE, stated)
  BY DEF Plan, PlanCancelOrder
<1>2. DOMAIN stated = {"ticker", "orderId"} /\ stated["ticker"] = a.ticker
      /\ stated["orderId"] = a.orderId
  OBVIOUS
<1> HIDE DEF stated
<1> QED
  BY <1>1, <1>2 DEF Intent, Fields

(* The operation of a cancellation is the deployment's,                   *)
LEMMA CancelIsTheDeployments ==
    ASSUME NEW call, NEW intent, NEW known, CancelIsDescribed(known),
           call.fn = "trading::cancel_order_request",
           call.pkg = Package("waterx_perp"), call.types = <<USD, WLP>>
    PROVE  CodeIsTheDeployments(call, intent, known.deployment)
<1> DEFINE fn == "trading::cancel_order_request"
           D == known.deployment
<1>1. AbiPackage(fn) = "waterx_perp"
  BY DEF AbiPackage, Perp, Account, Queue
<1>2. TypeRoles(fn) = <<Usd, Wlp>> /\ TypeBindings(fn) = <<>>
  BY DEF TypeRoles, TypeBindings, Perp, OrderArgument
<1>3. /\ {"waterx_perp", "usd_credit", "wlp"} \subseteq D.packages
  BY DEF CancelIsDescribed
<1>4. IsDeploymentType(USD, Usd, D) /\ IsDeploymentType(WLP, Wlp, D)
  BY <1>3 DEF IsDeploymentType, USD, WLP, Usd, Wlp, Type, IdsFor, Package
<1>5. PackagesIn(USD) \subseteq Typeable(D) /\ PackagesIn(WLP) \subseteq Typeable(D)
  BY <1>3 DEF PackagesIn, USD, WLP, Type, Typeable, Callable
<1>6. DOMAIN call.types = {1, 2} /\ call.types[1] = USD /\ call.types[2] = WLP
  OBVIOUS
<1>7. \A k \in DOMAIN <<Usd, Wlp>> :
          k \in DOMAIN call.types /\ IsDeploymentType(call.types[k], <<Usd, Wlp>>[k], D)
  BY <1>4, <1>6
<1>8. \A k \in DOMAIN call.types : PackagesIn(call.types[k]) \subseteq Typeable(D)
  BY <1>5, <1>6
<1>9. DOMAIN TypeBindings(fn) = {}
  BY <1>2
<1> QED
  BY <1>1, <1>2, <1>3, <1>7, <1>8, <1>9 DEF CodeIsTheDeployments

(* every argument of it is the one its plan authorizes,                   *)
LEMMA CancelArgumentsAreBound ==
    ASSUME NEW a \in Asks, a.op = "cancel", NEW known, CancelIsDescribed(known)
    PROVE  LET t == Composed(Plan(a).request)
           IN ArgumentsAreBound(t, t.commands[3], Plan(a).intent, known.deployment, <<>>)
<1> DEFINE fn == "trading::cancel_order_request"
           t == Composed(Plan(a).request)
           op == t.commands[3]
           intent == Plan(a).intent
           D == known.deployment
           B == Bindings[fn]
<1>1. /\ op.fn = fn /\ DOMAIN op.args = DOMAIN B
      /\ t.commands = <<Refresh, Handle, op>>
      /\ op.args["orderId"] = Pure(a.orderId) /\ op.args["ticker"] = Pure(a.ticker)
      /\ op.args["accountId"] = Pure(AccountId)
      /\ op.args["globalConfig"] = Shared("perp.global_config")
      /\ op.args["wxaRegistry"] = Shared("account.registry")
      /\ op.args["marketRegistry"] = Shared("perp.market_registry_wlp")
      /\ op.args["senderRequest"] = Result(2)
  BY CancelIs
<1>2. /\ a.ticker \notin {Undefined, Unreadable} /\ a.orderId \notin {Undefined, Unreadable}
      /\ AccountId \notin {Undefined, Unreadable}
  <2>1. {"ticker", "orderId"} \subseteq DOMAIN a
    BY AskAssumption DEF IsAsk, Needs
  <2>2. \A field \in {"ticker", "orderId"} : a[field] \notin {Undefined, Unreadable}
    BY <2>1, NameAssumption
  <2> QED
    BY <2>2, NameAssumption
<1>3. /\ intent["accountId"] = AccountId /\ intent["ticker"] = a.ticker
      /\ intent["orderId"] = a.orderId
  BY CancelSays
<1>4. t.commands[2] = Handle /\ 2 \in CallsOf(t, {"account::request"})
  <2>1. DOMAIN t.commands = {1, 2, 3} /\ t.commands[2] = Handle
    <3> HIDE DEF op, t
    <3> QED
      BY <1>1
  <2> QED
    BY <2>1, PreludeIs DEF CallsOf, Calls
<1> HIDE DEF t, op, intent, D, B
<1>5. \A p \in DOMAIN B : (<<>> @@ B)[p] = B[p]
  <2>1. DOMAIN <<>> = {}
    OBVIOUS
  <2> QED
    BY <2>1, Under
<1>6. ASSUME NEW p, NEW v, v \notin {Undefined, Unreadable}, p \in {"ticker", "accountId", "orderId"},
             op.args[p] = Pure(v), intent[p] = v
      PROVE  ArgumentIsBound(t, op, p, Field(p), intent, D)
  <2>1. Field(p).by = "field" /\ Field(p).of = p
    BY DEF Field
  <2>2. Read(op.args[p]) = v
    BY <1>6 DEF Read, Pure
  <2>3. Authorized(intent, p) = v
    BY <1>6 DEF Authorized
  <2>4. \A optional : Agrees(intent, p, optional, v)
    BY <1>6, <2>3 DEF Agrees
  <2> QED
    BY <2>1, <2>2, <2>4 DEF ArgumentIsBound
<1>7. ASSUME NEW p, NEW role \in D.objects, op.args[p] = Shared(role)
      PROVE  ArgumentIsBound(t, op, p, Obj(role), intent, D)
  <2>1. Obj(role).by = "object" /\ Obj(role).of = role
    BY DEF Obj
  <2>2. Shared(role).is = "object" /\ Shared(role).role = role
    BY DEF Shared
  <2>3. IsObject(op.args[p], role, D)
    BY <1>7, <2>2 DEF IsObject
  <2> QED
    BY <2>1, <2>3 DEF ArgumentIsBound
<1>8. ASSUME NEW p
      PROVE  ArgumentIsBound(t, op, p, Free, intent, D)
  BY DEF ArgumentIsBound, Free
<1>9. ArgumentIsBound(t, op, "senderRequest", SenderRequest, intent, D)
  <2>1. SenderRequest.by = "produced" /\ SenderRequest.of = "account::request"
    BY DEF SenderRequest, ProducedBy
  <2>2. Result(2).is = "result" /\ Result(2).of = 2 /\ Result(2).slot = 0
    BY DEF Result
  <2>3. IsProducedBy(t, op.args["senderRequest"], "account::request", D)
    BY <1>1, <1>4, <2>2, PreludeIs DEF IsProducedBy, CancelIsDescribed, D
  <2> QED
    BY <2>1, <2>3 DEF ArgumentIsBound
<1>10. /\ "perp.global_config" \in D.objects /\ "account.registry" \in D.objects
       /\ "perp.market_registry_wlp" \in D.objects
  BY DEF CancelIsDescribed, D
<1>11. /\ DOMAIN B = {"triggerPrice", "orderTypeTag", "orderId", "globalConfig", "wxaRegistry",
                      "marketRegistry", "senderRequest", "ticker", "accountId"}
       /\ B["triggerPrice"] = Free /\ B["orderTypeTag"] = Free
       /\ B["orderId"] = Field("orderId")
       /\ B["globalConfig"] = Obj("perp.global_config")
       /\ B["wxaRegistry"] = Obj("account.registry")
       /\ B["marketRegistry"] = Obj("perp.market_registry_wlp")
       /\ B["senderRequest"] = SenderRequest
       /\ B["ticker"] = Field("ticker") /\ B["accountId"] = Field("accountId")
  BY CancelIsBound, TradingIsBound DEF B
<1>12. /\ ArgumentIsBound(t, op, "orderId", Field("orderId"), intent, D)
       /\ ArgumentIsBound(t, op, "ticker", Field("ticker"), intent, D)
       /\ ArgumentIsBound(t, op, "accountId", Field("accountId"), intent, D)
  BY <1>1, <1>2, <1>3, <1>6
<1>13. /\ ArgumentIsBound(t, op, "globalConfig", Obj("perp.global_config"), intent, D)
       /\ ArgumentIsBound(t, op, "wxaRegistry", Obj("account.registry"), intent, D)
       /\ ArgumentIsBound(t, op, "marketRegistry", Obj("perp.market_registry_wlp"), intent, D)
  BY <1>1, <1>7, <1>10
<1>14. \A p \in DOMAIN B : ArgumentIsBound(t, op, p, B[p], intent, D)
  BY <1>8, <1>9, <1>11, <1>12, <1>13
<1>15. \A p \in DOMAIN op.args : ArgumentIsBound(t, op, p, (<<>> @@ B)[p], intent, D)
  BY <1>1, <1>5, <1>14
<1>16. ArgumentsAreBound(t, op, intent, D, <<>>)
  BY <1>1, <1>15 DEF ArgumentsAreBound, B
<1> QED
  BY <1>16 DEF t, op, intent, D

(* and the whole of it is within the deployment.                          *)
LEMMA CancelShapeIsAllowed ==
    ASSUME ExceptionsAreForeign, NEW a, a.op = "cancel",
           NEW known \in Contexts, CancelIsDescribed(known)
    PROVE  ShapeIsAllowed(Composed(Plan(a).request), known)
<1> DEFINE t == Composed(Plan(a).request)
           op == t.commands[3]
           D == known.deployment
<1>1. /\ t.commands = <<Refresh, Handle, op>>
      /\ op.kind = "MoveCall" /\ op.pkg = Package("waterx_perp") /\ op.types = <<USD, WLP>>
  BY CancelIs
<1>2. /\ DOMAIN op.args = {"triggerPrice", "orderTypeTag", "orderId", "globalConfig", "wxaRegistry",
                           "marketRegistry", "senderRequest", "ticker", "accountId"}
      /\ \A p \in {"triggerPrice", "orderTypeTag", "orderId", "ticker", "accountId"} :
            op.args[p].is = "pure"
      /\ op.args["globalConfig"] = Shared("perp.global_config")
      /\ op.args["wxaRegistry"] = Shared("account.registry")
      /\ op.args["marketRegistry"] = Shared("perp.market_registry_wlp")
      /\ op.args["senderRequest"].is = "result"
  <2>1. \A v : Pure(v).is = "pure"
    BY DEF Pure
  <2>2. Result(2).is = "result"
    BY DEF Result
  <2>3. DOMAIN op.args = DOMAIN Bindings["trading::cancel_order_request"]
        /\ op.args["triggerPrice"].is = "pure" /\ op.args["orderTypeTag"].is = "pure"
        /\ op.args["orderId"] = Pure(a.orderId) /\ op.args["ticker"] = Pure(a.ticker)
        /\ op.args["accountId"] = Pure(AccountId)
        /\ op.args["globalConfig"] = Shared("perp.global_config")
        /\ op.args["wxaRegistry"] = Shared("account.registry")
        /\ op.args["marketRegistry"] = Shared("perp.market_registry_wlp")
        /\ op.args["senderRequest"] = Result(2)
    BY CancelIs
  <2>4. DOMAIN op.args = {"triggerPrice", "orderTypeTag", "orderId", "globalConfig",
                          "wxaRegistry", "marketRegistry", "senderRequest", "ticker",
                          "accountId"}
    BY <2>3, CancelIsBound, TradingIsBound
  <2> HIDE DEF op
  <2> QED
    BY <2>1, <2>2, <2>3, <2>4
<1> HIDE DEF t, op
<1>3. /\ DOMAIN t.commands = {1, 2, 3}
      /\ t.commands[1] = Refresh /\ t.commands[2] = Handle /\ t.commands[3] = op
  BY <1>1
<1>4. CallIsKnown(op, known)
  <2>1. op.pkg \in Callable(D)
    BY <1>1 DEF CancelIsDescribed, Callable
  <2>2. ASSUME NEW k \in DOMAIN known.exceptions, Covers(known.exceptions[k], op)
        PROVE  FALSE
    BY <1>1, <2>2 DEF ExceptionsAreForeign, Covers, CancelIsDescribed
  <2> QED
    BY <2>1, <2>2 DEF CallIsKnown
<1>5. \A i \in DOMAIN t.commands : t.commands[i].kind = "MoveCall"
  BY <1>1, <1>3, PreludeIs
<1>6. \A i \in DOMAIN t.commands : CallIsKnown(t.commands[i], known)
  BY <1>3, <1>4 DEF CancelIsDescribed
<1>7. \A i \in DOMAIN t.commands : \A k \in DOMAIN t.commands[i].types :
          PackagesIn(t.commands[i].types[k]) \subseteq Typeable(D)
  <2>1. DOMAIN Refresh.types = {} /\ DOMAIN Handle.types = {}
    BY PreludeIs
  <2>2. DOMAIN op.types = {1, 2} /\ op.types[1] = USD /\ op.types[2] = WLP
    BY <1>1
  <2>3. PackagesIn(USD) \subseteq Typeable(D) /\ PackagesIn(WLP) \subseteq Typeable(D)
    BY DEF CancelIsDescribed, PackagesIn, USD, WLP, Type, Typeable, Callable
  <2> QED
    BY <1>3, <2>1, <2>2, <2>3
<1>8. \A i \in DOMAIN t.commands : \A p \in DOMAIN t.commands[i].args :
          /\ t.commands[i].args[p].is # "owned"
          /\ t.commands[i].args[p].is = "object" => t.commands[i].args[p].role \in D.objects
  <2>1. DOMAIN Refresh.args = {} /\ DOMAIN Handle.args = {}
    BY PreludeIs
  <2>2. \A role : Shared(role).is = "object" /\ Shared(role).role = role
    BY DEF Shared
  <2>3. \A p \in DOMAIN op.args :
            op.args[p].is # "owned" /\ (op.args[p].is = "object" => op.args[p].role \in D.objects)
    BY <1>2, <2>2 DEF CancelIsDescribed
  <2> QED
    BY <1>3, <2>1, <2>3
<1>9. ShapeIsAllowed(t, known)
  BY <1>5, <1>6, <1>7, <1>8 DEF ShapeIsAllowed, AllowedCommands, Calls
<1> QED
  BY <1>9 DEF t

(* Whoever would sign a placement as it is composed would sign the         *)
(* cancellation.                                                          *)
LEMMA PlacementIsRetractable ==
    ASSUME ExceptionsAreForeign, context \in Contexts,
           NEW placed, placed.op \in {"limit", "placeTpSl"},
           Matches(Composed(Plan(placed).request), Plan(placed).intent, context.signer, context),
           NEW a \in Asks, a.op = "cancel"
    PROVE  Matches(Composed(Plan(a).request), Plan(a).intent, context.signer, context)
<1> DEFINE fn == "trading::cancel_order_request"
           t == Composed(Plan(a).request)
           op == t.commands[3]
           intent == Plan(a).intent
           made == Composed(Plan(placed).request)
<1>1. CancelIsDescribed(context)
  <2>1. Plan(placed).intent.action \in {"placeLimitOrder", "placeTpSl"}
    BY DEF Plan, PlanPlaceLimitOrder, PlanPlaceTpSl, Intent, Fields
  <2>2. /\ {1, 2} \subseteq DOMAIN made.commands
        /\ made.commands[1] = Refresh /\ made.commands[2] = Handle
        /\ \A k \in DOMAIN made.commands : IsOfAPlacement(made.commands[k])
    BY PlacementIs
  <2> QED
    BY <2>1, <2>2, PlacementTells
<1>2. /\ t.sender = context.signer /\ t.payer = Sponsor /\ t.withdrawals = <<>>
      /\ t.commands = <<Refresh, Handle, op>>
      /\ op.kind = "MoveCall" /\ op.fn = fn
      /\ op.pkg = Package("waterx_perp") /\ op.types = <<USD, WLP>>
  BY CancelIs
<1>3. intent.action = "cancelOrder" /\ intent.movesFundsIn = Undefined
  BY CancelSays
<1>4. ShapeIsAllowed(t, context)
  BY <1>1, CancelShapeIsAllowed
<1>5. GasIsRight(t, context.signer, context.sponsored)
  <2>1. made.payer = Sponsor
    BY DEF Composed
  <2>2. GasIsRight(made, context.signer, context.sponsored)
    BY DEF Matches
  <2> QED
    BY <1>2, <2>1, <2>2 DEF GasIsRight
<1>6. CodeIsTheDeployments(op, intent, context.deployment)
  BY <1>1, <1>2, CancelIsTheDeployments
<1>7. ArgumentsAreBound(t, op, intent, context.deployment, <<>>)
  BY <1>1, CancelArgumentsAreBound
<1> HIDE DEF t, op, intent
<1>8. /\ DOMAIN t.commands = {1, 2, 3}
      /\ t.commands[1] = Refresh /\ t.commands[2] = Handle /\ t.commands[3] = op
  BY <1>2
<1>9. \A fns : fns \subseteq Sensitive => CallsOf(t, fns) = {i \in {3} : fn \in fns}
  <2>1. "oracle::refresh" \notin Sensitive /\ "account::request" \notin Sensitive
    BY DEF Sensitive, Perp, Account, Queue
  <2> QED
    BY <1>2, <1>8, <2>1, PreludeIs DEF CallsOf, Calls
<1>10. /\ "cancelOrder" \in DOMAIN ActionRules /\ ActionRules["cancelOrder"] = Rule(fn)
       /\ fn \in Sensitive
  BY DEF ActionRules, Actions, Sensitive, Perp, OrderArgument
<1>11. CallsOf(t, {fn}) = {3} /\ CallsOf(t, {}) = {} /\ CallsOf(t, Sensitive) = {3}
  BY <1>9, <1>10
<1>12. Cardinality({3}) = 1
  BY FS_Singleton
<1>13. FundsWithdrawalIsRight(t, intent)
  BY <1>2, <1>3, NameAssumption DEF FundsWithdrawalIsRight
<1>14. LayoutConfirmed(intent, context)
  <2>1. "cancelOrder" \notin DOMAIN NeedsAWayBack
    BY DEF NeedsAWayBack
  <2>2. ActionRules["cancelOrder"].entrypoint = fn
    BY <1>10 DEF Rule
  <2> QED
    BY <1>1, <1>3, <2>1, <2>2 DEF LayoutConfirmed, CancelIsDescribed
<1>15. LET rule == Rule(fn)
       IN /\ rule.entrypoint = fn /\ rule.companions = {} /\ rule.overrides = <<>>
          /\ ~rule.many /\ ~rule.grants
  BY DEF Rule
<1> DEFINE rule == ActionRules[intent.action]
<1>16. rule = Rule(fn)
  BY <1>3, <1>10
<1> HIDE DEF fn, rule
<1>17. /\ CallsOf(t, {rule.entrypoint}) = {3} /\ CallsOf(t, rule.companions) = {}
       /\ \A i \in {3} :
            /\ CodeIsTheDeployments(t.commands[i], intent, context.deployment)
            /\ ArgumentsAreBound(t, t.commands[i], intent, context.deployment, rule.overrides)
  BY <1>6, <1>7, <1>8, <1>11, <1>15, <1>16
<1>18. /\ rule.companions = {} /\ ~rule.grants
       /\ rule.entrypoint # "trading::place_order_request"
  BY <1>15, <1>16 DEF fn
<1>19. Matches(t, intent, context.signer, context)
  BY <1>2, <1>3, <1>4, <1>5, <1>10, <1>11, <1>12, <1>13, <1>14, <1>17, <1>18 DEF Matches, rule
<1> QED
  BY <1>19 DEF t, intent

(* A composition nobody changed is the plan's.                            *)
UnchangedIsComposed ==
    verdict \in {"composed", "refused", "signed"} /\ changes = 0 =>
        tx = Composed(Plan(ask).request)

Intact == Sound /\ changes \in Nat /\ UnchangedIsComposed

LEMMA SameComposed ==
    ASSUME market' = market, ask' = ask, context' = context
    PROVE  Composed(Plan(ask).request)' = Composed(Plan(ask).request)
<1>1. Plan(ask)' = Plan(ask)
  BY SamePlan
<1>2. Spot' = Spot
  BY DEF Spot
<1>3. Commands(Plan(ask).request)' = Commands(Plan(ask).request)
  BY <1>1, <1>2 DEF Commands
<1> QED
  BY <1>1, <1>3 DEF Composed

LEMMA NextIsIntact ==
    ASSUME Intact, [Next]_vars
    PROVE  Intact'
<1>1. Sound'
  BY NextIsSound DEF Intact
<1> USE DEF Intact, UnchangedIsComposed
<1>2. CASE Offer
  BY <1>1, <1>2 DEF Offer
<1>3. CASE Drift
  BY <1>1, <1>3 DEF Drift
<1>4. CASE Start
  BY <1>1, <1>4 DEF Start
<1>5. CASE Authorize
  <2>1. UNCHANGED <<market, ask, context, changes>>
        /\ \/ verdict' = "composed" /\ tx' = Composed(Plan(ask).request)
           \/ verdict' = "denied"
    BY <1>5 DEF Authorize
  <2> QED
    BY <1>1, <2>1, SameComposed
<1>6. CASE Damage
  <2>1. changes' = changes + 1
    BY <1>6 DEF Damage
  <2> QED
    BY <1>1, <2>1
<1>7. CASE Verify
  <2>1. UNCHANGED <<market, ask, context, tx, changes>> /\ verdict = "composed"
    BY <1>7 DEF Verify
  <2> QED
    BY <1>1, <2>1, SameComposed
<1>8. CASE UNCHANGED vars
  BY <1>1, <1>8, SameComposed DEF vars
<1> QED
  BY <1>2, <1>3, <1>4, <1>5, <1>6, <1>7, <1>8 DEF Next

LEMMA IntactIsRetractable ==
    ASSUME ExceptionsAreForeign, Intact
    PROVE  PlacedIsRetractable
<1> SUFFICES ASSUME verdict = "signed", changes = 0, ask.op \in {"limit", "placeTpSl"},
                    NEW a \in Asks, a.op = "cancel"
             PROVE  Matches(Composed(Plan(a).request), Plan(a).intent, context.signer, context)
  BY DEF PlacedIsRetractable
<1>1. context \in Contexts /\ tx = Composed(Plan(ask).request)
  BY DEF Intact, Sound, KnownIsBuilt, UnchangedIsComposed
<1>2. Matches(tx, Plan(ask).intent, context.signer, context)
  BY DEF Intact, Sound, SignedIsVerified, Verified
<1> QED
  BY <1>1, <1>2, PlacementIsRetractable

(* WHAT RESTS CAN BE TAKEN BACK, under every deployment, corpus of         *)
(* captured layouts and list of exceptions (as long as none is of the      *)
(* package that trades), whatever order rests and however many legs        *)
(* protect it: the verifier that signed it as it was composed has nothing  *)
(* to say against its cancellation.                                       *)
THEOREM WhatRestsCanBeTakenBack ==
    ExceptionsAreForeign => (Spec => []PlacedIsRetractable)
<1> SUFFICES ASSUME ExceptionsAreForeign
             PROVE  Spec => []PlacedIsRetractable
  OBVIOUS
<1>1. Init => Intact
  BY InitIsSound DEF Init, Intact, UnchangedIsComposed
<1>2. Intact /\ [Next]_vars => Intact'
  BY NextIsIntact
<1>3. Intact => PlacedIsRetractable
  BY IntactIsRetractable
<1> QED
  BY <1>1, <1>2, <1>3, PTL DEF Spec

-----------------------------------------------------------------------------
(* The queue and the gate.                                                *)

(* A leverage that is turned into a size, rounded to a unit, and back is   *)
(* past a ceiling the asked one keeps only if the size was rounded up, and  *)
(* keeps one the asked one is past only if a whole multiple of the         *)
(* collateral was rounded away.                                            *)
LEMMA RoundedLeverage ==
    ASSUME NEW collateral \in Int, collateral > 0, NEW leverage \in Int, NEW price \in Int,
           price > 0, NEW ceiling \in Int
    PROVE  LET asked  == collateral * leverage
               sized  == Rounded(asked, price) * price
               result == (sized + collateral - 1) \div collateral
           IN /\ sized \in Int /\ asked \in Int
              /\ leverage <= ceiling /\ result > ceiling =>
                    sized > asked /\ 2 * (sized - asked) <= price
              /\ leverage > ceiling /\ result <= ceiling =>
                    asked - sized >= collateral /\ 2 * (asked - sized) <= price
<1> DEFINE asked  == collateral * leverage
           size   == Rounded(asked, price)
           sized  == size * price
           result == (sized + collateral - 1) \div collateral
<1>1. asked \in Int
  OBVIOUS
<1>2. /\ size \in Int
      /\ 2 * sized <= 2 * asked + price
      /\ 2 * asked + price < 2 * sized + 2 * price
  <2> HIDE DEF asked
  <2>1. 2 * asked + price \in Int /\ 2 * price \in Int /\ 2 * price > 0
    BY <1>1
  <2>2. /\ size \in Int /\ (2 * price) * size <= 2 * asked + price
        /\ 2 * asked + price < (2 * price) * size + 2 * price
    BY <2>1, Division DEF Rounded
  <2> HIDE DEF size
  <2>3. (2 * price) * size = 2 * (size * price)
    BY <2>2
  <2> QED
    BY <2>2, <2>3
<1>3. sized \in Int
  BY <1>2
<1> HIDE DEF sized
<1>4. /\ result \in Int /\ collateral * result <= sized + collateral - 1
      /\ sized + collateral - 1 < collateral * result + collateral
  BY <1>3, Division
<1> HIDE DEF result
<1>5. collateral * ceiling \in Int /\ collateral * result \in Int
  BY <1>4
<1>6. ASSUME leverage <= ceiling, result > ceiling
      PROVE  sized > asked /\ 2 * (sized - asked) <= price
  <2>1. collateral * leverage <= collateral * ceiling
    BY <1>6
  <2>2. collateral * (ceiling + 1) <= collateral * result
    BY <1>4, <1>6
  <2>3. collateral * (ceiling + 1) = collateral * ceiling + collateral
    OBVIOUS
  <2>4. asked <= collateral * ceiling
    BY <2>1
  <2> HIDE DEF asked
  <2> QED
    BY <1>1, <1>2, <1>3, <1>4, <1>5, <2>2, <2>3, <2>4
<1>7. ASSUME leverage > ceiling, result <= ceiling
      PROVE  asked - sized >= collateral /\ 2 * (asked - sized) <= price
  <2>1. collateral * (ceiling + 1) <= collateral * leverage
    BY <1>7
  <2>2. collateral * result <= collateral * ceiling
    BY <1>4, <1>7
  <2>3. collateral * (ceiling + 1) = collateral * ceiling + collateral
    OBVIOUS
  <2>4. collateral * (ceiling + 1) <= asked
    BY <2>1
  <2> HIDE DEF asked
  <2> QED
    BY <1>1, <1>2, <1>3, <1>4, <1>5, <2>2, <2>3, <2>4
<1> QED
  BY <1>1, <1>3, <1>6, <1>7 DEF sized, result

(* What the queue reads of an intent.                                     *)
LEMMA CheckableIs ==
    ASSUME NEW q
    PROVE  LET c == Gate!Checkable(q, AccountId)
           IN /\ c.action = Gate!ActionOfIntent(q) /\ c.accountId = AccountId
              /\ c.increasesExposure = Gate!IncreasesExposure(q)
              /\ \A field \in {"ticker", "side", "collateral", "leverage", "slippagePercent"} :
                    c[field] = IF Gate!Has(q, field) THEN q[field] ELSE Undefined
<1> DEFINE read  == {"ticker", "side", "collateral", "leverage", "slippagePercent"}
           own   == [action |-> Gate!ActionOfIntent(q), accountId |-> AccountId,
                     increasesExposure |-> Gate!IncreasesExposure(q)]
           layer == [field \in read |-> IF Gate!Has(q, field) THEN q[field] ELSE Undefined]
<1>1. Gate!Checkable(q, AccountId) = own @@ layer
  BY DEF Gate!Checkable, Gate!@@, @@
<1>2. /\ DOMAIN own = {"action", "accountId", "increasesExposure"}
      /\ own.action = Gate!ActionOfIntent(q) /\ own.accountId = AccountId
      /\ own.increasesExposure = Gate!IncreasesExposure(q)
      /\ DOMAIN layer = read
      /\ \A field \in read : layer[field] = IF Gate!Has(q, field) THEN q[field] ELSE Undefined
  OBVIOUS
<1> HIDE DEF own, layer
<1>3. /\ \A x \in DOMAIN own : (own @@ layer)[x] = own[x]
      /\ \A x \in DOMAIN layer : x \notin DOMAIN own => (own @@ layer)[x] = layer[x]
  BY OverLeft, OverRight
<1> QED
  BY <1>1, <1>2, <1>3

(* What the runner asks for it.                                           *)
LEMMA AskIs ==
    ASSUME NEW q \in Queued
    PROVE  LET a == AskOf(q)
           IN /\ a.op = OpOf(q.kind)
              /\ \A field \in DOMAIN q \ {"kind", "side"} : Given(a, field) /\ a[field] = q[field]
              /\ \A field \in DOMAIN a : field \in DOMAIN q \cup {"op", "isLong"}
              /\ Gate!Has(q, "side") => a.isLong = (q.side = "long")
<1> DEFINE op     == [op |-> OpOf(q.kind)]
           fields == [field \in DOMAIN q \ {"kind", "side"} |-> q[field]]
           flag   == IF Gate!Has(q, "side") THEN [isLong |-> q.side = "long"] ELSE <<>>
           opened == op @@ fields
<1>1. AskOf(q) = opened @@ flag
  BY DEF AskOf
<1>2. {"op", "isLong"} \cap DOMAIN q = {}
  BY QueueAssumption DEF QueueFields
<1>3. /\ DOMAIN op = {"op"} /\ op.op = OpOf(q.kind)
      /\ DOMAIN fields = DOMAIN q \ {"kind", "side"}
      /\ \A field \in DOMAIN fields : fields[field] = q[field]
  OBVIOUS
<1>4. /\ DOMAIN flag \subseteq {"isLong"}
      /\ Gate!Has(q, "side") => "isLong" \in DOMAIN flag /\ flag.isLong = (q.side = "long")
  <2>1. DOMAIN <<>> = {}
    OBVIOUS
  <2> QED
    BY <2>1
<1> HIDE DEF op, fields, flag
<1>5. /\ DOMAIN opened = {"op"} \cup DOMAIN fields /\ opened.op = OpOf(q.kind)
      /\ \A field \in DOMAIN fields : opened[field] = q[field]
  <2>1. /\ \A x : x \in DOMAIN opened <=> x \in DOMAIN op \/ x \in DOMAIN fields
        /\ \A x \in DOMAIN op : opened[x] = op[x]
        /\ \A x \in DOMAIN fields \ DOMAIN op : opened[x] = fields[x]
    BY OverDomain, OverLeft, OverRight
  <2> QED
    BY <1>2, <1>3, <2>1
<1> HIDE DEF opened
<1>6. /\ \A x : x \in DOMAIN AskOf(q) <=> x \in DOMAIN opened \/ x \in DOMAIN flag
      /\ \A x \in DOMAIN opened : AskOf(q)[x] = opened[x]
      /\ \A x \in DOMAIN flag \ DOMAIN opened : AskOf(q)[x] = flag[x]
  BY <1>1, OverDomain, OverLeft, OverRight
<1> QED
  BY <1>2, <1>3, <1>4, <1>5, <1>6 DEF Given

(* The parameters of an ask and the fields of its intent are the same.     *)
LEMMA SameFields ==
    ASSUME NEW q \in Queued
    PROVE  \A field \in {"ticker", "collateral", "leverage", "slippagePercent", "size",
                         "triggerPrice", "reduceOnly"} :
                /\ Given(AskOf(q), field) <=> Gate!Has(q, field)
                /\ Gate!Has(q, field) => AskOf(q)[field] = q[field]
  BY AskIs DEF Given, Gate!Has

(* The kinds of which only the plan knows what they commit.               *)
Hidden == {"remove-margin", "wlp-mint", "fit-stop"}

(* Those that are sized, by a leverage or by a size.                      *)
Sized == {"open", "limit", "increase"}

(* The price a sized intent is sized at.                                  *)
PriceOf(q) == IF q.kind = "limit" THEN q.triggerPrice ELSE Spot

(* A plan says what the queue read, but for what only the plan knows.      *)
Mirrors(q, a) ==
    LET c == Gate!Checkable(q, AccountId)
        i == Plan(a).intent
    IN /\ i.action = c.action /\ i.accountId = c.accountId /\ i.ticker = c.ticker
       /\ q.kind \in Hidden => \A field \in {"side", "collateral", "leverage", "slippagePercent"} :
                                    c[field] = Undefined
       /\ q.kind \notin Hidden =>
            /\ i.increasesExposure = c.increasesExposure /\ i.collateral = c.collateral
            /\ q.kind # "increase" => i.side = c.side
            /\ Gate!Has(q, "slippagePercent") => i.slippagePercent = c.slippagePercent
            /\ ~Gate!Has(q, "slippagePercent") =>
                    /\ i.slippagePercent \in {DefaultSlippage, Undefined}
                    /\ c.slippagePercent = Undefined
       /\ q.kind \notin Hidden \cup Sized => i.leverage = Undefined /\ c.leverage = Undefined
                                           /\ c.collateral = Undefined
       /\ q.kind = "increase" => i.side = PositionOf(a).side /\ c.side = Undefined
       /\ q.kind \in Sized =>
            /\ i.sizeRaw = OrderSize(a, PriceOf(q)) /\ CanSize(a, PriceOf(q))
            /\ c.collateral = q.collateral /\ q.collateral \in Int /\ a.collateral = q.collateral
            /\ PriceOf(q) \in Int
            /\ i.leverage = EffectiveLeverage(q.collateral, i.sizeRaw, PriceOf(q))
            /\ a.op \in {"open", "limit", "increase"}

(* An entry, or more of a position.                                       *)
LEMMA SizedMirrors ==
    ASSUME NEW q \in Queued, q.kind \in Sized, IsMarket(market),
           NEW delegated, CanPlan(AskOf(q), delegated)
    PROVE  Mirrors(q, AskOf(q))
<1> DEFINE a == AskOf(q)
           c == Gate!Checkable(q, AccountId)
           i == Plan(a).intent
<1>1. IsAsk(a) /\ a.op = OpOf(q.kind) /\ DOMAIN q \subseteq {"kind"} \cup QueueFields[q.kind]
  BY QueueAssumption, AskIs DEF Sized
<1>2. /\ c.action = Gate!ActionOfIntent(q) /\ c.accountId = AccountId
      /\ c.increasesExposure = Gate!IncreasesExposure(q)
      /\ \A field \in {"ticker", "side", "collateral", "leverage", "slippagePercent"} :
            c[field] = IF Gate!Has(q, field) THEN q[field] ELSE Undefined
  BY CheckableIs
<1>3. \A field \in {"ticker", "collateral", "leverage", "slippagePercent", "size",
                    "triggerPrice", "reduceOnly"} :
        /\ Given(a, field) <=> Gate!Has(q, field)
        /\ Gate!Has(q, field) => a[field] = q[field]
  BY SameFields
<1>4. Spot \in Int
  BY DEF IsMarket, Spot
<1>5. Gate!Has(q, "side") => a.isLong = (q.side = "long")
  BY AskIs
<1> HIDE DEF a, c
<1>6. CASE q.kind = "open"
  <2>1. a.op = "open" /\ Gate!Has(q, "ticker") /\ Gate!Has(q, "collateral") /\ a.collateral \in Int
    BY <1>1, <1>3, <1>6 DEF OpOf, IsAsk, Needs, Amounts, Given
  <2>2. Gate!Has(q, "side") /\ q.side \in {"long", "short"}
    BY <1>6, QueueAssumption
  <2>3. CanSize(a, Spot)
    BY <2>1 DEF CanPlan, a
  <2>4. i.ticker = a.ticker /\ i.increasesExposure = TRUE
    BY <2>1 DEF Intent, Plan, PlanOpenPosition, Fields
  <2>5. i.side = c.side /\ i.action = c.action
    BY <1>2, <1>5, <1>6, <2>1, <2>2, OpenSays DEF Side, Gate!ActionOfIntent
  <2>6. c.increasesExposure = TRUE
    BY <1>2, <1>6 DEF Gate!IncreasesExposure
  <2>7. i.slippagePercent = Or(a, "slippagePercent", DefaultSlippage)
    BY <2>1, OpenSays DEF Slippage
  <2> QED
    BY <1>2, <1>3, <1>4, <1>6, <2>1, <2>3, <2>4, <2>5, <2>6, <2>7, OpenSays
       DEF Mirrors, Hidden, Sized, PriceOf, Or, a, c
<1>7. CASE q.kind = "limit"
  <2>1. /\ a.op = "limit" /\ Gate!Has(q, "ticker") /\ Gate!Has(q, "collateral")
        /\ Gate!Has(q, "triggerPrice") /\ a.collateral \in Int /\ a.triggerPrice \in Int
    BY <1>1, <1>3, <1>7 DEF OpOf, IsAsk, Needs, Amounts, Given
  <2>2. Gate!Has(q, "side") /\ q.side \in {"long", "short"}
    BY <1>7, QueueAssumption
  <2>3. CanSize(a, a.triggerPrice)
    BY <2>1 DEF CanPlan, a
  <2>4. /\ i.ticker = a.ticker /\ i.increasesExposure = ~Or(a, "reduceOnly", FALSE)
        /\ i.slippagePercent = Undefined
    BY <2>1 DEF Intent, Plan, PlanPlaceLimitOrder, Fields
  <2>5. i.side = c.side /\ i.action = c.action
    BY <1>2, <1>5, <1>7, <2>1, <2>2, LimitSays DEF Side, Gate!ActionOfIntent
  <2>6. c.increasesExposure = ~(Gate!Has(q, "reduceOnly") /\ q.reduceOnly)
    BY <1>2, <1>7 DEF Gate!IncreasesExposure
  <2>7. Gate!Has(q, "reduceOnly") => a.reduceOnly \in BOOLEAN
    BY <1>1, <1>3 DEF IsAsk, Given
  <2>8. i.increasesExposure = c.increasesExposure
    BY <1>3, <2>4, <2>6, <2>7 DEF Or
  <2>9. ~Gate!Has(q, "slippagePercent")
    BY <1>1, <1>7 DEF Gate!Has, QueueFields
  <2> QED
    BY <1>2, <1>3, <1>7, <2>1, <2>3, <2>4, <2>5, <2>8, <2>9, LimitSays
       DEF Mirrors, Hidden, Sized, PriceOf, a, c
<1>8. CASE q.kind = "increase"
  <2>1. /\ a.op = "increase" /\ Gate!Has(q, "ticker") /\ Gate!Has(q, "collateral")
        /\ a.collateral \in Int
    BY <1>1, <1>3, <1>8 DEF OpOf, IsAsk, Needs, Amounts, Given
  <2>2. ~Gate!Has(q, "side")
    BY <1>1, <1>8 DEF Gate!Has, QueueFields
  <2>3. CanSize(a, Spot)
    BY <2>1 DEF CanPlan, a
  <2>4. /\ i.ticker = a.ticker /\ i.increasesExposure = TRUE
        /\ i.slippagePercent = Or(a, "slippagePercent", DefaultSlippage)
    BY <2>1 DEF Intent, Plan, PlanIncreasePosition, Fields, Slippage
  <2>5. i.action = c.action
    BY <1>2, <1>8, <2>1, IncreaseSays DEF Gate!ActionOfIntent
  <2>6. c.increasesExposure = TRUE
    BY <1>2, <1>8 DEF Gate!IncreasesExposure
  <2> QED
    BY <1>2, <1>3, <1>4, <1>8, <2>1, <2>2, <2>3, <2>4, <2>5, <2>6, IncreaseSays
       DEF Mirrors, Hidden, Sized, PriceOf, Or, a, c
<1> QED
  BY <1>6, <1>7, <1>8 DEF Sized, a

(* What only the plan knows.                                              *)
LEMMA HiddenMirrors ==
    ASSUME NEW q \in Queued, q.kind \in Hidden, NEW a \in AsksOf(q)
    PROVE  Mirrors(q, a)
<1> DEFINE c == Gate!Checkable(q, AccountId)
           i == Plan(a).intent
<1>1. DOMAIN q \subseteq {"kind"} \cup QueueFields[q.kind]
  BY QueueAssumption
<1>2. /\ c.action = Gate!ActionOfIntent(q) /\ c.accountId = AccountId
      /\ \A field \in {"ticker", "side", "collateral", "leverage", "slippagePercent"} :
            c[field] = IF Gate!Has(q, field) THEN q[field] ELSE Undefined
  BY CheckableIs
<1>3. \A field \in {"side", "collateral", "leverage", "slippagePercent"} : ~Gate!Has(q, field)
  BY <1>1 DEF Gate!Has, QueueFields, Hidden
<1>4. i.action = c.action /\ i.accountId = AccountId /\ i.ticker = c.ticker
  <2>1. CASE q.kind = "fit-stop"
    <3>1. PICK p \in {x \in Positions : x.ticker = q.ticker /\ x.id = q.positionId}, o \in Orders :
            a = [op |-> "update", ticker |-> p.ticker, orderId |-> o.id,
                 newTriggerPrice |-> o.triggerPrice, newSize |-> p.sizeInAsset]
      BY <2>1 DEF AsksOf, FitStops, OversizedStops
    <3>2. i.ticker = a.ticker
      BY <3>1 DEF Intent, Plan, PlanUpdateOrder, Fields
    <3>3. Gate!Has(q, "ticker")
      BY <2>1, QueueAssumption
    <3> QED
      BY <1>2, <2>1, <3>1, <3>2, <3>3, UpdateSays DEF Gate!ActionOfIntent
  <2>2. CASE q.kind # "fit-stop"
    <3>1. a = AskOf(q) /\ IsAsk(a) /\ a.op = OpOf(q.kind)
      BY <2>2, QueueAssumption, AskIs DEF AsksOf
    <3>2. CASE q.kind = "remove-margin"
      <4>1. a.op = "removeMargin"
        BY <3>1, <3>2 DEF OpOf
      <4>2. Gate!Has(q, "ticker") /\ a.ticker = q.ticker
        BY <3>1, <4>1, SameFields DEF IsAsk, Needs, Given
      <4>3. i.ticker = a.ticker
        BY <4>1 DEF Intent, Plan, PlanRemoveMargin, Fields
      <4> QED
        BY <1>2, <3>2, <4>1, <4>2, <4>3, RemoveMarginSays DEF Gate!ActionOfIntent
    <3>3. CASE q.kind = "wlp-mint"
      <4>1. a.op = "mintWlp"
        BY <3>1, <3>3 DEF OpOf
      <4>2. ~Gate!Has(q, "ticker")
        BY <1>1, <3>3 DEF Gate!Has, QueueFields
      <4>3. i.ticker = Undefined
        BY <4>1 DEF Intent, Plan, PlanMintWlp, Fields
      <4> QED
        BY <1>2, <3>3, <4>1, <4>2, <4>3, MintSays DEF Gate!ActionOfIntent
    <3> QED
      BY <2>2, <3>2, <3>3 DEF Hidden
  <2> QED
    BY <2>1, <2>2
<1> QED
  BY <1>2, <1>3, <1>4 DEF Mirrors, Hidden, Sized

(* What leaves, cancels or claims.                                        *)
LEMMA OthersMirror ==
    ASSUME NEW q \in Queued, q.kind \notin Hidden \cup Sized
    PROVE  Mirrors(q, AskOf(q))
<1> DEFINE a == AskOf(q)
           c == Gate!Checkable(q, AccountId)
           i == Plan(a).intent
<1>1. /\ q.kind \in {"close", "reduce", "cancel", "add-margin", "wlp-burn", "wlp-cancel-burn",
                     "wlp-claim"}
      /\ DOMAIN q \subseteq {"kind"} \cup QueueFields[q.kind] /\ IsAsk(a) /\ a.op = OpOf(q.kind)
  BY QueueAssumption, AskIs DEF QueueFields, Hidden, Sized
<1>2. /\ c.action = Gate!ActionOfIntent(q) /\ c.accountId = AccountId
      /\ c.increasesExposure = Gate!IncreasesExposure(q)
      /\ \A field \in {"ticker", "side", "collateral", "leverage", "slippagePercent"} :
            c[field] = IF Gate!Has(q, field) THEN q[field] ELSE Undefined
  BY CheckableIs
<1>3. \A field \in {"ticker", "slippagePercent"} :
        /\ Given(a, field) <=> Gate!Has(q, field)
        /\ Gate!Has(q, field) => a[field] = q[field]
  BY SameFields
<1>4. \A field \in {"side", "collateral", "leverage"} : c[field] = Undefined
  BY <1>1, <1>2 DEF Gate!Has, QueueFields
<1>5. c.increasesExposure = FALSE
  BY <1>1, <1>2 DEF Gate!IncreasesExposure
<1> HIDE DEF a, c
<1>6. CASE q.kind \in {"close", "reduce"}
  <2>1. a.op \in {"close", "reduce"} /\ Gate!Has(q, "ticker")
    BY <1>1, <1>3, <1>6 DEF OpOf, IsAsk, Needs, Given
  <2>2. /\ i.action = c.action /\ i.accountId = AccountId /\ i.ticker = a.ticker
        /\ i.increasesExposure = FALSE /\ i.side = Undefined /\ i.collateral = Undefined
        /\ i.leverage = Undefined /\ i.slippagePercent = Or(a, "slippagePercent", DefaultSlippage)
    <3>1. CASE q.kind = "close"
      BY <1>1, <1>2, <3>1 DEF OpOf, Intent, Fields, Plan, PlanClosePosition, Slippage,
         Gate!ActionOfIntent
    <3>2. CASE q.kind = "reduce"
      BY <1>1, <1>2, <3>2 DEF OpOf, Intent, Fields, Plan, PlanReducePosition, Slippage,
         Gate!ActionOfIntent
    <3> QED
      BY <1>6, <3>1, <3>2
  <2> QED
    BY <1>2, <1>3, <1>4, <1>5, <1>6, <2>1, <2>2 DEF Mirrors, Hidden, Sized, Or, a, c
<1>7. CASE q.kind \in {"cancel", "add-margin"}
  <2>0. a.op \in {"cancel", "addMargin"} /\ ~Gate!Has(q, "slippagePercent")
    BY <1>1, <1>7 DEF OpOf, Gate!Has, QueueFields
  <2>1. Gate!Has(q, "ticker") /\ ~Gate!Has(q, "slippagePercent")
    BY <1>1, <1>3, <2>0 DEF IsAsk, Needs, Given
  <2>2. /\ i.action = c.action /\ i.accountId = AccountId /\ i.ticker = a.ticker
        /\ i.increasesExposure = FALSE /\ i.side = Undefined /\ i.collateral = Undefined
        /\ i.leverage = Undefined /\ i.slippagePercent = Undefined
    BY <1>1, <1>2, <1>7 DEF OpOf, Intent, Fields, Plan, PlanCancelOrder, PlanAddMargin,
       Gate!ActionOfIntent
  <2> QED
    BY <1>2, <1>3, <1>4, <1>5, <1>7, <2>1, <2>2 DEF Mirrors, Hidden, Sized, a, c
<1>8. CASE q.kind \in {"wlp-burn", "wlp-cancel-burn", "wlp-claim"}
  <2>1. ~Gate!Has(q, "ticker") /\ ~Gate!Has(q, "slippagePercent")
    BY <1>1, <1>8 DEF Gate!Has, QueueFields
  <2>0. DOMAIN <<>> = {}
    OBVIOUS
  <2>2. /\ i.action = c.action /\ i.accountId = AccountId /\ i.ticker = Undefined
        /\ i.increasesExposure = FALSE /\ i.side = Undefined /\ i.collateral = Undefined
        /\ i.leverage = Undefined /\ i.slippagePercent = Undefined
    BY <1>1, <1>2, <1>8, <2>0 DEF OpOf, Intent, Fields, Plan, PlanBurnWlp, PlanCancelWlpBurn,
       PlanClaimWlpRewards, Gate!ActionOfIntent
  <2> QED
    BY <1>2, <1>4, <1>5, <1>8, <2>1, <2>2 DEF Mirrors, Hidden, Sized, a, c
<1> QED
  BY <1>1, <1>6, <1>7, <1>8 DEF a

(* A plan that is made of an intent of the queue says what it says.       *)
LEMMA PlanMirrorsTheQueue ==
    ASSUME NEW q \in Queued, IsMarket(market), NEW delegated, NEW a \in AsksOf(q),
           CanPlan(a, delegated)
    PROVE  Mirrors(q, a)
<1>1. q.kind # "fit-stop" => a = AskOf(q)
  BY DEF AsksOf
<1> QED
  BY <1>1, SizedMirrors, HiddenMirrors, OthersMirror DEF Hidden, Sized

(* What was answered to an intent of the queue was answered earlier, and   *)
(* what is asked is asked for it.                                         *)
QueueIsKept ==
    queued # Undefined =>
        /\ context.mode = "delegated-auto" /\ queued \in Queued
        /\ verdict # "offered" =>
              \E t \in Int : /\ t <= market.now
                             /\ admitted = Gate!Admissible(queued, context.scope, AccountId, t)
        /\ verdict \notin {"offered", "queued"} => ask \in AsksOf(queued)

LEMMA InitKeepsTheQueue ==
    ASSUME Init
    PROVE  QueueIsKept
  BY DEF Init, QueueIsKept

LEMMA NextKeepsTheQueue ==
    ASSUME Sound, QueueIsKept, [Next]_vars
    PROVE  QueueIsKept'
<1>1. IsMarket(market)
  BY MarketAssumption DEF Sound
<1>2. CASE Offer
  <2>1. /\ admitted' = Gate!Admissible(queued, context.scope, AccountId, market.now)
        /\ UNCHANGED <<market, queued, context>> /\ verdict' = "queued"
    BY <1>2 DEF Offer
  <2>2. market.now \in Int /\ market.now <= market.now
    BY <1>1 DEF IsMarket
  <2>3. \E t \in Int : /\ t <= market'.now
                       /\ admitted' = Gate!Admissible(queued', context'.scope, AccountId, t)
    BY <2>1, <2>2
  <2> QED
    BY <2>1, <2>3 DEF QueueIsKept
<1>3. CASE Drift
  <2>1. /\ market' \in Markets /\ market'.now > market.now
        /\ UNCHANGED <<queued, admitted, context, verdict>> /\ verdict = "queued"
    BY <1>3 DEF Drift
  <2>2. market.now \in Int /\ market'.now \in Int
    BY <1>1, <2>1, MarketAssumption DEF IsMarket
  <2> SUFFICES ASSUME queued # Undefined
               PROVE  QueueIsKept'
    BY <2>1 DEF QueueIsKept
  <2>3. PICK t \in Int : /\ t <= market.now
                         /\ admitted = Gate!Admissible(queued, context.scope, AccountId, t)
    BY <2>1 DEF QueueIsKept
  <2>4. t <= market'.now
    BY <2>1, <2>2, <2>3
  <2>5. \E u \in Int : /\ u <= market'.now
                       /\ admitted' = Gate!Admissible(queued', context'.scope, AccountId, u)
    BY <2>1, <2>3, <2>4
  <2> QED
    BY <2>1, <2>5 DEF QueueIsKept
<1>4. CASE Start
  <2>1. PICK a \in AsksOf(queued) : ask' = a
    BY <1>4 DEF Start
  <2>2. UNCHANGED <<market, queued, admitted, context>> /\ verdict = "queued"
    BY <1>4 DEF Start
  <2>3. AsksOf(queued)' = AsksOf(queued)
    BY <2>2 DEF AsksOf, FitStops, OversizedStops, Positions, Orders
  <2> QED
    BY <2>1, <2>2, <2>3 DEF QueueIsKept
<1>5. ASSUME UNCHANGED <<market, queued, admitted, ask, context>>,
             verdict \notin {"offered", "queued"} \/ UNCHANGED verdict
      PROVE  QueueIsKept'
  <2>1. AsksOf(queued)' = AsksOf(queued)
    BY <1>5 DEF AsksOf, FitStops, OversizedStops, Positions, Orders
  <2> QED
    BY <1>5, <2>1 DEF QueueIsKept
<1>6. CASE Authorize
  BY <1>5, <1>6 DEF Authorize
<1>7. CASE Damage
  BY <1>5, <1>7 DEF Damage
<1>8. CASE Verify
  BY <1>5, <1>8 DEF Verify
<1>9. CASE UNCHANGED vars
  BY <1>5, <1>9 DEF vars
<1> QED
  BY <1>2, <1>3, <1>4, <1>6, <1>7, <1>8, <1>9 DEF Next

(* A sized intent, its leverage as it results and as it was asked.        *)
LEMMA SizedLeverage ==
    ASSUME NEW q \in Queued, q.kind \in Sized, NEW a \in AsksOf(q), Mirrors(q, a),
           NEW ceiling \in Int, Plan(a).intent.leverage # NaN
    PROVE  LET intent  == Plan(a).intent
               asked   == q.collateral * q.leverage
               notional == intent.sizeRaw * PriceOf(q)
           IN /\ intent.leverage \in Int
              /\ Gate!Has(q, "size") \/ (Gate!Has(q, "leverage") /\ q.leverage \in Int)
              /\ Gate!Has(q, "leverage") => q.leverage \in Int
              /\ ~Gate!Has(q, "size") /\ q.leverage <= ceiling /\ intent.leverage > ceiling =>
                    notional > asked /\ 2 * (notional - asked) <= PriceOf(q)
              /\ ~Gate!Has(q, "size") /\ q.leverage > ceiling /\ intent.leverage <= ceiling =>
                    asked - notional >= q.collateral /\ 2 * (asked - notional) <= PriceOf(q)
<1> DEFINE intent == Plan(a).intent
           price == PriceOf(q)
<1>1. a = AskOf(q) /\ IsAsk(a)
  BY QueueAssumption DEF AsksOf, Sized
<1>2. \A field \in {"leverage", "size"} :
        /\ Given(a, field) <=> Gate!Has(q, field)
        /\ Gate!Has(q, field) => a[field] = q[field]
  BY <1>1, SameFields
<1>3. /\ intent.sizeRaw = OrderSize(a, price) /\ CanSize(a, price)
      /\ q.collateral \in Int /\ a.collateral = q.collateral /\ price \in Int
      /\ intent.leverage = EffectiveLeverage(q.collateral, intent.sizeRaw, price)
      /\ a.op \in {"open", "limit", "increase"}
  BY DEF Mirrors
<1>4. Gate!Has(q, "leverage") => q.leverage \in Int
  BY <1>1, <1>2 DEF IsAsk, Amounts, Given
<1>5. Gate!Has(q, "size") \/ Gate!Has(q, "leverage")
  BY <1>2, <1>3 DEF CanSize
<1> HIDE DEF price
<1>6. intent.sizeRaw \in Int
  BY <1>1, <1>3, SizeIsInt
<1>7. /\ q.collateral > 0
      /\ intent.leverage = (intent.sizeRaw * price + q.collateral - 1) \div q.collateral
  BY <1>3 DEF EffectiveLeverage
<1>8. intent.leverage \in Int
  <2>1. intent.sizeRaw * price + q.collateral - 1 \in Int
    BY <1>3, <1>6
  <2> QED
    BY <1>3, <1>7, <2>1, Division
<1>9. ASSUME ~Gate!Has(q, "size")
      PROVE  /\ q.leverage \in Int /\ price > 0
             /\ intent.sizeRaw = Rounded(q.collateral * q.leverage, price)
  BY <1>2, <1>3, <1>4, <1>5, <1>9 DEF OrderSize, CanSize
<1>10. ASSUME ~Gate!Has(q, "size")
       PROVE  /\ q.leverage <= ceiling /\ intent.leverage > ceiling =>
                    /\ intent.sizeRaw * price > q.collateral * q.leverage
                    /\ 2 * (intent.sizeRaw * price - q.collateral * q.leverage) <= price
              /\ q.leverage > ceiling /\ intent.leverage <= ceiling =>
                    /\ q.collateral * q.leverage - intent.sizeRaw * price >= q.collateral
                    /\ 2 * (q.collateral * q.leverage - intent.sizeRaw * price) <= price
  BY <1>3, <1>7, <1>9, <1>10, RoundedLeverage
<1> QED
  BY <1>4, <1>5, <1>8, <1>10 DEF price

(* The queue and the gate over one intent.                                *)
LEMMA KeptQueueAgrees ==
    ASSUME Sound, QueueIsKept
    PROVE  QueueAgreesWithGate
<1> SUFFICES ASSUME Planned
             PROVE  /\ ~admitted /\ SettledNow =>
                          /\ Gate!Has(queued, "leverage")
                          /\ queued.leverage > context.scope.maxLeverage
                          /\ Gate!Has(queued, "size") \/ RoundsAway(Plan(ask).intent)
                    /\ admitted /\ ~SettledNow => OnlyThePlanKnows(Plan(ask).intent)
  BY DEF QueueAgreesWithGate
<1> DEFINE c == Gate!Checkable(queued, AccountId)
           i == Plan(ask).intent
           scope == context.scope
<1>1. /\ queued \in Queued /\ ask \in AsksOf(queued) /\ context.mode = "delegated-auto"
      /\ CanPlan(ask, context.signer # OwnerAddress)
      /\ \E t \in Int : /\ t <= market.now
                        /\ admitted = Gate!Admissible(queued, scope, AccountId, t)
  BY DEF Planned, QueueIsKept, Sound, AskedIsPlanned
<1>2. PICK t \in Int : t <= market.now /\ admitted = Gate!Admissible(queued, scope, AccountId, t)
  BY <1>1
<1>3. IsMarket(market) /\ market.now \in Int /\ IsScope(scope)
  BY <1>1, MarketAssumption, ContextAssumption DEF Sound, KnownIsBuilt, Gate!CanBuild, IsMarket
<1>4. scope.notAfter \in Int /\ scope.maxLeverage \in Int
  BY <1>3 DEF IsScope, Gate!Ceilings
<1>5. Mirrors(queued, ask)
  BY <1>1, <1>3, PlanMirrorsTheQueue
<1>6. Gate!ActionOfIntent(queued) \notin Gate!OwnerOnlyActions
  BY <1>1, QueueAssumption DEF Gate!ActionOfIntent, Gate!OwnerOnlyActions, QueueFields
<1>7. /\ c.action = i.action /\ c.accountId = i.accountId /\ c.ticker = i.ticker
      /\ queued.kind \in Hidden =>
            \A field \in {"side", "collateral", "leverage", "slippagePercent"} :
                c[field] = Undefined
      /\ queued.kind \notin Hidden =>
            c.increasesExposure = i.increasesExposure /\ c.collateral = i.collateral
      /\ queued.kind \notin Hidden /\ queued.kind # "increase" => c.side = i.side
      /\ queued.kind = "increase" => c.side = Undefined /\ i.side = PositionOf(ask).side
      /\ queued.kind \notin Hidden /\ Gate!Has(queued, "slippagePercent") =>
            c.slippagePercent = i.slippagePercent
      /\ queued.kind \notin Hidden /\ ~Gate!Has(queued, "slippagePercent") =>
            /\ c.slippagePercent = Undefined
            /\ i.slippagePercent \in {DefaultSlippage, Undefined}
      /\ queued.kind \notin Hidden \cup Sized =>
            i.leverage = Undefined /\ c.leverage = Undefined
  BY <1>5 DEF Mirrors
<1>8. c.leverage = IF Gate!Has(queued, "leverage") THEN queued.leverage ELSE Undefined
  BY CheckableIs
<1>9. SizedAt = PriceOf(queued)
  BY DEF SizedAt, PriceOf
<1>10. admitted <=> Gate!Settled(c, scope, t)
  BY <1>2, <1>6 DEF Gate!Admissible
<1> HIDE DEF c
<1>11. ASSUME ~admitted, SettledNow
       PROVE  /\ Gate!Has(queued, "leverage") /\ queued.leverage > scope.maxLeverage
              /\ Gate!Has(queued, "size") \/ RoundsAway(i)
  <2>1. Gate!Measurable(i) /\ Gate!Settled(i, scope, market.now)
    BY <1>11 DEF SettledNow
  <2>2. /\ t <= scope.notAfter /\ c.accountId \in scope.accounts
        /\ Gate!Allowed(c.ticker, scope.markets) /\ Gate!Allowed(c.side, scope.sides)
        /\ Gate!Within(c.slippagePercent, scope.maxSlippagePercent)
    <3>1. t <= scope.notAfter
      BY <1>2, <1>3, <1>4, <2>1 DEF Gate!Settled
    <3> QED
      BY <1>7, <2>1, <3>1 DEF Gate!Settled, Gate!Allowed, Gate!Within
  <2>3. /\ Gate!IsMetered(c)
        /\ ~(Gate!Within(c.leverage, scope.maxLeverage)
             /\ Gate!Within(c.collateral, scope.maxCollateralPerOrder))
    BY <1>10, <1>11, <2>2 DEF Gate!Settled
  <2>4. queued.kind \notin Hidden
    BY <1>7, <2>3 DEF Gate!Within
  <2>5. Gate!IsMetered(i)
    BY <1>7, <2>3, <2>4 DEF Gate!IsMetered
  <2>6. /\ Gate!Within(i.leverage, scope.maxLeverage)
        /\ Gate!Within(i.collateral, scope.maxCollateralPerOrder)
    BY <2>1, <2>5 DEF Gate!Settled
  <2>7. ~Gate!Within(c.leverage, scope.maxLeverage)
    BY <1>7, <2>3, <2>4, <2>6
  <2>8. /\ queued.kind \in Sized /\ Gate!Has(queued, "leverage")
        /\ ~(queued.leverage <= scope.maxLeverage)
    BY <1>7, <1>8, <2>4, <2>7 DEF Gate!Within
  <2>9. i.leverage # NaN
    BY <2>1 DEF Gate!Measurable
  <2>10. /\ i.leverage \in Int /\ queued.leverage \in Int
         /\ ~Gate!Has(queued, "size") /\ queued.leverage > scope.maxLeverage
                /\ i.leverage <= scope.maxLeverage =>
              /\ AskedNotional - SizedNotional(i) >= queued.collateral
              /\ 2 * (AskedNotional - SizedNotional(i)) <= SizedAt
    BY <1>1, <1>4, <1>5, <1>9, <2>8, <2>9, SizedLeverage DEF AskedNotional, SizedNotional
  <2>11. queued.leverage > scope.maxLeverage /\ i.leverage <= scope.maxLeverage
    BY <1>4, <2>6, <2>8, <2>10, NumberAssumption DEF Gate!Within
  <2> QED
    BY <2>8, <2>10, <2>11 DEF RoundsAway
<1>12. ASSUME admitted, ~SettledNow
       PROVE  OnlyThePlanKnows(i)
  <2> SUFFICES ASSUME market.now <= scope.notAfter, Gate!Measurable(i), queued.kind \notin Hidden,
                      queued.kind = "increase" => AllowedSide(PositionOf(ask).side = "long"),
                      Gate!Has(queued, "slippagePercent")
                        \/ ~(DefaultSlippage > scope.maxSlippagePercent)
               PROVE  /\ i.leverage > scope.maxLeverage
                      /\ \/ Gate!Has(queued, "size")
                         \/ queued.leverage <= scope.maxLeverage /\ RoundsUp(i)
    BY <1>3, <1>4 DEF OnlyThePlanKnows, Hidden
  <2>1. Gate!Settled(c, scope, t)
    BY <1>10, <1>12
  <2>2. ~Gate!Settled(i, scope, market.now)
    BY <1>12 DEF SettledNow
  <2>3. Gate!Allowed(i.side, scope.sides)
    <3>1. CASE queued.kind = "increase"
      <4>1. ask.op = "increase"
        BY <1>1, <3>1, AskIs DEF AsksOf, OpOf
      <4>2. HasPosition(ask)
        BY <1>1, <4>1 DEF CanPlan
      <4>3. PositionOf(ask).side \in {"long", "short"}
        BY <1>3, <4>2, PositionIsTyped
      <4> QED
        BY <1>7, <3>1, <4>3, SideOf DEF AllowedSide
    <3>2. CASE queued.kind # "increase"
      BY <1>7, <2>1, <3>2 DEF Gate!Settled
    <3> QED
      BY <3>1, <3>2
  <2>4. Gate!Within(i.slippagePercent, scope.maxSlippagePercent)
    <3>1. scope.maxSlippagePercent \in Int
      BY <1>3 DEF IsScope, Gate!Ceilings
    <3>2. CASE Gate!Has(queued, "slippagePercent")
      BY <1>7, <2>1, <3>2 DEF Gate!Settled
    <3>3. CASE ~Gate!Has(queued, "slippagePercent")
      BY <1>7, <3>1, <3>3, NumberAssumption DEF Gate!Within
    <3> QED
      BY <3>2, <3>3
  <2>5. Gate!IsMetered(i) /\ ~(Gate!Within(i.leverage, scope.maxLeverage)
                               /\ Gate!Within(i.collateral, scope.maxCollateralPerOrder))
    BY <1>7, <2>1, <2>2, <2>3, <2>4 DEF Gate!Settled
  <2>6. Gate!IsMetered(c)
    BY <1>7, <2>5 DEF Gate!IsMetered
  <2>7. /\ Gate!Within(c.leverage, scope.maxLeverage)
        /\ Gate!Within(c.collateral, scope.maxCollateralPerOrder)
    BY <2>1, <2>6 DEF Gate!Settled
  <2>8. ~Gate!Within(i.leverage, scope.maxLeverage)
    BY <1>7, <2>5, <2>7
  <2>9. queued.kind \in Sized
    BY <1>7, <2>8 DEF Gate!Within
  <2>10. i.leverage # NaN
    BY DEF Gate!Measurable
  <2>11. /\ i.leverage \in Int
         /\ Gate!Has(queued, "size") \/ (Gate!Has(queued, "leverage") /\ queued.leverage \in Int)
         /\ ~Gate!Has(queued, "size") /\ queued.leverage <= scope.maxLeverage
                /\ i.leverage > scope.maxLeverage =>
              /\ SizedNotional(i) > AskedNotional
              /\ 2 * (SizedNotional(i) - AskedNotional) <= SizedAt
    BY <1>1, <1>4, <1>5, <1>9, <2>9, <2>10, SizedLeverage DEF AskedNotional, SizedNotional
  <2>12. i.leverage > scope.maxLeverage
    BY <1>4, <2>8, <2>11 DEF Gate!Within
  <2>13. ASSUME ~Gate!Has(queued, "size")
         PROVE  queued.leverage <= scope.maxLeverage
    BY <1>8, <2>7, <2>11, <2>13, NumberAssumption DEF Gate!Within
  <2> QED
    BY <2>11, <2>12, <2>13 DEF RoundsUp
<1> QED
  BY <1>11, <1>12

(* THE QUEUE'S NO IS THE GATE'S, for every queue, market and scope, however *)
(* long an intent waits and whatever the market does meanwhile.            *)
THEOREM QueueFollowsTheGate == Spec => []QueueAgreesWithGate
<1>1. Init => Sound /\ QueueIsKept
  BY InitIsSound, InitKeepsTheQueue
<1>2. Sound /\ QueueIsKept /\ [Next]_vars => (Sound /\ QueueIsKept)'
  BY NextIsSound, NextKeepsTheQueue
<1>3. Sound /\ QueueIsKept => QueueAgreesWithGate
  BY KeptQueueAgrees
<1> QED
  BY <1>1, <1>2, <1>3, PTL DEF Spec
=============================================================================
