------------------------------- MODULE Plans -------------------------------
(***************************************************************************)
(* What the agent decides to do: each plan method of the facade turns what *)
(* the caller asked for, and what it reads of the market and the account,  *)
(* into an intent (what is authorized, and checked in the bytes) and a     *)
(* request (what the backend is asked to compose).                         *)
(* Source: src/src/agent/agent.ts, plan.ts, markets.ts, src/src/units.ts.  *)
(*                                                                         *)
(* Abstractions: an amount is written once, in the integer units of the    *)
(* transaction (the scales of units.ts are exact or refuse); a permission  *)
(* mask is its set of bits; a refused parameter makes a plan impossible;   *)
(* what a plan shows a person beside these two is left out.                *)
(***************************************************************************)
EXTENDS Integers, Sequences, Overlay

CONSTANTS
    Undefined,       \* a field nobody gave
    NaN,             \* a quotient no ceiling can bound
    AccountId,       \* the configured account
    OwnerAddress,    \* who owns it
    DefaultSlippage, \* percent
    PermAllTrading   \* the bits a perp grant carries when none are named

(* What the backend answers when it is read: the price, the open positions, *)
(* the resting orders, and the time.                                       *)
VARIABLE market

Spot == market.spot
Positions == market.positions
Orders == market.orders

Fields == {"action", "accountId", "increasesExposure", "ticker", "side",
           "collateral", "collateralRaw", "leverage", "slippagePercent",
           "reduceOnly", "sizeRaw", "triggerPriceRaw", "delegateAddress",
           "positionId", "orderId", "acceptablePriceRaw", "isStopOrder", "legs",
           "movesFundsIn", "assetType", "recipient", "alias", "requestId",
           "delegatePermissions", "delegateBasePermissions",
           "delegateExpiresAtMs", "amountRaw"}

(* An intent says nothing of a field no plan method sets.                 *)
Intent(action, exposure, stated) ==
    [field \in Fields |->
        CASE field \in DOMAIN stated -> stated[field]
          [] field = "action" -> action
          [] field = "accountId" -> AccountId
          [] field = "increasesExposure" -> exposure
          [] OTHER -> Undefined]

(* What a caller may ask, and what each method cannot do without.         *)
Needs ==
    [open          |-> {"ticker", "isLong", "collateral"},
     limit         |-> {"ticker", "isLong", "collateral", "triggerPrice"},
     placeTpSl     |-> {"ticker", "positionId"},
     close         |-> {"ticker", "positionId"},
     reduce        |-> {"ticker", "positionId"},
     increase      |-> {"ticker", "positionId", "collateral"},
     addMargin     |-> {"ticker", "positionId", "amount"},
     removeMargin  |-> {"ticker", "positionId", "amount"},
     cancel        |-> {"ticker", "orderId"},
     update        |-> {"ticker", "orderId", "newSize", "newTriggerPrice"},
     createAccount |-> {"name"},
     deposit       |-> {"amount", "assetType"},
     withdraw      |-> {"amount", "assetType"},
     addDelegate   |-> {"delegate"},
     removeDelegate |-> {"delegate"},
     removeAllDelegates |-> {},
     mintWlp       |-> {"amount"},
     burnWlp       |-> {"amount"},
     cancelWlpBurn |-> {"requestId"},
     claimWlpRewards |-> {}]

Amounts == {"collateral", "leverage", "size", "amount", "percent", "slippagePercent",
            "triggerPrice", "takeProfit", "stopLoss", "newSize", "newTriggerPrice"}

IsAsk(ask) ==
    /\ ask.op \in DOMAIN Needs
    /\ Needs[ask.op] \subseteq DOMAIN ask
    /\ \A field \in Amounts \cap DOMAIN ask : ask[field] \in Int
    /\ \A field \in {"isLong", "isStopOrder", "reduceOnly"} \cap DOMAIN ask :
        ask[field] \in BOOLEAN

Given(ask, field) == field \in DOMAIN ask

Or(ask, field, default) == IF Given(ask, field) THEN ask[field] ELSE default

Side(isLong) == IF isLong THEN "long" ELSE "short"

(* Entering a long buys, leaving one sells.                               *)
Entry(side) == IF side = "long" THEN "buy" ELSE "sell"

Exit(side) == IF side = "long" THEN "sell" ELSE "buy"

(* toFixed: to the nearest unit.                                          *)
Rounded(numerator, denominator) ==
    (2 * numerator + denominator) \div (2 * denominator)

(* The most a buy may pay, the least a sell may accept.                   *)
AcceptablePriceFor(reference, fill, slippage) ==
    Rounded(reference * (IF fill = "buy" THEN 100 + slippage ELSE 100 - slippage), 100)

CanBound(slippage) == slippage >= 0 /\ slippage < 100

-----------------------------------------------------------------------------
(* Sizing.                                                                *)

(* A size is derived from an amount and a price that yield one.           *)
CanSize(ask, price) ==
    \/ Given(ask, "size")
    \/ /\ Given(ask, "leverage") /\ ask.leverage >= 1
       /\ ask.collateral * ask.leverage > 0 /\ price > 0

OrderSize(ask, price) ==
    IF Given(ask, "size") THEN ask.size
    ELSE Rounded(ask.collateral * ask.leverage, price)

(* Notional over collateral, however the order was sized: rounded up, so   *)
(* that it exceeds an integer ceiling exactly when the quotient does.  An  *)
(* amount that is not positive makes it unmeasurable (NaN).                *)
EffectiveLeverage(collateral, size, price) ==
    IF collateral <= 0 THEN NaN
    ELSE (size * price + collateral - 1) \div collateral

(* Percentages of a position's size.                                      *)
ReducedSize(ask, position) ==
    IF Given(ask, "size") THEN ask.size
    ELSE Rounded(position.sizeInAsset * ask.percent, 100)

CanReduce(ask) == Given(ask, "size") \/ (Given(ask, "percent") /\ ask.percent \in 1 .. 100)

-----------------------------------------------------------------------------
(* Brackets, and orders that would fill at once.                          *)

BracketInOrder(ask, isLong) ==
    Given(ask, "takeProfit") /\ Given(ask, "stopLoss") =>
        IF isLong THEN ask.stopLoss < ask.takeProfit ELSE ask.takeProfit < ask.stopLoss

(* A leg takes the side opposite to the position it protects.             *)
BracketLegs(ask, isLong) ==
    LET Leg(price, stop) == <<[triggerPrice |-> price, isStopOrder |-> stop,
                               isLong |-> ~isLong]>>
    IN (IF Given(ask, "takeProfit") THEN Leg(ask.takeProfit, FALSE) ELSE <<>>)
       \o (IF Given(ask, "stopLoss") THEN Leg(ask.stopLoss, TRUE) ELSE <<>>)

Crosses(isLong, trigger) == IF isLong THEN trigger > Spot ELSE trigger < Spot

NotCrossing(isLong, trigger, stop, reduceOnly) ==
    stop \/ reduceOnly \/ ~Crosses(isLong, trigger)

(* (ticker, id) is the key of a position and of an order.                 *)
HasPosition(ask) == \E p \in Positions : p.ticker = ask.ticker /\ p.id = ask.positionId

PositionOf(ask) == CHOOSE p \in Positions : p.ticker = ask.ticker /\ p.id = ask.positionId

HasOrder(ask) == \E o \in Orders : o.ticker = ask.ticker /\ o.id = ask.orderId

OrderOf(ask) == CHOOSE o \in Orders : o.ticker = ask.ticker /\ o.id = ask.orderId

-----------------------------------------------------------------------------
(* Trading.                                                               *)

Slippage(ask) == Or(ask, "slippagePercent", DefaultSlippage)

PlanOpenPosition(ask) ==
    LET size  == OrderSize(ask, Spot)
        fill  == Entry(Side(ask.isLong))
        bound == AcceptablePriceFor(Spot, fill, Slippage(ask))
        legs  == BracketLegs(ask, ask.isLong)
    IN [intent |-> Intent(IF ask.isLong THEN "openLong" ELSE "openShort", TRUE,
            [ticker |-> ask.ticker, side |-> Side(ask.isLong), reduceOnly |-> FALSE,
             collateral |-> ask.collateral, collateralRaw |-> ask.collateral,
             sizeRaw |-> size, leverage |-> EffectiveLeverage(ask.collateral, size, Spot),
             slippagePercent |-> Slippage(ask), acceptablePriceRaw |-> bound,
             isStopOrder |-> FALSE, legs |-> legs]),
        request |-> [kind |-> "marketOrder", accountId |-> AccountId, ticker |-> ask.ticker,
             isLong |-> ask.isLong, collateralAmount |-> ask.collateral, size |-> size,
             acceptablePrice |-> bound, preOrders |-> legs]]

PlanClosePosition(ask) ==
    LET fill  == Exit(PositionOf(ask).side)
        bound == AcceptablePriceFor(Spot, fill, Slippage(ask))
    IN [intent |-> Intent("closePosition", FALSE,
            [ticker |-> ask.ticker, slippagePercent |-> Slippage(ask),
             positionId |-> ask.positionId, acceptablePriceRaw |-> bound]),
        request |-> [kind |-> "closePosition", accountId |-> AccountId, ticker |-> ask.ticker,
             positionId |-> ask.positionId, acceptablePrice |-> bound]]

PlanReducePosition(ask) ==
    LET fill  == Exit(PositionOf(ask).side)
        bound == AcceptablePriceFor(Spot, fill, Slippage(ask))
        size  == ReducedSize(ask, PositionOf(ask))
    IN [intent |-> Intent("reducePosition", FALSE,
            [ticker |-> ask.ticker, slippagePercent |-> Slippage(ask),
             positionId |-> ask.positionId, sizeRaw |-> size,
             acceptablePriceRaw |-> bound]),
        request |-> [kind |-> "reducePosition", accountId |-> AccountId, ticker |-> ask.ticker,
             positionId |-> ask.positionId, size |-> size, acceptablePrice |-> bound]]

PlanIncreasePosition(ask) ==
    LET position == PositionOf(ask)
        size  == OrderSize(ask, Spot)
        fill  == Entry(position.side)
        bound == AcceptablePriceFor(Spot, fill, Slippage(ask))
    IN [intent |-> Intent("increasePosition", TRUE,
            [ticker |-> ask.ticker, side |-> position.side, collateral |-> ask.collateral,
             collateralRaw |-> ask.collateral, sizeRaw |-> size,
             leverage |-> EffectiveLeverage(ask.collateral, size, Spot),
             slippagePercent |-> Slippage(ask), positionId |-> ask.positionId,
             acceptablePriceRaw |-> bound]),
        request |-> [kind |-> "increasePosition", accountId |-> AccountId,
             ticker |-> ask.ticker, positionId |-> ask.positionId,
             collateralAmount |-> ask.collateral, size |-> size, acceptablePrice |-> bound]]

PlanAddMargin(ask) ==
    [intent |-> Intent("addMargin", FALSE,
        [ticker |-> ask.ticker, positionId |-> ask.positionId, collateralRaw |-> ask.amount]),
     request |-> [kind |-> "depositMargin", accountId |-> AccountId, ticker |-> ask.ticker,
        positionId |-> ask.positionId, collateralAmount |-> ask.amount]]

(* Leverage after the withdrawal; none is left to divide by when it takes  *)
(* everything.                                                             *)
PlanRemoveMargin(ask) ==
    [intent |-> Intent("removeMargin", TRUE,
        [ticker |-> ask.ticker, collateral |-> ask.amount, collateralRaw |-> ask.amount,
         leverage |-> EffectiveLeverage(PositionOf(ask).collateral - ask.amount,
                                        PositionOf(ask).notional, 1),
         positionId |-> ask.positionId]),
     request |-> [kind |-> "withdrawMargin", accountId |-> AccountId, ticker |-> ask.ticker,
        positionId |-> ask.positionId, amount |-> ask.amount]]

PlanPlaceLimitOrder(ask) ==
    LET size == OrderSize(ask, ask.triggerPrice)
        legs == BracketLegs(ask, ask.isLong)
        position == Or(ask, "linkedPositionId", Undefined)
    IN [intent |-> Intent("placeLimitOrder", ~Or(ask, "reduceOnly", FALSE),
            [ticker |-> ask.ticker, side |-> Side(ask.isLong), collateral |-> ask.collateral,
             collateralRaw |-> ask.collateral, sizeRaw |-> size,
             triggerPriceRaw |-> ask.triggerPrice,
             leverage |-> EffectiveLeverage(ask.collateral, size, ask.triggerPrice),
             legs |-> legs, isStopOrder |-> Or(ask, "isStopOrder", FALSE),
             reduceOnly |-> Or(ask, "reduceOnly", FALSE), positionId |-> position]),
        request |-> [kind |-> "limitOrder", accountId |-> AccountId, ticker |-> ask.ticker,
             isLong |-> ask.isLong, collateralAmount |-> ask.collateral, size |-> size,
             triggerPrice |-> ask.triggerPrice, isStopOrder |-> Or(ask, "isStopOrder", FALSE),
             reduceOnly |-> Or(ask, "reduceOnly", FALSE), linkedPositionId |-> position,
             preOrders |-> legs]]

PlanPlaceTpSl(ask) ==
    LET position == PositionOf(ask)
        size == Or(ask, "size", position.sizeInAsset)
        legs == BracketLegs(ask, position.side = "long")
    IN [intent |-> Intent("placeTpSl", FALSE,
            [ticker |-> ask.ticker, reduceOnly |-> TRUE, positionId |-> ask.positionId,
             sizeRaw |-> size, legs |-> legs]),
        request |-> [kind |-> "placeTpSl", accountId |-> AccountId, ticker |-> ask.ticker,
             isLong |-> position.side = "long", size |-> size,
             linkedPositionId |-> ask.positionId,
             takeProfitPrice |-> Or(ask, "takeProfit", Undefined),
             stopLossPrice |-> Or(ask, "stopLoss", Undefined)]]

UpdatedLeverage_OfTheOldSize(order, ask) ==
    EffectiveLeverage(order.collateral, order.sizeInAsset, ask.newTriggerPrice)

(* The new size is what the ceilings must judge, not the old one.         *)
UpdatedLeverage(order, ask) ==
    EffectiveLeverage(order.collateral, ask.newSize, ask.newTriggerPrice)

PlanUpdateOrder(ask) ==
    LET order == OrderOf(ask)
    IN [intent |-> Intent("updateOrder", ~order.reduceOnly,
            [ticker |-> ask.ticker, side |-> order.side, collateral |-> order.collateral,
             leverage |-> UpdatedLeverage(order, ask),
             orderId |-> ask.orderId, sizeRaw |-> ask.newSize,
             triggerPriceRaw |-> ask.newTriggerPrice]),
        request |-> [kind |-> "updateOrder", accountId |-> AccountId, ticker |-> ask.ticker,
             orderId |-> ask.orderId, currentTriggerPrice |-> order.triggerPrice,
             orderTypeTag |-> order.orderTypeTag, newTriggerPrice |-> ask.newTriggerPrice,
             newSize |-> ask.newSize]]

PlanCancelOrder(ask) ==
    [intent |-> Intent("cancelOrder", FALSE, [ticker |-> ask.ticker, orderId |-> ask.orderId]),
     request |-> [kind |-> "cancelOrder", accountId |-> AccountId, ticker |-> ask.ticker,
        orderId |-> ask.orderId]]

-----------------------------------------------------------------------------
(* Accounts, funds and authority.                                         *)

PlanCreateAccount(ask) ==
    [intent |-> [Intent("createAccount", FALSE, [alias |-> ask.name])
                    EXCEPT !.accountId = Undefined],
     request |-> [kind |-> "createAccount", name |-> ask.name]]

PlanDeposit(ask) ==
    [intent |-> Intent("deposit", FALSE,
        [movesFundsIn |-> TRUE, collateralRaw |-> ask.amount, assetType |-> ask.assetType]),
     request |-> [kind |-> "deposit", accountId |-> AccountId, assetType |-> ask.assetType,
        amount |-> ask.amount]]

PlanWithdraw(ask) ==
    [intent |-> Intent("withdraw", FALSE,
        [collateralRaw |-> ask.amount, recipient |-> Or(ask, "toAddress", OwnerAddress),
         assetType |-> ask.assetType]),
     request |-> [kind |-> "withdraw", accountId |-> AccountId, route |-> "native",
        assetType |-> ask.assetType, amount |-> ask.amount,
        toAddress |-> Or(ask, "toAddress", Undefined)]]

Permissions(ask) ==
    [perp    |-> Or(ask, "perpPermissions", PermAllTrading),
     predict |-> Or(ask, "predictPermissions", {}),
     staking |-> Or(ask, "stakingPermissions", {})]

PlanAddDelegate(ask) ==
    [intent |-> Intent("addDelegate", FALSE,
        [delegateAddress |-> ask.delegate, delegatePermissions |-> Permissions(ask),
         delegateBasePermissions |-> 0]),
     request |-> [kind |-> "addDelegate", accountId |-> AccountId, delegate |-> ask.delegate,
        permissions |-> Permissions(ask)]]

PlanRemoveDelegate(ask) ==
    [intent |-> Intent("removeDelegate", FALSE, [delegateAddress |-> ask.delegate]),
     request |-> [kind |-> "removeDelegate", accountId |-> AccountId, delegate |-> ask.delegate]]

PlanRemoveAllDelegates(ask) ==
    [intent |-> Intent("removeAllDelegates", FALSE, <<>>),
     request |-> [kind |-> "removeAllDelegates"]]

-----------------------------------------------------------------------------
(* The liquidity pool.                                                    *)

PlanMintWlp(ask) ==
    [intent |-> Intent("mintWlp", TRUE,
        [collateral |-> ask.amount, collateralRaw |-> ask.amount]),
     request |-> [kind |-> "mintWlp", accountId |-> AccountId, amount |-> ask.amount]]

PlanBurnWlp(ask) ==
    [intent |-> Intent("burnWlp", FALSE, [amountRaw |-> ask.amount]),
     request |-> [kind |-> "burnWlp", accountId |-> AccountId, amount |-> ask.amount]]

PlanCancelWlpBurn(ask) ==
    [intent |-> Intent("cancelWlpBurn", FALSE, [requestId |-> ask.requestId]),
     request |-> [kind |-> "cancelWlpBurn", accountId |-> AccountId,
        requestId |-> ask.requestId]]

PlanClaimWlpRewards(ask) ==
    [intent |-> Intent("claimWlpRewards", FALSE, <<>>),
     request |-> [kind |-> "claimWlpRewards", accountId |-> AccountId]]

-----------------------------------------------------------------------------
(* Whether a plan method returns, and what.                               *)

OwnerOnly == {"createAccount", "deposit", "withdraw", "addDelegate",
              "removeDelegate", "removeAllDelegates"}

CanPlan(ask, delegated) ==
    /\ ask.op \in OwnerOnly => ~delegated
    /\ ask.op \in {"close", "reduce", "increase", "removeMargin", "placeTpSl"} =>
           HasPosition(ask)
    /\ ask.op \in {"update", "cancel"} => HasOrder(ask)
    /\ ask.op \in {"open", "increase"} => CanSize(ask, Spot)
    /\ ask.op = "limit" => CanSize(ask, ask.triggerPrice)
    /\ ask.op \in {"open", "increase", "close", "reduce"} => CanBound(Slippage(ask))
    /\ ask.op = "reduce" => CanReduce(ask)
    /\ ask.op \in {"open", "limit"} => BracketInOrder(ask, ask.isLong)
    /\ ask.op = "placeTpSl" =>
           /\ Given(ask, "takeProfit") \/ Given(ask, "stopLoss")
           /\ BracketInOrder(ask, PositionOf(ask).side = "long")
    /\ ask.op = "limit" =>
           NotCrossing(ask.isLong, ask.triggerPrice, Or(ask, "isStopOrder", FALSE),
                       Or(ask, "reduceOnly", FALSE))
    /\ ask.op = "update" =>
           NotCrossing(OrderOf(ask).side = "long", ask.newTriggerPrice,
                       OrderOf(ask).orderType = "stop-loss", OrderOf(ask).reduceOnly)

Plan(ask) ==
    CASE ask.op = "open" -> PlanOpenPosition(ask)
      [] ask.op = "close" -> PlanClosePosition(ask)
      [] ask.op = "reduce" -> PlanReducePosition(ask)
      [] ask.op = "increase" -> PlanIncreasePosition(ask)
      [] ask.op = "addMargin" -> PlanAddMargin(ask)
      [] ask.op = "removeMargin" -> PlanRemoveMargin(ask)
      [] ask.op = "limit" -> PlanPlaceLimitOrder(ask)
      [] ask.op = "placeTpSl" -> PlanPlaceTpSl(ask)
      [] ask.op = "update" -> PlanUpdateOrder(ask)
      [] ask.op = "cancel" -> PlanCancelOrder(ask)
      [] ask.op = "createAccount" -> PlanCreateAccount(ask)
      [] ask.op = "deposit" -> PlanDeposit(ask)
      [] ask.op = "withdraw" -> PlanWithdraw(ask)
      [] ask.op = "addDelegate" -> PlanAddDelegate(ask)
      [] ask.op = "removeDelegate" -> PlanRemoveDelegate(ask)
      [] ask.op = "removeAllDelegates" -> PlanRemoveAllDelegates(ask)
      [] ask.op = "mintWlp" -> PlanMintWlp(ask)
      [] ask.op = "burnWlp" -> PlanBurnWlp(ask)
      [] ask.op = "cancelWlpBurn" -> PlanCancelWlpBurn(ask)
      [] ask.op = "claimWlpRewards" -> PlanClaimWlpRewards(ask)
=============================================================================
