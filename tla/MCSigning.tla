----------------------------- MODULE MCSigning -----------------------------
(* Instances of Signing for TLC: one account, two markets, every action.  *)
EXTENDS Signing

Usdc == Type("usdc", "usdc::USDC")

(* An entry, and two legs of position 1: one reported with collateral, one  *)
(* with the zero it was placed with.                                       *)
Resting == [ticker |-> "BTC", id |-> 9, side |-> "long", collateral |-> 200, triggerPrice |-> 90,
            orderTypeTag |-> 0, orderType |-> "limit", reduceOnly |-> FALSE,
            sizeInAsset |-> 6, linkedPositionId |-> Undefined]

ALeg(id, collateral) ==
    [Resting EXCEPT !.id = id, !.side = "short", !.collateral = collateral,
                    !.reduceOnly = TRUE, !.orderType = "stop-loss", !.sizeInAsset = 12,
                    !.linkedPositionId = 1]

TheOrders == {Resting, ALeg(10, 400), ALeg(11, 0)}

(* The same id in two markets, one long and one short.                    *)
ThePositions ==
    {[ticker |-> "BTC", id |-> 1, side |-> "long", sizeInAsset |-> 10, collateral |-> 500,
      notional |-> 1000],
     [ticker |-> "ETH", id |-> 1, side |-> "short", sizeInAsset |-> 4, collateral |-> 100,
      notional |-> 400]}

(* As asked; and, for what waits in the queue, later and at other prices.  *)
Market(spot, now) ==
    [spot |-> spot, positions |-> ThePositions, orders |-> TheOrders, now |-> now]

TheMarkets == {Market(100, 1), Market(90, 2), Market(110, 2)}

Openings ==
    {[op |-> "open", ticker |-> "BTC", isLong |-> TRUE, collateral |-> 200, leverage |-> 3],
     [op |-> "open", ticker |-> "BTC", isLong |-> FALSE, collateral |-> 200, size |-> 4,
      takeProfit |-> 80],
     [op |-> "open", ticker |-> "BTC", isLong |-> TRUE, collateral |-> 200, leverage |-> 3,
      takeProfit |-> 120, stopLoss |-> 90],
     [op |-> "limit", ticker |-> "BTC", isLong |-> TRUE, collateral |-> 200, leverage |-> 3,
      triggerPrice |-> 90, stopLoss |-> 80],
     [op |-> "limit", ticker |-> "BTC", isLong |-> FALSE, collateral |-> 200, size |-> 2,
      triggerPrice |-> 90, isStopOrder |-> TRUE],
     [op |-> "limit", ticker |-> "BTC", isLong |-> FALSE, collateral |-> 200, size |-> 2,
      triggerPrice |-> 120, reduceOnly |-> TRUE, linkedPositionId |-> 1],
     [op |-> "limit", ticker |-> "BTC", isLong |-> FALSE, collateral |-> 200, size |-> 2,
      triggerPrice |-> 120, reduceOnly |-> TRUE, takeProfit |-> 80]}

OnPositions ==
    {[op |-> "close", ticker |-> t, positionId |-> 1] : t \in {"BTC", "ETH"}}
    \cup {[op |-> "reduce", ticker |-> "BTC", positionId |-> 1, percent |-> 50, slippagePercent |-> 3],
          [op |-> "increase", ticker |-> "ETH", positionId |-> 1, collateral |-> 100,
           leverage |-> 2],
          [op |-> "addMargin", ticker |-> "BTC", positionId |-> 1, amount |-> 50],
          [op |-> "removeMargin", ticker |-> "BTC", positionId |-> 1, amount |-> 50],
          [op |-> "removeMargin", ticker |-> "BTC", positionId |-> 1, amount |-> 500],
          [op |-> "placeTpSl", ticker |-> "ETH", positionId |-> 1, takeProfit |-> 80,
           stopLoss |-> 120],
          [op |-> "placeTpSl", ticker |-> "BTC", positionId |-> 1, stopLoss |-> 90]}

OnOrders ==
    {[op |-> "cancel", ticker |-> "BTC", orderId |-> 9],
     [op |-> "update", ticker |-> "BTC", orderId |-> 9, newTriggerPrice |-> 95, newSize |-> 3],
     [op |-> "update", ticker |-> "BTC", orderId |-> 9, newTriggerPrice |-> 95, newSize |-> 9],
     [op |-> "update", ticker |-> "BTC", orderId |-> 11, newTriggerPrice |-> 90, newSize |-> 10]}

OnAccount ==
    {[op |-> "createAccount", name |-> "main"],
     [op |-> "deposit", assetType |-> Usdc, amount |-> 5],
     [op |-> "withdraw", assetType |-> Usdc, amount |-> 5],
     [op |-> "withdraw", assetType |-> Usdc, amount |-> 5, toAddress |-> "cold"],
     [op |-> "addDelegate", delegate |-> "bot"],
     [op |-> "addDelegate", delegate |-> "bot", perpPermissions |-> {"open"},
      stakingPermissions |-> {"claim"}],
     [op |-> "removeDelegate", delegate |-> "bot"],
     [op |-> "removeAllDelegates"],
     [op |-> "mintWlp", amount |-> 5], [op |-> "burnWlp", amount |-> 5],
     [op |-> "cancelWlpBurn", requestId |-> 3], [op |-> "claimWlpRewards"]}

(* What waits in the inbox: inside, at and past the ceilings below.       *)
TheQueue ==
    {[kind |-> "open", ticker |-> "BTC", side |-> side, collateral |-> 200, leverage |-> lev,
      slippagePercent |-> 1] : side \in {"long", "short"}, lev \in {2, 3, 4}}
    \cup {[kind |-> "open", ticker |-> "BTC", side |-> "long", collateral |-> 200, size |-> size]
            : size \in {4, 9}}
    \cup {[kind |-> "limit", ticker |-> "BTC", side |-> "long", collateral |-> 200,
           leverage |-> 3, triggerPrice |-> 90, stopLoss |-> 80],
          [kind |-> "limit", ticker |-> "BTC", side |-> "short", collateral |-> 300,
           leverage |-> 2, triggerPrice |-> 120],
          [kind |-> "close", ticker |-> "ETH", positionId |-> 1, slippagePercent |-> 1],
          [kind |-> "reduce", ticker |-> "BTC", positionId |-> 1, percent |-> 50],
          [kind |-> "increase", ticker |-> "ETH", positionId |-> 1, collateral |-> 100,
           leverage |-> 4, size |-> 1, slippagePercent |-> 1],
          [kind |-> "add-margin", ticker |-> "BTC", positionId |-> 1, amount |-> 300],
          [kind |-> "remove-margin", ticker |-> "BTC", positionId |-> 1, amount |-> 100],
          [kind |-> "remove-margin", ticker |-> "BTC", positionId |-> 1, amount |-> 300],
          [kind |-> "cancel", ticker |-> "BTC", orderId |-> 9],
          [kind |-> "fit-stop", ticker |-> "BTC", positionId |-> 1, orderId |-> 10],
          [kind |-> "fit-stop", ticker |-> "BTC", positionId |-> 1, orderId |-> 11],
          [kind |-> "wlp-mint", amount |-> 5], [kind |-> "wlp-mint", amount |-> 300],
          [kind |-> "wlp-burn", amount |-> 300],
          [kind |-> "wlp-cancel-burn", requestId |-> 3], [kind |-> "wlp-claim"]}

TheAsks == Openings \cup OnPositions \cup OnOrders \cup OnAccount

(* Delegates of this account only, and of another one as well.            *)
OwnDelegates == {<<"acc", "bot">>, <<"acc", "bot2">>}

AllDelegates == OwnDelegates \cup {<<"acc2", "bot">>}

-----------------------------------------------------------------------------
Published == {"waterx_perp", "waterx_account", "withdrawal_queue", "bucket_framework",
              "native_custody", "waterx_staking", "waterx_prediction", "usd_credit", "wlp"}

Roles == {"perp.global_config", "account.registry", "perp.market_registry_wlp", "wlp.pool",
          "wlp.aum", "oracle.oracle", "custody.vault", "credit.registry",
          "withdrawal_queue.queue", "staking.pool"}

Usual == [signer |-> OwnerAddress, mode |-> "interactive", scope |-> Undefined, damage |-> 1]

Known(packages, uncaptured, allowed, exceptions) ==
    [deployment |-> [packages |-> packages, objects |-> Roles, coins |-> {"usdc"}],
     uncaptured |-> uncaptured, allowUnconfirmed |-> allowed, exceptions |-> exceptions,
     knownFunctions |-> {[pkg |-> "waterx_oracle", fn |-> "oracle::refresh", params |-> {}]},
     sponsored |-> TRUE] @@ Usual

Whole == Known(Published \cup {"waterx_oracle"}, {}, {}, <<>>)

(* The whole deployment; one whose cancel layout is not captured, accepted *)
(* or not; one whose document does not list the oracle, excepted or not.   *)
OwnerContexts ==
    LET cancel == {"trading::cancel_order_request"}
        Except(unchecked, stands) == <<[pkg |-> Package("waterx_oracle"),
            unchecked |-> unchecked, standsFor |-> stands, fns |-> {}]>>
    IN {[Whole EXCEPT !.damage = 2], [Whole EXCEPT !.uncaptured = cancel],
        [Whole EXCEPT !.uncaptured = cancel, !.allowUnconfirmed = cancel],
        Known(Published, {}, {}, <<>>),
        Known(Published, {}, {}, Except(FALSE, "waterx_oracle")),
        Known(Published, {}, {}, Except(TRUE, Undefined))}

Scope(markets, sides, notAfter) ==
    [accounts |-> {AccountId}, markets |-> markets, sides |-> sides, notAfter |-> notAfter,
     maxCollateralPerOrder |-> 200, maxOpenCollateral |-> 10000,
     maxCumulativeCollateral |-> 10000, maxLeverage |-> 3, maxSlippagePercent |-> 1]

(* A delegate that trades unattended, within each of these scopes.        *)
DelegateContexts ==
    {[Whole EXCEPT !.signer = "bot", !.mode = "delegated-auto", !.scope = scope] :
        scope \in {Scope(Undefined, Undefined, 2), Scope({"BTC"}, {"long"}, 2),
                   Scope({"ETH"}, Undefined, 2), Scope(Undefined, Undefined, 1)}}

TheContexts == OwnerContexts \cup DelegateContexts
=============================================================================
