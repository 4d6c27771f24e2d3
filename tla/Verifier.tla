------------------------------ MODULE Verifier ------------------------------
(***************************************************************************)
(* The byte verifier: whether a transaction the backend composed is the    *)
(* one an intent authorizes.  It reads nothing but the bytes, the intent   *)
(* and what the deployment publishes, immediately before the signature.    *)
(* Source: src/src/chain/verify.ts, abi.generated.ts and the exceptions of *)
(* src/src/chain/deployment.ts.                                            *)
(*                                                                         *)
(* Abstractions: a package is its name and whether the id is the current   *)
(* or the original one; a shared object is named by its role; an argument  *)
(* is found by its parameter, so a call of the wrong arity is one whose    *)
(* parameters are not the declared ones; bytes that do not decode as the   *)
(* declared type are Unreadable; an `Option` that is none is Undefined.    *)
(* The order of the refusals, which only chooses a message, is left out.   *)
(***************************************************************************)
EXTENDS Naturals, Sequences, FiniteSets, Overlay

CONSTANTS
    Undefined,   \* absent
    Unreadable   \* a pure argument that does not decode

Package(name) == <<name, "current">>

(* A type of a package; `over` is the parameter of a generic one.         *)
Type(name, type) == [pkg |-> Package(name), type |-> type, over |-> Undefined]

PackagesIn(type) ==
    {type.pkg} \cup (IF type.over = Undefined THEN {} ELSE {type.over.pkg})

-----------------------------------------------------------------------------
(* What the deployment publishes.                                         *)

Framework == {"0x1", "0x2", "0x3"}

Callable(deployment) == {Package(name) : name \in deployment.packages \cup Framework}

Typeable(deployment) ==
    Callable(deployment) \cup {<<name, "original">> : name \in deployment.packages}
                         \cup {Package(name) : name \in deployment.coins}

IdsFor(deployment, name) ==
    IF name \in deployment.packages THEN {<<name, "current">>, <<name, "original">>} ELSE {}

(* A call outside the deployment, accepted because the operator said so.   *)
Covers(exception, call) ==
    /\ exception.pkg = call.pkg
    /\ exception.unchecked \/ exception.standsFor # Undefined
    /\ exception.unchecked \/ exception.fns = {} \/ call.fn \in exception.fns

-----------------------------------------------------------------------------
(* The signatures the SDK generates, as the checks use them: the package   *)
(* that publishes each function, and its optional parameters.              *)

Perp == {"trading::place_order_request", "trading::close_position_request",
         "trading::decrease_position_request", "trading::increase_position_request",
         "trading::deposit_collateral_request", "trading::withdraw_collateral_request",
         "trading::cancel_order_request", "trading::update_order_request",
         "lp_pool::mint_wlp", "lp_pool::request_redeem", "lp_pool::cancel_redeem",
         "request::new_place_order_argument"}

Account == {"account::request_withdraw", "account::create_account", "account::add_delegate",
            "account::remove_delegate", "account::set_delegate_protocol_permission"}

Queue == {"withdrawal_queue::route_native", "withdrawal_queue::route_wormhole",
          "withdrawal_queue::enqueue"}

AbiPackage(fn) ==
    CASE fn \in Perp -> "waterx_perp"
      [] fn \in Account -> "waterx_account"
      [] fn \in Queue -> "withdrawal_queue"
      [] fn = "account::request" -> "bucket_framework"
      [] fn = "custody_vault::mint" -> "native_custody"
      [] fn = "waterx_staking::claim" -> "waterx_staking"
      [] OTHER -> Undefined

Optional(fn) ==
    CASE fn = "trading::increase_position_request" -> {"orderId"}
      [] fn = "account::add_delegate" -> {"expiresAtMs"}
      [] fn = "request::new_place_order_argument" ->
            {"triggerPrice", "linkedPositionId", "acceptablePrice"}
      [] OTHER -> {}

-----------------------------------------------------------------------------
(* What constrains each argument.                                         *)

Field(name) == [by |-> "field", of |-> name]
Obj(role) == [by |-> "object", of |-> role]
ProducedBy(fn) == [by |-> "produced", of |-> fn]
VectorOf(fn) == [by |-> "vector", of |-> fn]
Mask == [by |-> "mask", of |-> "delegatePermissions"]
Free == [by |-> "free", of |-> "nothing"]

(* Parameters bound to the intent field of their own name.                *)
Same(names) == [name \in names |-> Field(name)]

SenderRequest == ProducedBy("account::request")
OrderArgument == "request::new_place_order_argument"

TradingRequest ==
    [globalConfig   |-> Obj("perp.global_config"),
     wxaRegistry    |-> Obj("account.registry"),
     marketRegistry |-> Obj("perp.market_registry_wlp"),
     senderRequest  |-> SenderRequest] @@ Same({"ticker", "accountId"})

PoolRequest ==
    [pool |-> Obj("wlp.pool"), globalConfig |-> Obj("perp.global_config"),
     wxaRegistry |-> Obj("account.registry"), senderRequest |-> SenderRequest]

AccountRequest == [registry |-> Obj("account.registry"), senderRequest |-> SenderRequest]

(* The functions an action is defined by or rides with.                   *)
Sensitive ==
    (Perp \ {OrderArgument}) \cup Account \cup Queue
        \cup {"waterx_staking::claim", "custody_vault::mint"}

(* Every parameter of each of them; a test holds the table to the ABI's    *)
(* parameters.                                                             *)
Bindings ==
    [fn \in Sensitive |->
        CASE fn = "trading::place_order_request" ->
                [main |-> ProducedBy(OrderArgument), preOrder |-> VectorOf(OrderArgument)]
                    @@ TradingRequest
          [] fn = "trading::close_position_request" ->
                [acceptablePrice |-> Field("acceptablePriceRaw")] @@ Same({"positionId"})
                    @@ TradingRequest
          [] fn = "trading::decrease_position_request" ->
                [size |-> Field("sizeRaw"), acceptablePrice |-> Field("acceptablePriceRaw")]
                    @@ Same({"positionId"}) @@ TradingRequest
          [] fn = "trading::increase_position_request" ->
                [collateralAmount |-> Field("collateralRaw"), size |-> Field("sizeRaw"),
                 acceptablePrice |-> Field("acceptablePriceRaw")]
                    @@ Same({"orderId", "positionId"}) @@ TradingRequest
          [] fn = "trading::deposit_collateral_request" ->
                [collateralAmount |-> Field("collateralRaw")] @@ Same({"positionId"})
                    @@ TradingRequest
          [] fn = "trading::withdraw_collateral_request" ->
                [amount |-> Field("collateralRaw")] @@ Same({"positionId"}) @@ TradingRequest
          [] fn = "trading::cancel_order_request" ->
                [triggerPrice |-> Free, orderTypeTag |-> Free] @@ Same({"orderId"})
                    @@ TradingRequest
          [] fn = "trading::update_order_request" ->
                [currentTriggerPrice |-> Free, orderTypeTag |-> Free,
                 newSize |-> Field("sizeRaw"), newTriggerPrice |-> Field("triggerPriceRaw")]
                    @@ Same({"orderId"}) @@ TradingRequest
          [] fn = "lp_pool::mint_wlp" ->
                [aum |-> Obj("wlp.aum"), oracle |-> Obj("oracle.oracle"), minLpAmount |-> Free,
                 depositAmount |-> Field("collateralRaw")] @@ Same({"accountId"}) @@ PoolRequest
          [] fn = "lp_pool::request_redeem" ->
                [lpAmount |-> Field("amountRaw")] @@ Same({"accountId"}) @@ PoolRequest
          [] fn = "lp_pool::cancel_redeem" -> Same({"requestId"}) @@ PoolRequest
          [] fn = "waterx_staking::claim" ->
                [self |-> Free, request |-> Free, wxaRegistry |-> Obj("account.registry")]
                    @@ Same({"accountId"})
          [] fn = "custody_vault::mint" ->
                [vault |-> Obj("custody.vault"), registry |-> Obj("credit.registry"),
                 accountRegistry |-> Obj("account.registry"),
                 assetCoin |-> ProducedBy("coin::redeem_funds"), extraData |-> Free]
                    @@ Same({"accountId"})
          [] fn = "account::request_withdraw" ->
                [amount |-> Field("collateralRaw"),
                 extraData |-> ProducedBy("withdrawal_queue::route_native")]
                    @@ Same({"accountId", "recipient"}) @@ AccountRequest
          [] fn = "account::create_account" -> Same({"alias"}) @@ AccountRequest
          [] fn = "account::add_delegate" ->
                [alias |-> Free, permissions |-> Field("delegateBasePermissions"),
                 expiresAtMs |-> Field("delegateExpiresAtMs")]
                    @@ Same({"accountId", "delegateAddress"}) @@ AccountRequest
          [] fn = "account::remove_delegate" ->
                Same({"accountId", "delegateAddress"}) @@ AccountRequest
          [] fn = "account::set_delegate_protocol_permission" ->
                [permissions |-> Mask] @@ Same({"accountId", "delegateAddress"})
                    @@ AccountRequest
          [] fn = "withdrawal_queue::route_native" -> [minOutput |-> Free]
          [] fn = "withdrawal_queue::route_wormhole" ->
                [evmDestinationChain |-> Free, evmRecipient |-> Free, evmToken |-> Free]
          [] fn = "withdrawal_queue::enqueue" ->
                [queue |-> Obj("withdrawal_queue.queue"), registry |-> Obj("account.registry"),
                 req |-> ProducedBy("account::request_withdraw")]]

OrderArgBindings ==
    [isLong |-> Field("side"), size |-> Field("sizeRaw"),
     triggerPrice |-> Field("triggerPriceRaw"), linkedPositionId |-> Field("positionId"),
     acceptablePrice |-> Field("acceptablePriceRaw"),
     collateralAmount |-> Field("collateralRaw")] @@ Same({"isStopOrder", "reduceOnly"})

-----------------------------------------------------------------------------
(* Types with a role, types that carry a choice, and protocol slots.      *)

Usd == [pkg |-> "usd_credit", type |-> "usd::USD"]
Wlp == [pkg |-> "wlp", type |-> "wlp::WLP"]

TypeRoles(fn) ==
    CASE fn \in {"lp_pool::mint_wlp", "lp_pool::request_redeem", "lp_pool::cancel_redeem"} ->
            <<Wlp, Usd>>
      [] fn \in Perp \ {OrderArgument} -> <<Usd, Wlp>>
      [] fn \in {"account::request_withdraw", "withdrawal_queue::enqueue"} -> <<Usd>>
      [] OTHER -> <<>>

TypeBindings(fn) ==
    IF fn \in {"withdrawal_queue::route_native", "custody_vault::mint"}
    THEN <<"assetType">> ELSE <<>>

IsDeploymentType(type, role, deployment) ==
    /\ type.over = Undefined
    /\ type.type = role.type
    /\ type.pkg \in IdsFor(deployment, role.pkg)

ProtocolSlots ==
    {[pkg |-> "waterx_perp", type |-> "account_data::WaterXPerp", over |-> Undefined,
      protocol |-> "perp", enforced |-> TRUE],
     [pkg |-> "waterx_perp", type |-> "request::TradingRequest", over |-> Usd,
      protocol |-> "perp", enforced |-> FALSE],
     [pkg |-> "waterx_prediction", type |-> "account_data::WaterXPrediction",
      over |-> Undefined, protocol |-> "predict", enforced |-> TRUE],
     [pkg |-> "waterx_staking", type |-> "witness::WaterXStaking", over |-> Undefined,
      protocol |-> "staking", enforced |-> TRUE]}

(* The slots a type argument names: one, or none.                         *)
SlotsOf(type, deployment) ==
    {slot \in ProtocolSlots :
        /\ type.type = slot.type
        /\ type.pkg \in IdsFor(deployment, slot.pkg)
        /\ IF slot.over = Undefined THEN type.over = Undefined
           ELSE type.over # Undefined /\ IsDeploymentType(type.over, slot.over, deployment)}

-----------------------------------------------------------------------------
(* What makes a transaction be an action.                                 *)

Rule(entrypoint) ==
    [entrypoint |-> entrypoint, many |-> FALSE, companions |-> {}, overrides |-> <<>>,
     grants |-> FALSE]

Actions ==
    {"openLong", "openShort", "placeLimitOrder", "placeTpSl", "closePosition",
     "reducePosition", "increasePosition", "addMargin", "removeMargin", "cancelOrder",
     "updateOrder", "mintWlp", "burnWlp", "cancelWlpBurn", "claimWlpRewards", "deposit",
     "withdraw", "createAccount", "addDelegate", "removeDelegate", "removeAllDelegates"}

ActionRules ==
    [action \in Actions |->
        CASE action \in {"openLong", "openShort", "placeLimitOrder"} ->
                Rule("trading::place_order_request")
          [] action = "placeTpSl" ->
                [Rule("trading::place_order_request") EXCEPT !.many = TRUE]
          [] action = "closePosition" -> Rule("trading::close_position_request")
          [] action = "reducePosition" -> Rule("trading::decrease_position_request")
          [] action = "increasePosition" -> Rule("trading::increase_position_request")
          [] action = "addMargin" -> Rule("trading::deposit_collateral_request")
          [] action = "removeMargin" -> Rule("trading::withdraw_collateral_request")
          [] action = "cancelOrder" -> Rule("trading::cancel_order_request")
          [] action = "updateOrder" -> Rule("trading::update_order_request")
          [] action = "mintWlp" -> Rule("lp_pool::mint_wlp")
          [] action = "burnWlp" -> Rule("lp_pool::request_redeem")
          [] action = "cancelWlpBurn" -> Rule("lp_pool::cancel_redeem")
          [] action = "claimWlpRewards" -> Rule("waterx_staking::claim")
          [] action = "deposit" -> Rule("custody_vault::mint")
          [] action = "withdraw" -> [Rule("account::request_withdraw") EXCEPT !.companions =
                {"withdrawal_queue::route_native", "withdrawal_queue::enqueue"}]
          [] action = "createAccount" -> Rule("account::create_account")
          [] action = "addDelegate" -> [Rule("account::add_delegate") EXCEPT !.grants = TRUE,
                !.companions = {"account::set_delegate_protocol_permission"}]
          [] action = "removeDelegate" -> Rule("account::remove_delegate")
          [] action = "removeAllDelegates" ->
                [Rule("account::remove_delegate") EXCEPT !.many = TRUE,
                    !.overrides = [delegateAddress |-> Free]]]

(* The actions that only ever unwind: no ceiling may refuse one.          *)
Exits == {"closePosition", "reducePosition", "addMargin", "cancelOrder", "placeTpSl",
          "burnWlp", "removeDelegate", "removeAllDelegates", "withdraw"}

NeedsAWayBack == [action \in {"placeLimitOrder", "placeTpSl"} |-> "trading::cancel_order_request"]

LayoutConfirmed_OneWay(intent, context) ==
    intent.action \in DOMAIN ActionRules =>
        ActionRules[intent.action].entrypoint
            \notin context.uncaptured \ context.allowUnconfirmed

(* Layouts never seen from this deployment, unless the operator accepts    *)
(* them: the action's own, and that of the call that takes it back.        *)
LayoutConfirmed(intent, context) ==
    LET unconfirmed == context.uncaptured \ context.allowUnconfirmed
    IN /\ intent.action \in DOMAIN NeedsAWayBack =>
              NeedsAWayBack[intent.action] \notin unconfirmed
       /\ intent.action \in DOMAIN ActionRules =>
              ActionRules[intent.action].entrypoint \notin unconfirmed

-----------------------------------------------------------------------------
(* Reading the transaction.                                               *)

Calls(tx) == {i \in DOMAIN tx.commands : tx.commands[i].kind = "MoveCall"}

CallsOf(tx, fns) == {i \in Calls(tx) : tx.commands[i].fn \in fns}

Read(argument) == IF argument.is = "pure" THEN argument.v ELSE Unreadable

(* The commands whose results a command is handed; a result of no command  *)
(* is not followed.                                                        *)
Sources(tx, i) ==
    {j \in DOMAIN tx.commands : \E p \in DOMAIN tx.commands[i].args :
        tx.commands[i].args[p].is = "result" /\ tx.commands[i].args[p].of = j}

(* The commands whose results reach each command, itself included; a       *)
(* result is always that of an earlier command.                            *)
ReachableFrom(tx) ==
    LET reach[i \in DOMAIN tx.commands] ==
            {i} \cup UNION {reach[j] : j \in Sources(tx, i)}
    IN reach

Constructors(tx, from) ==
    {i \in ReachableFrom(tx)[from] \cap CallsOf(tx, {OrderArgument}) :
        tx.commands[i].pkg = Package(AbiPackage(OrderArgument))}

(* Names, package and side do not matter: an absent account is "".         *)
Authorized(intent, field) ==
    IF field = "side" THEN IF intent.side = Undefined THEN Undefined ELSE intent.side = "long"
    ELSE intent[field]

Agrees_UnsaidIsRefused(intent, field, optional, got) ==
    LET want == Authorized(intent, field)
    IN want # Undefined /\ got # Unreadable /\ got = want

(* Said and equal, or unsaid and an optional argument that is absent.     *)
Agrees(intent, field, optional, got) ==
    LET want == Authorized(intent, field)
    IN IF want = Undefined THEN optional /\ got = Undefined
       ELSE got # Unreadable /\ got = want

-----------------------------------------------------------------------------
(* The checks.                                                            *)

AllowedCommands == {"MoveCall", "MakeMoveVec"}

(* A call is the deployment's, or an exception covers it; and the SDK      *)
(* declares it, with these arguments, in the package that the first        *)
(* exception to cover it names.                                            *)
CallIsKnown(call, context) ==
    LET covering == {k \in DOMAIN context.exceptions : Covers(context.exceptions[k], call)}
    IN /\ call.pkg \in Callable(context.deployment) \/ covering # {}
       /\ \A k \in covering :
            (\A j \in covering : k <= j) /\ context.exceptions[k].standsFor # Undefined =>
                [pkg |-> context.exceptions[k].standsFor, fn |-> call.fn,
                 params |-> DOMAIN call.args] \in context.knownFunctions

ShapeIsAllowed(tx, context) ==
    /\ \A i \in DOMAIN tx.commands : tx.commands[i].kind \in AllowedCommands
    /\ \A i \in Calls(tx) :
        /\ CallIsKnown(tx.commands[i], context)
        /\ \A k \in DOMAIN tx.commands[i].types :
              PackagesIn(tx.commands[i].types[k])
                  \subseteq Typeable(context.deployment)
                            \cup {context.exceptions[j].pkg : j \in DOMAIN context.exceptions}
    /\ \A i \in DOMAIN tx.commands : \A p \in DOMAIN tx.commands[i].args :
        LET argument == tx.commands[i].args[p]
        IN /\ argument.is # "owned"
           /\ argument.is = "object" => argument.role \in context.deployment.objects

(* The one input that moves the signer's funds: none, or exactly the one   *)
(* the intent says.                                                        *)
FundsWithdrawalIsRight(tx, intent) ==
    IF intent.movesFundsIn = TRUE
    THEN /\ Len(tx.withdrawals) = 1
         /\ intent.collateralRaw # Undefined /\ intent.assetType # Undefined
         /\ tx.withdrawals[1] = [amount |-> intent.collateralRaw,
                                 asset |-> intent.assetType, from |-> "sender"]
    ELSE tx.withdrawals = <<>>

GasIsRight(tx, signer, sponsored) ==
    tx.payer = Undefined \/ (sponsored <=> tx.payer # signer)

(* The code a call runs, and the types it runs on.                        *)
CodeIsTheDeployments(call, intent, deployment) ==
    /\ AbiPackage(call.fn) \in deployment.packages
    /\ call.pkg = Package(AbiPackage(call.fn))
    /\ \A k \in DOMAIN TypeRoles(call.fn) :
        k \in DOMAIN call.types /\ IsDeploymentType(call.types[k], TypeRoles(call.fn)[k], deployment)
    /\ \A k \in DOMAIN TypeBindings(call.fn) :
        LET want == Authorized(intent, TypeBindings(call.fn)[k])
        IN want # Undefined /\ k \in DOMAIN call.types /\ call.types[k] = want
    /\ \A k \in DOMAIN call.types : PackagesIn(call.types[k]) \subseteq Typeable(deployment)

(* The first result of one function, called where the deployment           *)
(* publishes it.                                                           *)
IsProducedBy(tx, argument, fn, deployment) ==
    /\ argument.is = "result" /\ argument.slot = 0
    /\ argument.of \in CallsOf(tx, {fn})
    /\ tx.commands[argument.of].pkg \in
           (IF AbiPackage(fn) \in deployment.packages THEN {Package(AbiPackage(fn))}
            ELSE Callable(deployment))

IsVectorOf(tx, argument, fn, deployment) ==
    /\ argument.is = "result" /\ argument.slot = 0 /\ argument.of \in DOMAIN tx.commands
    /\ tx.commands[argument.of].kind = "MakeMoveVec"
    /\ \A k \in DOMAIN tx.commands[argument.of].args :
        IsProducedBy(tx, tx.commands[argument.of].args[k], fn, deployment)

IsObject(argument, role, deployment) ==
    role \in deployment.objects /\ argument.is = "object" /\ argument.role = role

(* A grant, within what was authorized for the protocol its type names.   *)
MaskIsWithin(call, argument, intent, deployment) ==
    /\ intent.delegatePermissions # Undefined
    /\ call.types # <<>>
    /\ Read(argument) # Unreadable
    /\ \E slot \in SlotsOf(call.types[1], deployment) :
        Read(argument) \subseteq intent.delegatePermissions[slot.protocol]

ArgumentIsBound(tx, call, param, binding, intent, deployment) ==
    LET argument == call.args[param]
    IN CASE binding.by = "free" -> TRUE
         [] binding.by = "mask" -> MaskIsWithin(call, argument, intent, deployment)
         [] binding.by = "produced" -> IsProducedBy(tx, argument, binding.of, deployment)
         [] binding.by = "object" -> IsObject(argument, binding.of, deployment)
         [] binding.by = "vector" -> IsVectorOf(tx, argument, binding.of, deployment)
         [] OTHER -> Agrees(intent, binding.of, param \in Optional(call.fn), Read(argument))

ArgumentsAreBound(tx, call, intent, deployment, overrides) ==
    /\ DOMAIN call.args = DOMAIN Bindings[call.fn]
    /\ \A param \in DOMAIN call.args :
        ArgumentIsBound(tx, call, param, (overrides @@ Bindings[call.fn])[param],
                        intent, deployment)

(* Each protocol authorized for anything is granted exactly that, once, in *)
(* the slot the contract reads; no enforced slot is written twice.         *)
GrantsReachEnforcedSlots(tx, companions, intent, deployment) ==
    LET Grants(protocol) == {i \in companions : \E slot \in
            SlotsOf(tx.commands[i].types[1], deployment) :
                slot.enforced /\ slot.protocol = protocol}
    IN /\ intent.delegatePermissions # Undefined
       /\ \A protocol \in {"perp", "predict", "staking"} :
            /\ Cardinality(Grants(protocol)) <= 1
            /\ intent.delegatePermissions[protocol] # {} =>
                \E i \in Grants(protocol) : Read(tx.commands[i].args.permissions)
                                                = intent.delegatePermissions[protocol]

-----------------------------------------------------------------------------
(* Orders: their real parameters are a constructor's arguments.           *)

OrderAt(tx, i) == [param \in DOMAIN tx.commands[i].args |-> Read(tx.commands[i].args[param])]

OrderIsReadable(tx, i) ==
    /\ DOMAIN tx.commands[i].args = DOMAIN OrderArgBindings
    /\ \A param \in DOMAIN OrderArgBindings :
        /\ OrderAt(tx, i)[param] # Unreadable
        /\ OrderAt(tx, i)[param] = Undefined => param \in Optional(OrderArgument)

(* A leg commits nothing and only reduces; an action on an open position   *)
(* places nothing but legs.                                                *)
IsLeg(order, intent) ==
    intent.reduceOnly = TRUE \/ (order.collateralAmount = 0 /\ order.reduceOnly)

MainIsBound(order, intent) ==
    \A param \in DOMAIN OrderArgBindings :
        Agrees(intent, OrderArgBindings[param].of, param \in Optional(OrderArgument), order[param])

LegIsBound_AnyPosition(order, intent) ==
    /\ order.reduceOnly /\ order.collateralAmount = 0
    /\ intent.sizeRaw # Undefined => order.size = intent.sizeRaw
    /\ order.acceptablePrice = Undefined

LegIsBound(order, intent) ==
    /\ order.reduceOnly /\ order.collateralAmount = 0
    /\ intent.sizeRaw # Undefined => order.size = intent.sizeRaw
    /\ order.acceptablePrice = Undefined
    /\ order.linkedPositionId =
           (IF intent.reduceOnly = TRUE THEN intent.positionId ELSE Undefined)

Descriptor(order) == [triggerPrice |-> order.triggerPrice, isStopOrder |-> order.isStopOrder,
                      isLong |-> order.isLong]

(* Each leg uses up one authorized descriptor, and none is left over.      *)
LegsAreTheAuthorized(tx, legs, authorized) ==
    /\ Cardinality(legs) = Len(authorized)
    /\ \A leg \in legs :
        LET same == Descriptor(OrderAt(tx, leg[2]))
        IN Cardinality({l \in legs : Descriptor(OrderAt(tx, l[2])) = same})
               <= Cardinality({k \in DOMAIN authorized : authorized[k] = same})

OrdersAreRight(tx, defining, intent) ==
    LET placed == {p \in defining \X Calls(tx) : p[2] \in Constructors(tx, p[1])}
        legs   == {p \in placed : IsLeg(OrderAt(tx, p[2]), intent)}
    IN /\ intent.legs # Undefined
       /\ \A p \in placed : OrderIsReadable(tx, p[2])
       /\ \A p \in placed \ legs : MainIsBound(OrderAt(tx, p[2]), intent)
       /\ \A p \in legs : LegIsBound(OrderAt(tx, p[2]), intent)
       /\ LegsAreTheAuthorized(tx, legs, intent.legs)
       /\ Cardinality(placed \ legs) =
              (IF intent.reduceOnly = TRUE THEN 0 ELSE Cardinality(defining))

-----------------------------------------------------------------------------
(* assertTransactionMatches.  `context` is what the signer knows besides   *)
(* the bytes: the deployment, the captured corpus, the exceptions and who  *)
(* pays for gas.                                                           *)
Matches(tx, intent, signer, context) ==
    /\ ShapeIsAllowed(tx, context)
    /\ FundsWithdrawalIsRight(tx, intent)
    /\ tx.sender \in {Undefined, signer}
    /\ LayoutConfirmed(intent, context)
    /\ GasIsRight(tx, signer, context.sponsored)
    /\ intent.action \in DOMAIN ActionRules
    /\ LET rule       == ActionRules[intent.action]
           defining   == CallsOf(tx, {rule.entrypoint})
           companions == CallsOf(tx, rule.companions)
       IN /\ defining # {}
          /\ CallsOf(tx, Sensitive) \subseteq defining \cup companions
          /\ rule.many \/ Cardinality(defining) = 1
          /\ \A fn \in rule.companions : CallsOf(tx, {fn}) # {}
          /\ \A i \in defining \cup companions :
              /\ CodeIsTheDeployments(tx.commands[i], intent, context.deployment)
              /\ ArgumentsAreBound(tx, tx.commands[i], intent, context.deployment,
                                   rule.overrides)
          /\ rule.grants =>
              GrantsReachEnforcedSlots(tx, companions, intent, context.deployment)
          /\ rule.entrypoint = "trading::place_order_request" =>
              OrdersAreRight(tx, defining, intent)
=============================================================================
