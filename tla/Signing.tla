------------------------------ MODULE Signing ------------------------------
(***************************************************************************)
(* From a request to a signature: a queued intent is admitted, read again  *)
(* when it starts, planned, authorized by the policy gate, composed by the *)
(* backend and verified.  The agent trusts nothing of what is composed and *)
(* signs only what its verifier says is the plan.  Between composition and *)
(* verification anything may have changed in the bytes: that is Damage,    *)
(* one change at a time, up to context.damage of them.                     *)
(* Source: src/src/agent/plan.ts, runner/runner.ts (execute), runner/scope *)
(* and the modules Plans, PolicyGate and Verifier; the composition itself  *)
(* is the backend's, known here by what the verifier and its corpus say it *)
(* emits.                                                                  *)
(***************************************************************************)
EXTENDS Plans, FiniteSets

LOCAL INSTANCE Functions

CONSTANTS
    Unreadable,   \* a pure argument that does not decode
    Asks,         \* what callers ask of the facade themselves
    Queued,       \* what they leave in the runner's inbox
    Markets,      \* what the backend may answer
    Sponsor,      \* who pays for gas
    Stranger,     \* an address that has no part in it
    Delegates,    \* <<account, delegate>> pairs the owner's accounts hold
    Contexts      \* what the signer knows: its address, mode and scope, the
                  \* deployment, the corpus, the exceptions (and `damage`)

INSTANCE Verifier

Gate == INSTANCE PolicyGate

VARIABLES
    queued,    \* the intent the request came from, if it was queued
    admitted,  \* what the scope said of it when it was queued
    ask,       \* what was asked
    context,   \* what the signer knows
    tx,        \* the bytes
    changes,   \* how many changes
    verdict    \* "offered", "queued", "asked", "denied", "composed", "refused"
               \* or "signed"

vars == <<market, queued, admitted, ask, context, tx, changes, verdict>>

-----------------------------------------------------------------------------
(* The backend's composition.                                             *)

Pure(value) == [is |-> "pure", v |-> value]
Shared(role) == [is |-> "object", role |-> role]
Owned(role) == [is |-> "owned", role |-> role]
Result(i) == [is |-> "result", of |-> i, slot |-> 0]

USD == Type("usd_credit", "usd::USD")
WLP == Type("wlp", "wlp::WLP")

Call(fn, types, args) ==
    [kind |-> "MoveCall", fn |-> fn, pkg |-> Package(AbiPackage(fn)), types |-> types,
     args |-> args]

Vector(results) == [kind |-> "MakeMoveVec", fn |-> Undefined, types |-> <<>>,
                    pkg |-> Undefined, args |-> [k \in DOMAIN results |-> Result(results[k])]]

(* The oracle call that precedes a trade: no action is defined by it.     *)
Refresh == [Call("oracle::refresh", <<>>, <<>>) EXCEPT !.pkg = Package("waterx_oracle")]

Handle == Call("account::request", <<>>, <<>>)

RedeemFunds(asset) == [Call("coin::redeem_funds", <<asset>>, <<>>) EXCEPT !.pkg = Package("0x2")]

(* The objects of a call, and the authority handle made by command h.     *)
Standing(fn, h) ==
    [p \in {q \in DOMAIN Bindings[fn] : Bindings[fn][q].by = "object"} |->
        Shared(Bindings[fn][p].of)]
    @@ [p \in {q \in DOMAIN Bindings[fn] : Bindings[fn][q] = SenderRequest} |-> Result(h)]

Operation(fn, types, h, args) == Call(fn, types, args @@ Standing(fn, h))

Trade(fn, request, args) ==
    <<Refresh, Handle,
      Operation(fn, <<USD, WLP>>, 2,
                [ticker |-> Pure(request.ticker), accountId |-> Pure(request.accountId)] @@ args)>>

Order(order) == Call(OrderArgument, <<>>, [p \in DOMAIN order |-> Pure(order[p])])

Leg(leg, size, position) ==
    [isLong |-> leg.isLong, isStopOrder |-> leg.isStopOrder, reduceOnly |-> TRUE,
     size |-> size, triggerPrice |-> leg.triggerPrice, linkedPositionId |-> position,
     acceptablePrice |-> Undefined, collateralAmount |-> 0]

Place(request, main, vector) ==
    Operation("trading::place_order_request", <<USD, WLP>>, 2,
        [ticker |-> Pure(request.ticker), accountId |-> Pure(request.accountId),
         main |-> Result(main), preOrder |-> Result(vector)])

(* One call, fed with the order and its bracket.                          *)
PlaceOrder(request, main) ==
    LET n == Len(request.preOrders)
    IN <<Refresh, Handle, Order(main)>>
       \o [k \in 1 .. n |-> Order(Leg(request.preOrders[k], request.size, Undefined))]
       \o <<Vector([k \in 1 .. n |-> 3 + k]), Place(request, 3, 4 + n)>>

(* One call per leg.                                                      *)
PlaceLegs(request) ==
    LET legs == BracketLegs(
            (IF request.takeProfitPrice = Undefined THEN <<>>
             ELSE [takeProfit |-> request.takeProfitPrice])
            @@ (IF request.stopLossPrice = Undefined THEN <<>>
                ELSE [stopLoss |-> request.stopLossPrice]), request.isLong)
        One(k) == <<Order(Leg(legs[k], request.size, request.linkedPositionId)), Vector(<<>>),
                    Place(request, 3 * k, 3 * k + 1)>>
    IN <<Refresh, Handle>> \o One(1) \o (IF Len(legs) = 2 THEN One(2) ELSE <<>>)

Grant(request, slot, over, mask) ==
    Operation("account::set_delegate_protocol_permission",
        <<[Type(slot.pkg, slot.type) EXCEPT !.over = over]>>, 1,
        [accountId |-> Pure(request.accountId), delegateAddress |-> Pure(request.delegate),
         permissions |-> Pure(mask)])

(* The grant itself, then one call per slot; a perp grant also reaches the *)
(* superseded slot.                                                        *)
AddDelegate(request) ==
    LET Slot(protocol, enforced) == CHOOSE s \in ProtocolSlots :
                                        s.protocol = protocol /\ s.enforced = enforced
    IN <<Handle,
         Operation("account::add_delegate", <<>>, 1,
            [accountId |-> Pure(request.accountId), delegateAddress |-> Pure(request.delegate),
             alias |-> Pure("delegate"), permissions |-> Pure(0),
             expiresAtMs |-> Pure(Undefined)]),
         Grant(request, Slot("perp", TRUE), Undefined, request.permissions.perp),
         Grant(request, Slot("perp", FALSE), USD, request.permissions.perp),
         Grant(request, Slot("predict", TRUE), Undefined, request.permissions.predict),
         Grant(request, Slot("staking", TRUE), Undefined, request.permissions.staking)>>

RemoveDelegate(account, delegate) ==
    Operation("account::remove_delegate", <<>>, 1,
              [accountId |-> Pure(account), delegateAddress |-> Pure(delegate)])

Withdraw(request) ==
    <<Handle,
      Call("withdrawal_queue::route_native", <<request.assetType>>, [minOutput |-> Pure(0)]),
      Operation("account::request_withdraw", <<USD>>, 1,
        [accountId |-> Pure(request.accountId), amount |-> Pure(request.amount),
         recipient |-> Pure(IF request.toAddress = Undefined THEN OwnerAddress
                            ELSE request.toAddress),
         extraData |-> Result(2)]),
      Operation("withdrawal_queue::enqueue", <<USD>>, 1, [req |-> Result(3)])>>

Deposit(request) ==
    <<RedeemFunds(request.assetType),
      Operation("custody_vault::mint", <<request.assetType>>, 1,
        [accountId |-> Pure(request.accountId), assetCoin |-> Result(1),
         extraData |-> Pure("blob")])>>

Pool(fn, args) == <<Handle, Operation(fn, <<WLP, USD>>, 1, args)>>

PurePart(request, names) == [p \in names |-> Pure(request[p])]

Commands(request) ==
    CASE request.kind = "marketOrder" -> PlaceOrder(request,
            [isLong |-> request.isLong, isStopOrder |-> FALSE, reduceOnly |-> FALSE,
             size |-> request.size, triggerPrice |-> Undefined,
             linkedPositionId |-> Undefined, acceptablePrice |-> request.acceptablePrice,
             collateralAmount |-> request.collateralAmount])
      [] request.kind = "limitOrder" -> PlaceOrder(request,
            [isLong |-> request.isLong, isStopOrder |-> request.isStopOrder,
             reduceOnly |-> request.reduceOnly, size |-> request.size,
             triggerPrice |-> request.triggerPrice,
             linkedPositionId |-> request.linkedPositionId, acceptablePrice |-> Undefined,
             collateralAmount |-> request.collateralAmount])
      [] request.kind = "placeTpSl" -> PlaceLegs(request)
      [] request.kind = "closePosition" ->
            Trade("trading::close_position_request", request,
                  PurePart(request, {"positionId", "acceptablePrice"}))
      [] request.kind = "reducePosition" ->
            Trade("trading::decrease_position_request", request,
                  PurePart(request, {"positionId", "size", "acceptablePrice"}))
      [] request.kind = "increasePosition" ->
            Trade("trading::increase_position_request", request,
                  [orderId |-> Pure(Undefined)] @@ PurePart(request,
                      {"positionId", "collateralAmount", "size", "acceptablePrice"}))
      [] request.kind = "depositMargin" ->
            Trade("trading::deposit_collateral_request", request,
                  PurePart(request, {"positionId", "collateralAmount"}))
      [] request.kind = "withdrawMargin" ->
            Trade("trading::withdraw_collateral_request", request,
                  PurePart(request, {"positionId", "amount"}))
      [] request.kind = "cancelOrder" ->
            Trade("trading::cancel_order_request", request,
                  [triggerPrice |-> Pure(Spot), orderTypeTag |-> Pure(0)]
                      @@ PurePart(request, {"orderId"}))
      [] request.kind = "updateOrder" ->
            Trade("trading::update_order_request", request, PurePart(request,
                  {"orderId", "currentTriggerPrice", "orderTypeTag", "newSize",
                   "newTriggerPrice"}))
      [] request.kind = "createAccount" ->
            <<Handle, Operation("account::create_account", <<>>, 1,
                                [alias |-> Pure(request.name)])>>
      [] request.kind = "deposit" -> Deposit(request)
      [] request.kind = "withdraw" -> Withdraw(request)
      [] request.kind = "addDelegate" -> AddDelegate(request)
      [] request.kind = "removeDelegate" ->
            <<Handle, RemoveDelegate(request.accountId, request.delegate)>>
      [] request.kind = "removeAllDelegates" ->
            LET held == CHOOSE s \in [1 .. Cardinality(Delegates) -> Delegates] :
                            Range(s) = Delegates
            IN <<Handle>> \o [k \in DOMAIN held |-> RemoveDelegate(held[k][1], held[k][2])]
      [] request.kind = "mintWlp" ->
            Pool("lp_pool::mint_wlp",
                 [accountId |-> Pure(request.accountId), depositAmount |-> Pure(request.amount),
                  minLpAmount |-> Pure(0)])
      [] request.kind = "burnWlp" ->
            Pool("lp_pool::request_redeem",
                 [accountId |-> Pure(request.accountId), lpAmount |-> Pure(request.amount)])
      [] request.kind = "cancelWlpBurn" ->
            Pool("lp_pool::cancel_redeem", PurePart(request, {"requestId"}))
      [] request.kind = "claimWlpRewards" ->
            <<Handle, Operation("waterx_staking::claim", <<>>, 1,
                [self |-> Shared("staking.pool"), request |-> Result(1)]
                    @@ PurePart(request, {"accountId"}))>>

Composed(request) ==
    [sender |-> context.signer, payer |-> Sponsor, commands |-> Commands(request),
     withdrawals |-> IF request.kind = "deposit"
                     THEN <<[amount |-> request.amount, asset |-> request.assetType,
                             from |-> "sender"]>>
                     ELSE <<>>]

-----------------------------------------------------------------------------
(* One change to the bytes.                                               *)

Flags == {"isLong", "isStopOrder", "reduceOnly"}
Names == {"ticker", "accountId", "delegateAddress", "recipient", "alias", "extraData"}

(* Other values a pure argument could carry.                              *)
OtherValues(fn, param, value) ==
    IF value = Unreadable THEN {}
    ELSE {Unreadable} \cup
        (CASE value = Undefined -> {7}
           [] param \in Flags -> {~value}
           [] param \in Names -> {Stranger}
           [] fn = "account::set_delegate_protocol_permission" -> {{}, value \cup {"claim"}}
           [] OTHER -> {value + 1, 0} \cup (IF param \in Optional(fn) THEN {Undefined} ELSE {}))

OtherArguments(i, param) ==
    LET argument == tx.commands[i].args[param]
    IN (IF argument.is = "pure"
        THEN {Pure(value) : value \in OtherValues(tx.commands[i].fn, param, argument.v)}
        ELSE {Pure(Unreadable)})
       \cup {Shared("oracle.oracle"), Shared("elsewhere"),
             Owned("coin")}
       \cup {Result(j) : j \in 1 .. i - 1}
       \cup (IF argument.is = "result" THEN {[argument EXCEPT !.slot = 1]} ELSE {})

DamageArgument(i, param) ==
    \E argument \in OtherArguments(i, param) \ {tx.commands[i].args[param]} :
        tx' = [tx EXCEPT !.commands[i].args[param] = argument]

DamageCall(i) ==
    /\ tx.commands[i].kind = "MoveCall"
    /\ \/ \E pkg \in {<<tx.commands[i].pkg[1], "original">>, Package("waterx_perp"),
                      Package("new_oracle")} :
            tx' = [tx EXCEPT !.commands[i].pkg = pkg]
       \/ \E k \in DOMAIN tx.commands[i].types :
            \E type \in {USD, WLP, Type("elsewhere", "usd::USD"),
                         [tx.commands[i].types[k] EXCEPT !.pkg[2] = "original"],
                         [Type("waterx_staking", "witness::WaterXStaking")
                              EXCEPT !.over = tx.commands[i].types[k]]}
                        \ {tx.commands[i].types[k]} :
                tx' = [tx EXCEPT !.commands[i].types[k] = type]
       \/ tx.commands[i].types # <<>> /\ tx' = [tx EXCEPT !.commands[i].types = <<>>]
       \/ \E param \in DOMAIN tx.commands[i].args :
            tx' = [tx EXCEPT !.commands[i].args =
                      [p \in DOMAIN tx.commands[i].args \ {param} |-> tx.commands[i].args[p]]]

(* A command more, or one that is not there any longer.                   *)
DamageCommands ==
    \/ \E i \in DOMAIN tx.commands : tx' = [tx EXCEPT !.commands = Append(@, tx.commands[i])]
    \/ \E other \in {"cancel", "withdraw"} : \E a \in {b \in Asks : b.op = other} :
        \E i \in DOMAIN Commands(Plan(a).request) :
            tx' = [tx EXCEPT !.commands = Append(@, Commands(Plan(a).request)[i])]
    \/ tx' = [tx EXCEPT !.commands = Append(@, [Vector(<<>>) EXCEPT !.kind = "TransferObjects"])]
    \/ \E i \in DOMAIN tx.commands : tx' = [tx EXCEPT !.commands[i] = Refresh]

DamageEnvelope ==
    \/ \E sender \in {Stranger, Undefined} : tx' = [tx EXCEPT !.sender = sender]
    \/ \E payer \in {context.signer, Undefined} : tx' = [tx EXCEPT !.payer = payer]
    \/ \E amount \in {1, 2} : tx' = [tx EXCEPT !.withdrawals = Append(@,
             [amount |-> amount, asset |-> USD, from |-> "sender"])]
    \/ /\ tx.withdrawals # <<>>
       /\ \/ tx' = [tx EXCEPT !.withdrawals = <<>>]
          \/ tx' = [tx EXCEPT !.withdrawals[1].amount = @ + 1]
          \/ tx' = [tx EXCEPT !.withdrawals[1].asset = USD]
          \/ tx' = [tx EXCEPT !.withdrawals[1].from = "sponsor"]

Damage ==
    /\ verdict = "composed" /\ changes < context.damage
    /\ \/ \E i \in DOMAIN tx.commands : \E param \in DOMAIN tx.commands[i].args :
            DamageArgument(i, param)
       \/ \E i \in DOMAIN tx.commands : DamageCall(i)
       \/ DamageCommands
       \/ DamageEnvelope
    /\ changes' = changes + 1
    /\ UNCHANGED <<market, queued, admitted, ask, context, verdict>>

-----------------------------------------------------------------------------
(* From the queue.  The fields an intent of each kind may have,           *)
QueueFields ==
    LET sized   == {"ticker", "collateral", "leverage", "size"}
        bracket == {"takeProfit", "stopLoss"}
    IN [kind \in {"open", "limit", "close", "cancel", "reduce", "increase", "add-margin",
                  "remove-margin", "fit-stop", "wlp-mint", "wlp-burn", "wlp-cancel-burn",
                  "wlp-claim"} |->
        CASE kind = "open" -> sized \cup bracket \cup {"side", "slippagePercent"}
          [] kind = "limit" -> sized \cup bracket \cup {"side", "triggerPrice", "isStopOrder",
                                                     "reduceOnly", "linkedPositionId"}
          [] kind = "increase" -> sized \cup {"positionId", "slippagePercent"}
          [] kind = "close" -> {"ticker", "positionId", "slippagePercent"}
          [] kind = "reduce" -> {"ticker", "positionId", "size", "percent", "slippagePercent"}
          [] kind = "cancel" -> {"ticker", "orderId"}
          [] kind \in {"add-margin", "remove-margin"} -> {"ticker", "positionId", "amount"}
          [] kind = "fit-stop" -> {"ticker", "positionId", "orderId"}
          [] kind \in {"wlp-mint", "wlp-burn"} -> {"amount"}
          [] kind = "wlp-cancel-burn" -> {"requestId"}
          [] kind = "wlp-claim" -> {}]

(* and what the runner calls for it.                                      *)
OpOf(kind) ==
    CASE kind = "fit-stop" -> "update"
      [] kind = "add-margin" -> "addMargin"
      [] kind = "remove-margin" -> "removeMargin"
      [] kind = "wlp-mint" -> "mintWlp"
      [] kind = "wlp-burn" -> "burnWlp"
      [] kind = "wlp-cancel-burn" -> "cancelWlpBurn"
      [] kind = "wlp-claim" -> "claimWlpRewards"
      [] OTHER -> kind

(* The legs of a position that are larger than what it holds.             *)
OversizedStops(position) ==
    {o \in Orders : o.ticker = position.ticker /\ o.linkedPositionId = position.id
                     /\ o.reduceOnly /\ o.sizeInAsset > position.sizeInAsset}

(* A leg is fitted to the position as it is now, and not repriced.        *)
FitStops(intent) ==
    LET Fitted == {p \in Positions : p.ticker = intent.ticker /\ p.id = intent.positionId}
        Legs(p) == {o \in OversizedStops(p) : o.id = intent.orderId}
    IN UNION {{[op |-> "update", ticker |-> p.ticker, orderId |-> o.id,
                newTriggerPrice |-> o.triggerPrice, newSize |-> p.sizeInAsset] :
                    o \in Legs(p)} : p \in Fitted}

AskOf(intent) ==
    [op |-> OpOf(intent.kind)]
    @@ [field \in DOMAIN intent \ {"kind", "side"} |-> intent[field]]
    @@ (IF Gate!Has(intent, "side") THEN [isLong |-> intent.side = "long"] ELSE <<>>)

AsksOf(intent) ==
    IF intent.kind = "fit-stop" THEN FitStops(intent) ELSE {AskOf(intent)}

-----------------------------------------------------------------------------
(* What the parsers of requests, of the inbox, of the backend's answers    *)
(* and of the configured policy let through: amounts are numbers, a price  *)
(* is positive, a side is one of two.                                      *)

IsMarket(m) ==
    /\ m.spot \in Nat \ {0} /\ m.now \in Int
    /\ \A p \in m.positions :
        /\ p.side \in {"long", "short"}
        /\ p.sizeInAsset \in Int /\ p.collateral \in Int /\ p.notional \in Int
    /\ \A o \in m.orders :
        /\ o.side \in {"long", "short"} /\ o.reduceOnly \in BOOLEAN
        /\ o.sizeInAsset \in Int /\ o.collateral \in Int /\ o.triggerPrice \in Int

IsScope(scope) ==
    /\ scope.notAfter \in Int
    /\ \A ceiling \in Gate!Ceilings : scope[ceiling] \in Int

ASSUME NumberAssumption == Undefined \notin Int /\ NaN \notin Int /\ DefaultSlippage \in Int

ASSUME NameAssumption ==
    /\ Undefined \notin BOOLEAN /\ Undefined # Unreadable
    /\ \A c \in Contexts : c.signer # Undefined
    /\ AccountId \notin {Undefined, Unreadable}
    /\ \A a \in Asks : \A field \in {"ticker", "orderId"} \cap DOMAIN a :
        a[field] \notin {Undefined, Unreadable}

ASSUME AskAssumption == \A a \in Asks : IsAsk(a)

ASSUME QueueAssumption ==
    \A q \in Queued :
        /\ q.kind \in DOMAIN QueueFields /\ DOMAIN q \subseteq {"kind"} \cup QueueFields[q.kind]
        /\ q.kind = "fit-stop" => Gate!Has(q, "ticker")
        /\ q.kind \in {"open", "limit"} => Gate!Has(q, "side") /\ q.side \in {"long", "short"}
        /\ q.kind # "fit-stop" => IsAsk(AskOf(q))

ASSUME MarketAssumption == \A m \in Markets : IsMarket(m)

ASSUME ContextAssumption ==
    \A c \in Contexts : c.mode = "delegated-auto" /\ c.scope # Undefined => IsScope(c.scope)

-----------------------------------------------------------------------------
(* runner-submit, under the configured policy or a narrower one: a scope   *)
(* is asked only under delegated-auto, and its no is final.                *)
Offer ==
    /\ verdict = "offered"
    /\ admitted' = Gate!Admissible(queued, context.scope, AccountId, market.now)
    /\ \E mode \in Gate!NarrowOnly(context.mode) : mode = "delegated-auto" => admitted'
    /\ verdict' = "queued"
    /\ UNCHANGED <<market, queued, ask, context, tx, changes>>

(* The market moves while the intent waits.                               *)
Drift ==
    /\ verdict = "queued"
    /\ \E next \in Markets : next.now > market.now /\ market' = next
    /\ UNCHANGED <<queued, admitted, ask, context, tx, changes, verdict>>

(* The runner starts it: what it asks is read from the market now.        *)
Start ==
    /\ verdict = "queued"
    /\ \E a \in AsksOf(queued) : CanPlan(a, context.signer # OwnerAddress) /\ ask' = a
    /\ verdict' = "asked"
    /\ UNCHANGED <<market, queued, admitted, context, tx, changes>>

(* What is at risk; orders in flight and the ledger are Installation's.    *)
Open == Gate!OpenCollateralOf(Positions, {}, 0)

(* The gate, then the builder: a person confirms, a scope decides.        *)
Authorize ==
    /\ verdict = "asked"
    /\ LET plan == Plan(ask)
       IN IF Gate!Authorizes(context.mode, context.scope, plan.intent, TRUE, market.now, Open, 0)
          THEN verdict' = "composed" /\ tx' = Composed(plan.request)
          ELSE verdict' = "denied" /\ tx' = tx
    /\ UNCHANGED <<market, queued, admitted, ask, context, changes>>

(* The last thing before the signature.                                   *)
Verify ==
    /\ verdict = "composed"
    /\ verdict' = IF Matches(tx, Plan(ask).intent, context.signer, context)
                  THEN "signed" ELSE "refused"
    /\ UNCHANGED <<market, queued, admitted, ask, context, tx, changes>>

Init ==
    /\ context \in {c \in Contexts : Gate!CanBuild(c.mode, c.scope, c.signer # OwnerAddress)}
    /\ market \in {m \in Markets : m.now = 1}
    /\ \/ /\ ask \in {a \in Asks : CanPlan(a, context.signer # OwnerAddress)}
          /\ queued = Undefined /\ verdict = "asked"
       \/ /\ context.mode = "delegated-auto" /\ queued \in Queued
          /\ ask = Undefined /\ verdict = "offered"
    /\ admitted = Undefined /\ tx = Undefined /\ changes = 0

Next == Offer \/ Drift \/ Start \/ Authorize \/ Damage \/ Verify

Spec == Init /\ [][Next]_vars

-----------------------------------------------------------------------------
(* Properties.  What a transaction does is read here from the arguments    *)
(* of its calls alone, and what it should do from what was asked alone.    *)

(* README.md, "Unconstrained argument": the whole of what is not checked.  *)
Listed ==
    {<<"account::add_delegate", "alias">>, <<"custody_vault::mint", "extraData">>,
     <<"lp_pool::mint_wlp", "minLpAmount">>,
     <<"account::remove_delegate", "delegateAddress">>,
     <<"trading::cancel_order_request", "orderTypeTag">>,
     <<"trading::cancel_order_request", "triggerPrice">>,
     <<"trading::update_order_request", "currentTriggerPrice">>,
     <<"trading::update_order_request", "orderTypeTag">>,
     <<"waterx_staking::claim", "request">>, <<"waterx_staking::claim", "self">>,
     <<"withdrawal_queue::route_native", "minOutput">>}

(* The last entry but one of that table is of removeAllDelegates only.     *)
IsListed(fn, param) ==
    /\ <<fn, param>> \in Listed
    /\ fn = "account::remove_delegate" => ask.op = "removeAllDelegates"

Values(i) ==
    LET call == tx.commands[i]
    IN [p \in {q \in DOMAIN call.args : call.args[q].is = "pure" /\ ~IsListed(call.fn, q)} |->
            call.args[p].v]

(* The asset a call pays in or out: a withdrawal's is that of the route it *)
(* is handed.                                                              *)
PaidIn(i) ==
    LET call == tx.commands[i]
    IN CASE call.fn = "custody_vault::mint" -> call.types[1]
         [] call.fn = "account::request_withdraw" ->
                tx.commands[call.args.extraData.of].types[1]
         [] OTHER -> Undefined

Effect(i) == [does |-> tx.commands[i].fn, values |-> Values(i), asset |-> PaidIn(i)]

(* The calls that route and queue a withdrawal hand on what it made.      *)
Relays == CallsOf(tx, {"withdrawal_queue::route_native", "withdrawal_queue::enqueue"})

(* The constructors whose results a place call is handed, directly or in   *)
(* its vector.                                                             *)
PlacedOrders ==
    LET places == CallsOf(tx, {"trading::place_order_request"})
        Handed(i) == {tx.commands[i].args.main.of} \cup
            {tx.commands[tx.commands[i].args.preOrder.of].args[k].of :
                k \in DOMAIN tx.commands[tx.commands[i].args.preOrder.of].args}
    IN {p \in places \X Calls(tx) : p[2] \in Handed(p[1])}

(* The arguments of the orders placed.                                    *)
SignedOrders ==
    {[q \in DOMAIN tx.commands[p[2]].args |-> tx.commands[p[2]].args[q].v] : p \in PlacedOrders}

(* The worst price the caller accepts when trading that way.              *)
Worst(fill) ==
    Rounded(Spot * (IF fill = "buy" THEN 100 + Slippage(ask) ELSE 100 - Slippage(ask)), 100)

AskedSize(price) ==
    IF Given(ask, "size") THEN ask.size ELSE Rounded(ask.collateral * ask.leverage, price)

OnlyReduces == ask.op = "limit" /\ Or(ask, "reduceOnly", FALSE)

(* The order that opens or rests,                                         *)
AskedEntry ==
    CASE ask.op = "open" ->
            [isLong |-> ask.isLong, isStopOrder |-> FALSE, reduceOnly |-> FALSE,
             size |-> AskedSize(Spot), triggerPrice |-> Undefined,
             linkedPositionId |-> Undefined,
             acceptablePrice |-> Worst(IF ask.isLong THEN "buy" ELSE "sell"),
             collateralAmount |-> ask.collateral]
      [] ask.op = "limit" ->
            [isLong |-> ask.isLong, isStopOrder |-> Or(ask, "isStopOrder", FALSE),
             reduceOnly |-> Or(ask, "reduceOnly", FALSE),
             size |-> AskedSize(ask.triggerPrice), triggerPrice |-> ask.triggerPrice,
             linkedPositionId |-> Or(ask, "linkedPositionId", Undefined),
             acceptablePrice |-> Undefined, collateralAmount |-> ask.collateral]

(* and the legs that protect it, or a position that is open already.      *)
AskedLegs(isLong, size, position) ==
    LET Protect(price, stop) ==
            <<[isLong |-> ~isLong, isStopOrder |-> stop, reduceOnly |-> TRUE, size |-> size,
               triggerPrice |-> price, linkedPositionId |-> position,
               acceptablePrice |-> Undefined, collateralAmount |-> 0]>>
    IN (IF Given(ask, "takeProfit") THEN Protect(ask.takeProfit, FALSE) ELSE <<>>)
       \o (IF Given(ask, "stopLoss") THEN Protect(ask.stopLoss, TRUE) ELSE <<>>)

AskedBracket ==
    CASE ask.op = "open" -> AskedLegs(ask.isLong, AskedSize(Spot), Undefined)
      [] ask.op = "limit" ->
            AskedLegs(ask.isLong, AskedSize(ask.triggerPrice),
                      IF OnlyReduces THEN Or(ask, "linkedPositionId", Undefined) ELSE Undefined)
      [] ask.op = "placeTpSl" ->
            AskedLegs(PositionOf(ask).side = "long",
                      Or(ask, "size", PositionOf(ask).sizeInAsset), ask.positionId)
      [] OTHER -> <<>>

(* A resting order that only reduces is itself never signed, only the      *)
(* bracket asked with it, if there is one: see EntryIsPlaced.              *)
AskedOrders ==
    (IF ask.op \in {"open", "limit"} /\ ~OnlyReduces THEN <<AskedEntry>> ELSE <<>>)
        \o AskedBracket

Asked(fn, values) == [does |-> fn, values |-> values, asset |-> Undefined]

OnMarket(values) == values @@ [ticker |-> ask.ticker, accountId |-> AccountId]

(* What each request means, but for grants and for the sweep of delegates. *)
AskedEffect ==
    CASE ask.op \in {"open", "limit", "placeTpSl"} ->
            Asked("trading::place_order_request", OnMarket(<<>>))
      [] ask.op = "close" -> Asked("trading::close_position_request",
            OnMarket([positionId |-> ask.positionId,
                      acceptablePrice |-> Worst(IF PositionOf(ask).side = "long"
                                                THEN "sell" ELSE "buy")]))
      [] ask.op = "reduce" -> Asked("trading::decrease_position_request",
            OnMarket([positionId |-> ask.positionId,
                      size |-> Or(ask, "size", Rounded(PositionOf(ask).sizeInAsset
                                                        * Or(ask, "percent", 0), 100)),
                      acceptablePrice |-> Worst(IF PositionOf(ask).side = "long"
                                                THEN "sell" ELSE "buy")]))
      [] ask.op = "increase" -> Asked("trading::increase_position_request",
            OnMarket([positionId |-> ask.positionId, orderId |-> Undefined,
                      collateralAmount |-> ask.collateral, size |-> AskedSize(Spot),
                      acceptablePrice |-> Worst(IF PositionOf(ask).side = "long"
                                                THEN "buy" ELSE "sell")]))
      [] ask.op = "addMargin" -> Asked("trading::deposit_collateral_request",
            OnMarket([positionId |-> ask.positionId, collateralAmount |-> ask.amount]))
      [] ask.op = "removeMargin" -> Asked("trading::withdraw_collateral_request",
            OnMarket([positionId |-> ask.positionId, amount |-> ask.amount]))
      [] ask.op = "cancel" -> Asked("trading::cancel_order_request",
            OnMarket([orderId |-> ask.orderId]))
      [] ask.op = "update" -> Asked("trading::update_order_request",
            OnMarket([orderId |-> ask.orderId, newSize |-> ask.newSize,
                      newTriggerPrice |-> ask.newTriggerPrice]))
      [] ask.op = "createAccount" -> Asked("account::create_account", [alias |-> ask.name])
      [] ask.op = "deposit" ->
            [does |-> "custody_vault::mint", values |-> [accountId |-> AccountId],
             asset |-> ask.assetType]
      [] ask.op = "withdraw" ->
            [does |-> "account::request_withdraw",
             values |-> [accountId |-> AccountId, amount |-> ask.amount,
                         recipient |-> Or(ask, "toAddress", OwnerAddress)],
             asset |-> ask.assetType]
      [] ask.op = "addDelegate" -> Asked("account::add_delegate",
            [accountId |-> AccountId, delegateAddress |-> ask.delegate, permissions |-> 0,
             expiresAtMs |-> Undefined])
      [] ask.op = "removeDelegate" -> Asked("account::remove_delegate",
            [accountId |-> AccountId, delegateAddress |-> ask.delegate])
      [] ask.op = "mintWlp" -> Asked("lp_pool::mint_wlp",
            [accountId |-> AccountId, depositAmount |-> ask.amount])
      [] ask.op = "burnWlp" -> Asked("lp_pool::request_redeem",
            [accountId |-> AccountId, lpAmount |-> ask.amount])
      [] ask.op = "cancelWlpBurn" -> Asked("lp_pool::cancel_redeem",
            [requestId |-> ask.requestId])
      [] ask.op = "claimWlpRewards" -> Asked("waterx_staking::claim",
            [accountId |-> AccountId])

Grants == CallsOf(tx, {"account::set_delegate_protocol_permission"})

(* A grant of one protocol's type, in the deployment's own packages.      *)
GrantsOn(type) == {i \in Grants : tx.commands[i].types[1].type = type
                                  /\ tx.commands[i].types[1].over = Undefined}

Operations == CallsOf(tx, Sensitive) \ (Grants \cup Relays)

(* The operation asked for and no other, on the configured account: once,  *)
(* but for a bracket (a call a leg) and for a sweep of delegates, which    *)
(* does nothing but remove some.                                          *)
OperationsAreMeant ==
    /\ Operations # {}
    /\ \A i \in Operations :
        IF ask.op = "removeAllDelegates"
        THEN tx.commands[i].fn = "account::remove_delegate" /\ Values(i).accountId = AccountId
        ELSE Effect(i) = AskedEffect
    /\ ask.op \notin {"placeTpSl", "removeAllDelegates"} => Cardinality(Operations) = 1

(* Exactly the orders asked for, each of them once.                       *)
OrdersAreMeant ==
    /\ Cardinality(PlacedOrders) = Len(AskedOrders)
    /\ SignedOrders = {AskedOrders[k] : k \in DOMAIN AskedOrders}

(* What is granted, where the contract reads it, is what was asked, and is *)
(* written once.                                                          *)
GrantsAreAsked ==
    /\ \A i \in Grants :
        /\ Values(i).accountId = AccountId /\ Values(i).delegateAddress = ask.delegate
        /\ tx.commands[i].types[1].over # Undefined =>
              Values(i).permissions \subseteq Permissions(ask).perp
    /\ \A slot \in {<<"account_data::WaterXPerp", "perp">>,
                    <<"account_data::WaterXPrediction", "predict">>,
                    <<"witness::WaterXStaking", "staking">>} :
        /\ Cardinality(GrantsOn(slot[1])) <= 1
        /\ UNION {Values(i).permissions : i \in GrantsOn(slot[1])} = Permissions(ask)[slot[2]]

AuthorityIsMeant == IF ask.op = "addDelegate" THEN GrantsAreAsked ELSE Grants = {}

(* What is withdrawn is queued, and a deposit alone takes from the         *)
(* signer's balance: its amount.                                          *)
FundsAreMeant ==
    /\ IF ask.op = "withdraw"
       THEN \E i \in Relays : /\ tx.commands[i].fn = "withdrawal_queue::enqueue"
                              /\ tx.commands[i].args["req"].of \in Operations
       ELSE Relays = {}
    /\ IF ask.op = "deposit"
       THEN /\ Len(tx.withdrawals) = 1
            /\ tx.withdrawals[1] = [amount |-> ask.amount, asset |-> ask.assetType,
                                    from |-> "sender"]
       ELSE tx.withdrawals = <<>>

(* Who sends it, if it says; and who pays for it.                         *)
EnvelopeIsMeant ==
    /\ tx.sender \in {Undefined, context.signer}
    /\ IF context.sponsored THEN tx.payer # context.signer
       ELSE tx.payer \in {Undefined, context.signer}

(* WHAT IS SIGNED IS WHAT WAS ASKED.  However the bytes were changed after *)
(* they were composed, a signed transaction performs the operation the     *)
(* caller asked for and no other, on the configured account, places        *)
(* exactly the orders asked for (the order of the two arguments of a place *)
(* call apart), grants exactly the asked permissions where the contract    *)
(* reads them, pays out of the signer's balance only for a deposit and     *)
(* exactly its amount, and is sent and paid for by whom it should.         *)
SignedIsMeant ==
    verdict = "signed" =>
        /\ EnvelopeIsMeant
        /\ OperationsAreMeant
        /\ OrdersAreMeant
        /\ AuthorityIsMeant
        /\ FundsAreMeant

(* THE ORDER ITSELF IS PLACED.  Whoever asks for an order and signs does   *)
(* place that order, and not only what was asked along with it.  False of  *)
(* a reduce-only limit order that is asked with a bracket: the verifier    *)
(* expects no main order of it (verify.ts:1746).                           *)
EntryIsPlaced ==
    verdict = "signed" /\ ask.op \in {"open", "limit"} => AskedEntry \in SignedOrders

(* What an order commits, at the price it is sized for.                   *)
WithinCeilings(collateral, size, price) ==
    /\ collateral <= context.scope.maxCollateralPerOrder
    /\ size * price <= context.scope.maxLeverage * collateral

AllowedSide(isLong) == Gate!Allowed(Side(isLong), context.scope.sides)

AllowedSlippage(limit, fill) ==
    IF fill = "buy" THEN 100 * limit <= Spot * (100 + context.scope.maxSlippagePercent) + 50
    ELSE 100 * limit >= Spot * (100 - context.scope.maxSlippagePercent) - 50

(* One signed operation against the scope, read from its arguments.       *)
OperationIsWithin(i) ==
    LET values == Values(i)
        fn     == tx.commands[i].fn
    IN /\ "ticker" \in DOMAIN values => Gate!Allowed(values.ticker, context.scope.markets)
       /\ fn = "trading::increase_position_request" =>
            /\ WithinCeilings(values.collateralAmount, values.size, Spot)
            /\ AllowedSide(PositionOf(ask).side = "long")
       /\ fn = "trading::withdraw_collateral_request" =>
            /\ values.amount <= context.scope.maxCollateralPerOrder
            /\ PositionOf(ask).notional
                  <= context.scope.maxLeverage * (PositionOf(ask).collateral - values.amount)
       /\ fn = "trading::update_order_request" =>
            /\ WithinCeilings(OrderOf(ask).collateral, values.newSize, values.newTriggerPrice)
            /\ AllowedSide(OrderOf(ask).side = "long")
       /\ fn = "lp_pool::mint_wlp" =>
            values.depositAmount <= context.scope.maxCollateralPerOrder

OrderIsWithin(order) ==
    order.collateralAmount > 0 \/ ~order.reduceOnly =>
        /\ AllowedSide(order.isLong)
        /\ WithinCeilings(order.collateralAmount, order.size,
                          IF order.triggerPrice = Undefined THEN Spot ELSE order.triggerPrice)
        /\ order.acceptablePrice # Undefined =>
              AllowedSlippage(order.acceptablePrice, Entry(Side(order.isLong)))

(* AN UNATTENDED SIGNATURE STAYS IN ITS SCOPE.  What the signed bytes do,  *)
(* read from their arguments, is inside the ceilings, markets and sides of *)
(* the scope when it is signed, before it ends, and never an operation of  *)
(* the owner's: however the request was spelt, wherever it waited, and     *)
(* whichever of the planner, the gate and the verifier looked at it.       *)
SignedIsWithinScope ==
    verdict = "signed" /\ context.mode = "delegated-auto" =>
        /\ market.now <= context.scope.notAfter
        /\ AccountId \in context.scope.accounts
        /\ CallsOf(tx, Account \cup Queue \cup {"custody_vault::mint"}) = {}
        /\ \A i \in CallsOf(tx, Sensitive) : OperationIsWithin(i)
        /\ \A p \in PlacedOrders : OrderIsWithin(OrderAt(tx, p[2]))

(* The refusals of what a person asked and the backend composed: a resting *)
(* order that only reduces is taken for a leg nobody authorized; a sweep   *)
(* of delegates may only name the configured account; and no leverage can  *)
(* be computed for an order or a position left with no collateral.         *)
KnownRefusal ==
    \/ ask.op = "limit" /\ Or(ask, "reduceOnly", FALSE)
    \/ ask.op = "removeAllDelegates" /\ \E d \in Delegates : d[1] # AccountId
    \/ Plan(ask).intent.leverage = NaN

Described ==
    /\ LayoutConfirmed(Plan(ask).intent, context)
    /\ "waterx_oracle" \in context.deployment.packages \/ context.exceptions # <<>>

Faithful == verdict \in {"denied", "refused", "signed"} /\ changes = 0 /\ context.mode = "interactive"

(* WHAT A PERSON ASKS CAN BE SIGNED.  When the backend composes exactly    *)
(* the plan and the deployment is described, the planner, the gate and the *)
(* verifier agree on every operation, but for the known cases, and those   *)
(* are always refused: the third one is every fit of a stop whose leg the  *)
(* backend reports with the zero collateral that the verifier itself       *)
(* demands of a leg (sync-stops and the runner's fit-stop).                *)
ComposedIsSigned ==
    Faithful /\ Described => (verdict # "signed" <=> KnownRefusal)

(* Every plan the facade makes, and no ceiling is unable to bound, can be  *)
(* signed when the backend composes exactly that plan.                     *)
FaithfulIsSigned == Faithful /\ Described => verdict # "refused"

(* What rests on the book can be taken off it: whoever signs a resting     *)
(* order, as the backend composes it, under some knowledge of the          *)
(* deployment would sign its cancellation under the same knowledge.        *)
PlacedIsRetractable ==
    verdict = "signed" /\ changes = 0 /\ ask.op \in {"limit", "placeTpSl"} =>
        \A a \in {b \in Asks : b.op = "cancel"} :
            Matches(Composed(Plan(a).request), Plan(a).intent, context.signer, context)

-----------------------------------------------------------------------------
(* The queue and the gate.                                                *)

Planned == queued # Undefined /\ verdict \notin {"offered", "queued", "asked"}

(* What the rules that need neither the book nor the ledger say when it is *)
(* planned.                                                                *)
SettledNow ==
    /\ Gate!Measurable(Plan(ask).intent)
    /\ Gate!Settled(Plan(ask).intent, context.scope, market.now)

(* What a leverage asks for, and what the size made of it comes to.       *)
SizedAt == IF queued.kind = "limit" THEN queued.triggerPrice ELSE Spot

AskedNotional == queued.collateral * queued.leverage

SizedNotional(intent) == intent.sizeRaw * SizedAt

(* The size is rounded to a unit, which may commit more than was asked, or  *)
(* less: a whole multiple of the collateral less, if a unit is worth that.  *)
RoundsUp(intent) ==
    /\ SizedNotional(intent) > AskedNotional
    /\ 2 * (SizedNotional(intent) - AskedNotional) <= SizedAt

RoundsAway(intent) ==
    /\ AskedNotional - SizedNotional(intent) >= queued.collateral
    /\ 2 * (AskedNotional - SizedNotional(intent)) <= SizedAt

(* What only the planner knows of a queued intent.                        *)
OnlyThePlanKnows(intent) ==
    \/ market.now > context.scope.notAfter
    \/ ~Gate!Measurable(intent)
    \/ queued.kind \in {"remove-margin", "wlp-mint", "fit-stop"}
    \/ queued.kind = "increase" /\ ~AllowedSide(PositionOf(ask).side = "long")
    \/ ~Gate!Has(queued, "slippagePercent") /\ DefaultSlippage > context.scope.maxSlippagePercent
    \/ /\ intent.leverage > context.scope.maxLeverage
       /\ \/ Gate!Has(queued, "size")
          \/ queued.leverage <= context.scope.maxLeverage /\ RoundsUp(intent)

(* THE QUEUE'S NO IS THE GATE'S.  An intent the queue would turn away is   *)
(* one the gate refuses whenever it starts, unless it is for its leverage  *)
(* and a size overrides that or rounds it away; and what the queue accepts *)
(* and the gate does not is a matter of what only the plan knows.          *)
QueueAgreesWithGate ==
    Planned =>
        /\ ~admitted /\ SettledNow =>
              /\ Gate!Has(queued, "leverage") /\ queued.leverage > context.scope.maxLeverage
              /\ Gate!Has(queued, "size") \/ RoundsAway(Plan(ask).intent)
        /\ admitted /\ ~SettledNow => OnlyThePlanKnows(Plan(ask).intent)
=============================================================================
