---------------------------- MODULE MeantProofs ----------------------------
(***************************************************************************)
(* What is signed is what was asked, for every request and every change to *)
(* the bytes: SignedIsMeant, which reads the calls and the request and     *)
(* nothing the plan or the verifier decided.  The argument meets in the    *)
(* intent.  On one side the tables of the verifier: which parameters of    *)
(* each call it holds to which field (the lemmas that end in Reads), hence *)
(* what a verified call says (ValuesAre).  On the other, what each plan    *)
(* puts in those fields (the lemmas that end in Is or AreMeant).  Orders   *)
(* take more: what a place call is handed is exactly what the verifier     *)
(* found by following results (PlacedAre), which needs the bytes to be     *)
(* formed as the composer's are (OrderIsFormed, kept by every change), and *)
(* the descriptors of the legs, each used up once, are exactly those asked *)
(* for, by counting (Matching, LegsAreAsked).  The invariant is that of    *)
(* SigningProofs, Sound, and OrderIsFormed.                                *)
(***************************************************************************)
EXTENDS SigningProofs, FunctionTheorems

-----------------------------------------------------------------------------
(* What the verifier reads of each call.                                  *)

(* One parameter of a function: held to a field of the intent, and then    *)
(* one of `fields` and not listed as free; or listed as free; or no number. *)
Held(fn, p, binding, fields) ==
    /\ binding.by \in {"field", "free", "object", "produced", "vector"}
    /\ binding.by = "field" <=> p \in DOMAIN fields
    /\ binding.by = "field" => binding.of = fields[p] /\ ~IsListed(fn, p)
    /\ binding.by = "free" => IsListed(fn, p)

(* The parameters that are held to a field of the intent, with the field.  *)
Reads(fn, fields) ==
    /\ DOMAIN fields \subseteq DOMAIN Bindings[fn]
    /\ \A p \in DOMAIN Bindings[fn] : Held(fn, p, Bindings[fn][p], fields)

(* How each kind of binding is told from the others.                       *)
LEMMA Kinds ==
    /\ \A name : Field(name).by = "field" /\ Field(name).of = name
    /\ \A role : Obj(role).by = "object"
    /\ \A fn : ProducedBy(fn).by = "produced" /\ VectorOf(fn).by = "vector"
    /\ SenderRequest.by = "produced" /\ Free.by = "free" /\ Mask.by = "mask"
  BY DEF Field, Obj, ProducedBy, VectorOf, SenderRequest, Free, Mask

(* A field of the intent, but for the side.                                *)
LEMMA AuthorizedField ==
    ASSUME NEW intent, NEW field, field # "side"
    PROVE  Authorized(intent, field) = intent[field]
  BY DEF Authorized

(* Three layers, the middle one of fields of the same name.               *)
Layered(B, own, names, base) == B = own @@ Same(names) @@ base

(* What is read of them.                                                  *)
LEMMA ThreeLayers ==
    ASSUME NEW own, NEW names, NEW base, NEW B, Layered(B, own, names, base)
    PROVE  /\ \A p : p \in DOMAIN B <=> p \in DOMAIN own \/ p \in names \/ p \in DOMAIN base
           /\ \A p \in DOMAIN own : B[p] = own[p]
           /\ \A p \in names \ DOMAIN own : B[p] = Field(p)
           /\ \A p \in DOMAIN base \ (DOMAIN own \cup names) : B[p] = base[p]
<1> DEFINE middle == Same(names)
           said == own @@ middle
<1>1. DOMAIN middle = names /\ \A p \in names : middle[p] = Field(p)
  BY DEF Same
<1>2. B = said @@ base
  BY DEF Layered
<1> HIDE DEF middle
<1>3. /\ DOMAIN (own @@ middle) = DOMAIN own \cup DOMAIN middle
      /\ \A p \in DOMAIN own : (own @@ middle)[p] = own[p]
      /\ \A p \in DOMAIN middle : p \notin DOMAIN own => (own @@ middle)[p] = middle[p]
  BY Layers
<1>4. /\ DOMAIN said = DOMAIN own \cup names
      /\ \A p \in DOMAIN own : said[p] = own[p]
      /\ \A p \in names \ DOMAIN own : said[p] = Field(p)
  BY <1>1, <1>3
<1> HIDE DEF said
<1>5. /\ DOMAIN (said @@ base) = DOMAIN said \cup DOMAIN base
      /\ \A p \in DOMAIN said : (said @@ base)[p] = said[p]
      /\ \A p \in DOMAIN base : p \notin DOMAIN said => (said @@ base)[p] = base[p]
  BY Layers
<1> QED
  BY <1>2, <1>4, <1>5

(* A table of three layers reads what each layer reads.                   *)
LEMMA TableReads ==
    ASSUME NEW fn, NEW own, NEW names, NEW base, NEW fields,
           Layered(Bindings[fn], own, names, base),
           DOMAIN fields \subseteq DOMAIN own \cup names \cup DOMAIN base,
           \A p \in DOMAIN own : Held(fn, p, own[p], fields),
           \A p \in names : Held(fn, p, Field(p), fields),
           \A p \in DOMAIN base : p \notin DOMAIN own \cup names =>
                Held(fn, p, base[p], fields)
    PROVE  Reads(fn, fields)
<1> DEFINE B == Bindings[fn]
<1>1. Layered(B, own, names, base)
  OBVIOUS
<1> HIDE DEF B
<1>2. /\ \A p : p \in DOMAIN B <=> p \in DOMAIN own \/ p \in names \/ p \in DOMAIN base
      /\ \A p \in DOMAIN own : B[p] = own[p]
      /\ \A p \in names \ DOMAIN own : B[p] = Field(p)
      /\ \A p \in DOMAIN base \ (DOMAIN own \cup names) : B[p] = base[p]
  BY <1>1, ThreeLayers
<1>3. \A p \in DOMAIN B : Held(fn, p, B[p], fields)
  BY <1>2
<1> QED
  BY <1>2, <1>3 DEF Reads, B

(* The three things a table ends in.                                      *)
LEMMA PoolIsBound ==
    /\ DOMAIN PoolRequest = {"pool", "globalConfig", "wxaRegistry", "senderRequest"}
    /\ \A p \in DOMAIN PoolRequest : PoolRequest[p].by \in {"object", "produced"}
  BY DEF PoolRequest, Obj, SenderRequest, ProducedBy

LEMMA AccountIsBound ==
    /\ DOMAIN AccountRequest = {"registry", "senderRequest"}
    /\ \A p \in DOMAIN AccountRequest : AccountRequest[p].by \in {"object", "produced"}
  BY DEF AccountRequest, Obj, SenderRequest, ProducedBy

(* A table of each of the three kinds.                                    *)
LEMMA TradeReads ==
    ASSUME NEW fn, NEW own, NEW names, NEW fields,
           Layered(Bindings[fn], own, names, TradingRequest),
           \A p \in DOMAIN own : Held(fn, p, own[p], fields),
           \A p \in names : Held(fn, p, Field(p), fields),
           \A p \in {"ticker", "accountId"} : Held(fn, p, Field(p), fields),
           \A p \in DOMAIN fields : p \in DOMAIN own \/ p \in names \/ p \in {"ticker", "accountId"},
           \A p \in {"globalConfig", "wxaRegistry", "marketRegistry", "senderRequest"} :
                p \notin DOMAIN own /\ p \notin names
    PROVE  Reads(fn, fields)
<1>1. \A p \in {"globalConfig", "wxaRegistry", "marketRegistry", "senderRequest"} :
        TradingRequest[p].by \in {"object", "produced"} /\ p \notin DOMAIN fields
  BY TradingIsBound, Kinds
<1>2. \A p \in {"globalConfig", "wxaRegistry", "marketRegistry", "senderRequest"} :
        Held(fn, p, TradingRequest[p], fields)
  BY <1>1 DEF Held
<1>3. \A p \in DOMAIN TradingRequest : Held(fn, p, TradingRequest[p], fields)
  BY <1>2, TradingIsBound
<1>4. DOMAIN fields \subseteq DOMAIN own \cup names \cup DOMAIN TradingRequest
  BY TradingIsBound
<1> QED
  BY <1>3, <1>4, TableReads

LEMMA PoolReads ==
    ASSUME NEW fn, NEW own, NEW names, NEW fields,
           Layered(Bindings[fn], own, names, PoolRequest),
           \A p \in DOMAIN own : Held(fn, p, own[p], fields),
           \A p \in names : Held(fn, p, Field(p), fields),
           \A p \in DOMAIN fields : p \in DOMAIN own \/ p \in names,
           \A p \in {"pool", "globalConfig", "wxaRegistry", "senderRequest"} :
                p \notin DOMAIN own /\ p \notin names
    PROVE  Reads(fn, fields)
<1>1. \A p \in DOMAIN PoolRequest : Held(fn, p, PoolRequest[p], fields)
  BY PoolIsBound DEF Held
<1>2. DOMAIN fields \subseteq DOMAIN own \cup names \cup DOMAIN PoolRequest
  OBVIOUS
<1> QED
  BY <1>1, <1>2, TableReads

LEMMA AccountReads ==
    ASSUME NEW fn, NEW own, NEW names, NEW fields,
           Layered(Bindings[fn], own, names, AccountRequest),
           \A p \in DOMAIN own : Held(fn, p, own[p], fields),
           \A p \in names : Held(fn, p, Field(p), fields),
           \A p \in DOMAIN fields : p \in DOMAIN own \/ p \in names,
           \A p \in {"registry", "senderRequest"} : p \notin DOMAIN own /\ p \notin names
    PROVE  Reads(fn, fields)
<1>1. \A p \in DOMAIN AccountRequest : Held(fn, p, AccountRequest[p], fields)
  BY AccountIsBound DEF Held
<1>2. DOMAIN fields \subseteq DOMAIN own \cup names \cup DOMAIN AccountRequest
  OBVIOUS
<1> QED
  BY <1>1, <1>2, TableReads

(* An order is placed by what the call is handed.                         *)
LEMMA PlaceReads ==
    Reads("trading::place_order_request", [ticker |-> "ticker", accountId |-> "accountId"])
<1> DEFINE fn == "trading::place_order_request"
           fields == [ticker |-> "ticker", accountId |-> "accountId"]
           own == [main |-> ProducedBy(OrderArgument), preOrder |-> VectorOf(OrderArgument)]
           names == {}
<1>1. Layered(Bindings[fn], own, names, TradingRequest)
  <2>1. DOMAIN Same({}) = {}
    BY DEF Same
  <2>2. own @@ Same({}) = own
    BY <2>1 DEF @@
  <2> QED
    BY <2>2 DEF Layered, Bindings, Sensitive, Perp, OrderArgument
<1>2. /\ \A p \in DOMAIN own : Held(fn, p, own[p], fields)
      /\ \A p \in names : Held(fn, p, Field(p), fields)
      /\ \A p \in {"ticker", "accountId"} : Held(fn, p, Field(p), fields)
  BY Kinds DEF Held, IsListed, Listed
<1>3. /\ \A p \in DOMAIN fields : p \in DOMAIN own \/ p \in names \/ p \in {"ticker", "accountId"}
      /\ \A p \in {"globalConfig", "wxaRegistry", "marketRegistry", "senderRequest"} :
            p \notin DOMAIN own /\ p \notin names
  OBVIOUS
<1> HIDE DEF own, names, fields, fn
<1>4. Reads(fn, fields)
  BY <1>1, <1>2, <1>3, TradeReads
<1> QED
  BY <1>4 DEF fn, fields

(* The other trades, each by its own parameters.                          *)
LEMMA CloseReads ==
    Reads("trading::close_position_request",
          [ticker |-> "ticker", accountId |-> "accountId", positionId |-> "positionId",
           acceptablePrice |-> "acceptablePriceRaw"])
<1> DEFINE fn == "trading::close_position_request"
           fields == [ticker |-> "ticker", accountId |-> "accountId",
                      positionId |-> "positionId",
                      acceptablePrice |-> "acceptablePriceRaw"]
           own == [acceptablePrice |-> Field("acceptablePriceRaw")]
           names == {"positionId"}
<1>1. Layered(Bindings[fn], own, names, TradingRequest)
  BY DEF Layered, Bindings, Sensitive, Perp, OrderArgument
<1>2. /\ \A p \in DOMAIN own : Held(fn, p, own[p], fields)
      /\ \A p \in names : Held(fn, p, Field(p), fields)
      /\ \A p \in {"ticker", "accountId"} : Held(fn, p, Field(p), fields)
  BY Kinds DEF Held, IsListed, Listed
<1>3. /\ \A p \in DOMAIN fields :
            p \in DOMAIN own \/ p \in names \/ p \in {"ticker", "accountId"}
      /\ \A p \in {"globalConfig", "wxaRegistry", "marketRegistry", "senderRequest"} :
            p \notin DOMAIN own /\ p \notin names
  OBVIOUS
<1> HIDE DEF own, names, fields, fn
<1>4. Reads(fn, fields)
  BY <1>1, <1>2, <1>3, TradeReads
<1> QED
  BY <1>4 DEF fn, fields

LEMMA ReduceReads ==
    Reads("trading::decrease_position_request",
          [ticker |-> "ticker", accountId |-> "accountId", positionId |-> "positionId",
           size |-> "sizeRaw", acceptablePrice |-> "acceptablePriceRaw"])
<1> DEFINE fn == "trading::decrease_position_request"
           fields == [ticker |-> "ticker", accountId |-> "accountId",
                      positionId |-> "positionId", size |-> "sizeRaw",
                      acceptablePrice |-> "acceptablePriceRaw"]
           own == [size |-> Field("sizeRaw"),
                   acceptablePrice |-> Field("acceptablePriceRaw")]
           names == {"positionId"}
<1>1. Layered(Bindings[fn], own, names, TradingRequest)
  BY DEF Layered, Bindings, Sensitive, Perp, OrderArgument
<1>2. /\ \A p \in DOMAIN own : Held(fn, p, own[p], fields)
      /\ \A p \in names : Held(fn, p, Field(p), fields)
      /\ \A p \in {"ticker", "accountId"} : Held(fn, p, Field(p), fields)
  BY Kinds DEF Held, IsListed, Listed
<1>3. /\ \A p \in DOMAIN fields :
            p \in DOMAIN own \/ p \in names \/ p \in {"ticker", "accountId"}
      /\ \A p \in {"globalConfig", "wxaRegistry", "marketRegistry", "senderRequest"} :
            p \notin DOMAIN own /\ p \notin names
  OBVIOUS
<1> HIDE DEF own, names, fields, fn
<1>4. Reads(fn, fields)
  BY <1>1, <1>2, <1>3, TradeReads
<1> QED
  BY <1>4 DEF fn, fields

LEMMA IncreaseReads ==
    Reads("trading::increase_position_request",
          [ticker |-> "ticker", accountId |-> "accountId", orderId |-> "orderId",
           positionId |-> "positionId", collateralAmount |-> "collateralRaw",
           size |-> "sizeRaw", acceptablePrice |-> "acceptablePriceRaw"])
<1> DEFINE fn == "trading::increase_position_request"
           fields == [ticker |-> "ticker", accountId |-> "accountId",
                      orderId |-> "orderId", positionId |-> "positionId",
                      collateralAmount |-> "collateralRaw", size |-> "sizeRaw",
                      acceptablePrice |-> "acceptablePriceRaw"]
           own == [collateralAmount |-> Field("collateralRaw"), size |-> Field("sizeRaw"),
                   acceptablePrice |-> Field("acceptablePriceRaw")]
           names == {"orderId", "positionId"}
<1>1. Layered(Bindings[fn], own, names, TradingRequest)
  BY DEF Layered, Bindings, Sensitive, Perp, OrderArgument
<1>2. /\ \A p \in DOMAIN own : Held(fn, p, own[p], fields)
      /\ \A p \in names : Held(fn, p, Field(p), fields)
      /\ \A p \in {"ticker", "accountId"} : Held(fn, p, Field(p), fields)
  BY Kinds DEF Held, IsListed, Listed
<1>3. /\ \A p \in DOMAIN fields :
            p \in DOMAIN own \/ p \in names \/ p \in {"ticker", "accountId"}
      /\ \A p \in {"globalConfig", "wxaRegistry", "marketRegistry", "senderRequest"} :
            p \notin DOMAIN own /\ p \notin names
  OBVIOUS
<1> HIDE DEF own, names, fields, fn
<1>4. Reads(fn, fields)
  BY <1>1, <1>2, <1>3, TradeReads
<1> QED
  BY <1>4 DEF fn, fields

LEMMA AddMarginReads ==
    Reads("trading::deposit_collateral_request",
          [ticker |-> "ticker", accountId |-> "accountId", positionId |-> "positionId",
           collateralAmount |-> "collateralRaw"])
<1> DEFINE fn == "trading::deposit_collateral_request"
           fields == [ticker |-> "ticker", accountId |-> "accountId",
                      positionId |-> "positionId", collateralAmount |-> "collateralRaw"]
           own == [collateralAmount |-> Field("collateralRaw")]
           names == {"positionId"}
<1>1. Layered(Bindings[fn], own, names, TradingRequest)
  BY DEF Layered, Bindings, Sensitive, Perp, OrderArgument
<1>2. /\ \A p \in DOMAIN own : Held(fn, p, own[p], fields)
      /\ \A p \in names : Held(fn, p, Field(p), fields)
      /\ \A p \in {"ticker", "accountId"} : Held(fn, p, Field(p), fields)
  BY Kinds DEF Held, IsListed, Listed
<1>3. /\ \A p \in DOMAIN fields :
            p \in DOMAIN own \/ p \in names \/ p \in {"ticker", "accountId"}
      /\ \A p \in {"globalConfig", "wxaRegistry", "marketRegistry", "senderRequest"} :
            p \notin DOMAIN own /\ p \notin names
  OBVIOUS
<1> HIDE DEF own, names, fields, fn
<1>4. Reads(fn, fields)
  BY <1>1, <1>2, <1>3, TradeReads
<1> QED
  BY <1>4 DEF fn, fields

LEMMA RemoveMarginReads ==
    Reads("trading::withdraw_collateral_request",
          [ticker |-> "ticker", accountId |-> "accountId", positionId |-> "positionId",
           amount |-> "collateralRaw"])
<1> DEFINE fn == "trading::withdraw_collateral_request"
           fields == [ticker |-> "ticker", accountId |-> "accountId",
                      positionId |-> "positionId", amount |-> "collateralRaw"]
           own == [amount |-> Field("collateralRaw")]
           names == {"positionId"}
<1>1. Layered(Bindings[fn], own, names, TradingRequest)
  BY DEF Layered, Bindings, Sensitive, Perp, OrderArgument
<1>2. /\ \A p \in DOMAIN own : Held(fn, p, own[p], fields)
      /\ \A p \in names : Held(fn, p, Field(p), fields)
      /\ \A p \in {"ticker", "accountId"} : Held(fn, p, Field(p), fields)
  BY Kinds DEF Held, IsListed, Listed
<1>3. /\ \A p \in DOMAIN fields :
            p \in DOMAIN own \/ p \in names \/ p \in {"ticker", "accountId"}
      /\ \A p \in {"globalConfig", "wxaRegistry", "marketRegistry", "senderRequest"} :
            p \notin DOMAIN own /\ p \notin names
  OBVIOUS
<1> HIDE DEF own, names, fields, fn
<1>4. Reads(fn, fields)
  BY <1>1, <1>2, <1>3, TradeReads
<1> QED
  BY <1>4 DEF fn, fields

LEMMA CancelReads ==
    Reads("trading::cancel_order_request",
          [ticker |-> "ticker", accountId |-> "accountId", orderId |-> "orderId"])
<1> DEFINE fn == "trading::cancel_order_request"
           fields == [ticker |-> "ticker", accountId |-> "accountId",
                      orderId |-> "orderId"]
           own == [triggerPrice |-> Free, orderTypeTag |-> Free]
           names == {"orderId"}
<1>1. Layered(Bindings[fn], own, names, TradingRequest)
  BY DEF Layered, Bindings, Sensitive, Perp, OrderArgument
<1>2. /\ \A p \in DOMAIN own : Held(fn, p, own[p], fields)
      /\ \A p \in names : Held(fn, p, Field(p), fields)
      /\ \A p \in {"ticker", "accountId"} : Held(fn, p, Field(p), fields)
  BY Kinds DEF Held, IsListed, Listed
<1>3. /\ \A p \in DOMAIN fields :
            p \in DOMAIN own \/ p \in names \/ p \in {"ticker", "accountId"}
      /\ \A p \in {"globalConfig", "wxaRegistry", "marketRegistry", "senderRequest"} :
            p \notin DOMAIN own /\ p \notin names
  OBVIOUS
<1> HIDE DEF own, names, fields, fn
<1>4. Reads(fn, fields)
  BY <1>1, <1>2, <1>3, TradeReads
<1> QED
  BY <1>4 DEF fn, fields

LEMMA UpdateReads ==
    Reads("trading::update_order_request",
          [ticker |-> "ticker", accountId |-> "accountId", orderId |-> "orderId",
           newSize |-> "sizeRaw", newTriggerPrice |-> "triggerPriceRaw"])
<1> DEFINE fn == "trading::update_order_request"
           fields == [ticker |-> "ticker", accountId |-> "accountId",
                      orderId |-> "orderId", newSize |-> "sizeRaw",
                      newTriggerPrice |-> "triggerPriceRaw"]
           own == [currentTriggerPrice |-> Free, orderTypeTag |-> Free,
                   newSize |-> Field("sizeRaw"),
                   newTriggerPrice |-> Field("triggerPriceRaw")]
           names == {"orderId"}
<1>1. Layered(Bindings[fn], own, names, TradingRequest)
  BY DEF Layered, Bindings, Sensitive, Perp, OrderArgument
<1>2. /\ \A p \in DOMAIN own : Held(fn, p, own[p], fields)
      /\ \A p \in names : Held(fn, p, Field(p), fields)
      /\ \A p \in {"ticker", "accountId"} : Held(fn, p, Field(p), fields)
  BY Kinds DEF Held, IsListed, Listed
<1>3. /\ \A p \in DOMAIN fields :
            p \in DOMAIN own \/ p \in names \/ p \in {"ticker", "accountId"}
      /\ \A p \in {"globalConfig", "wxaRegistry", "marketRegistry", "senderRequest"} :
            p \notin DOMAIN own /\ p \notin names
  OBVIOUS
<1> HIDE DEF own, names, fields, fn
<1>4. Reads(fn, fields)
  BY <1>1, <1>2, <1>3, TradeReads
<1> QED
  BY <1>4 DEF fn, fields

(* The pool.                                                              *)
LEMMA MintReads ==
    Reads("lp_pool::mint_wlp",
          [accountId |-> "accountId", depositAmount |-> "collateralRaw"])
<1> DEFINE fn == "lp_pool::mint_wlp"
           fields == [accountId |-> "accountId", depositAmount |-> "collateralRaw"]
           own == [aum |-> Obj("wlp.aum"), oracle |-> Obj("oracle.oracle"),
                   minLpAmount |-> Free, depositAmount |-> Field("collateralRaw")]
           names == {"accountId"}
<1>1. Layered(Bindings[fn], own, names, PoolRequest)
  BY DEF Layered, Bindings, Sensitive, Perp, OrderArgument
<1>2. /\ \A p \in DOMAIN own : Held(fn, p, own[p], fields)
      /\ \A p \in names : Held(fn, p, Field(p), fields)
  BY Kinds DEF Held, IsListed, Listed
<1>3. /\ \A p \in DOMAIN fields : p \in DOMAIN own \/ p \in names
      /\ \A p \in {"pool", "globalConfig", "wxaRegistry", "senderRequest"} :
            p \notin DOMAIN own /\ p \notin names
  OBVIOUS
<1> HIDE DEF own, names, fields, fn
<1>4. Reads(fn, fields)
  BY <1>1, <1>2, <1>3, PoolReads
<1> QED
  BY <1>4 DEF fn, fields

LEMMA BurnReads ==
    Reads("lp_pool::request_redeem", [accountId |-> "accountId", lpAmount |-> "amountRaw"])
<1> DEFINE fn == "lp_pool::request_redeem"
           fields == [accountId |-> "accountId", lpAmount |-> "amountRaw"]
           own == [lpAmount |-> Field("amountRaw")]
           names == {"accountId"}
<1>1. Layered(Bindings[fn], own, names, PoolRequest)
  BY DEF Layered, Bindings, Sensitive, Perp, OrderArgument
<1>2. /\ \A p \in DOMAIN own : Held(fn, p, own[p], fields)
      /\ \A p \in names : Held(fn, p, Field(p), fields)
  BY Kinds DEF Held, IsListed, Listed
<1>3. /\ \A p \in DOMAIN fields : p \in DOMAIN own \/ p \in names
      /\ \A p \in {"pool", "globalConfig", "wxaRegistry", "senderRequest"} :
            p \notin DOMAIN own /\ p \notin names
  OBVIOUS
<1> HIDE DEF own, names, fields, fn
<1>4. Reads(fn, fields)
  BY <1>1, <1>2, <1>3, PoolReads
<1> QED
  BY <1>4 DEF fn, fields

(* Nothing over a table.                                                  *)
LEMMA NothingOver ==
    ASSUME NEW names
    PROVE  <<>> @@ Same(names) = Same(names)
<1>1. DOMAIN <<>> = {}
  OBVIOUS
<1> QED
  BY <1>1 DEF @@, Same

LEMMA CancelBurnReads ==
    Reads("lp_pool::cancel_redeem", [requestId |-> "requestId"])
<1> DEFINE fn == "lp_pool::cancel_redeem"
           fields == [requestId |-> "requestId"]
           own == <<>>
           names == {"requestId"}
<1>0. DOMAIN own = {}
  OBVIOUS
<1>1. Layered(Bindings[fn], own, names, PoolRequest)
  BY NothingOver DEF Layered, Bindings, Sensitive, Perp, OrderArgument
<1>2. /\ \A p \in DOMAIN own : Held(fn, p, own[p], fields)
      /\ \A p \in names : Held(fn, p, Field(p), fields)
  BY <1>0, Kinds DEF Held, IsListed, Listed
<1>3. /\ \A p \in DOMAIN fields : p \in DOMAIN own \/ p \in names
      /\ \A p \in {"pool", "globalConfig", "wxaRegistry", "senderRequest"} :
            p \notin DOMAIN own /\ p \notin names
  BY <1>0
<1> HIDE DEF own, names, fields, fn
<1>4. Reads(fn, fields)
  BY <1>1, <1>2, <1>3, PoolReads
<1> QED
  BY <1>4 DEF fn, fields

(* The account.                                                           *)
LEMMA WithdrawReads ==
    Reads("account::request_withdraw",
          [accountId |-> "accountId", recipient |-> "recipient",
           amount |-> "collateralRaw"])
<1> DEFINE fn == "account::request_withdraw"
           fields == [accountId |-> "accountId", recipient |-> "recipient",
                      amount |-> "collateralRaw"]
           own == [amount |-> Field("collateralRaw"),
                   extraData |-> ProducedBy("withdrawal_queue::route_native")]
           names == {"accountId", "recipient"}
<1>1. Layered(Bindings[fn], own, names, AccountRequest)
  BY DEF Layered, Bindings, Sensitive, Perp, OrderArgument, Account
<1>2. /\ \A p \in DOMAIN own : Held(fn, p, own[p], fields)
      /\ \A p \in names : Held(fn, p, Field(p), fields)
  BY Kinds DEF Held, IsListed, Listed
<1>3. /\ \A p \in DOMAIN fields : p \in DOMAIN own \/ p \in names
      /\ \A p \in {"registry", "senderRequest"} : p \notin DOMAIN own /\ p \notin names
  OBVIOUS
<1> HIDE DEF own, names, fields, fn
<1>4. Reads(fn, fields)
  BY <1>1, <1>2, <1>3, AccountReads
<1> QED
  BY <1>4 DEF fn, fields

LEMMA CreateReads ==
    Reads("account::create_account", [alias |-> "alias"])
<1> DEFINE fn == "account::create_account"
           fields == [alias |-> "alias"]
           own == <<>>
           names == {"alias"}
<1>0. DOMAIN own = {}
  OBVIOUS
<1>1. Layered(Bindings[fn], own, names, AccountRequest)
  BY NothingOver DEF Layered, Bindings, Sensitive, Perp, OrderArgument, Account
<1>2. /\ \A p \in DOMAIN own : Held(fn, p, own[p], fields)
      /\ \A p \in names : Held(fn, p, Field(p), fields)
  BY <1>0, Kinds DEF Held, IsListed, Listed
<1>3. /\ \A p \in DOMAIN fields : p \in DOMAIN own \/ p \in names
      /\ \A p \in {"registry", "senderRequest"} : p \notin DOMAIN own /\ p \notin names
  BY <1>0
<1> HIDE DEF own, names, fields, fn
<1>4. Reads(fn, fields)
  BY <1>1, <1>2, <1>3, AccountReads
<1> QED
  BY <1>4 DEF fn, fields

LEMMA AddDelegateReads ==
    Reads("account::add_delegate",
          [accountId |-> "accountId", delegateAddress |-> "delegateAddress",
           permissions |-> "delegateBasePermissions",
           expiresAtMs |-> "delegateExpiresAtMs"])
<1> DEFINE fn == "account::add_delegate"
           fields == [accountId |-> "accountId", delegateAddress |-> "delegateAddress",
                      permissions |-> "delegateBasePermissions",
                      expiresAtMs |-> "delegateExpiresAtMs"]
           own == [alias |-> Free, permissions |-> Field("delegateBasePermissions"),
                   expiresAtMs |-> Field("delegateExpiresAtMs")]
           names == {"accountId", "delegateAddress"}
<1>1. Layered(Bindings[fn], own, names, AccountRequest)
  BY DEF Layered, Bindings, Sensitive, Perp, OrderArgument, Account
<1>2. /\ \A p \in DOMAIN own : Held(fn, p, own[p], fields)
      /\ \A p \in names : Held(fn, p, Field(p), fields)
  BY Kinds DEF Held, IsListed, Listed
<1>3. /\ \A p \in DOMAIN fields : p \in DOMAIN own \/ p \in names
      /\ \A p \in {"registry", "senderRequest"} : p \notin DOMAIN own /\ p \notin names
  OBVIOUS
<1> HIDE DEF own, names, fields, fn
<1>4. Reads(fn, fields)
  BY <1>1, <1>2, <1>3, AccountReads
<1> QED
  BY <1>4 DEF fn, fields

LEMMA RemoveDelegateReads ==
    ASSUME ask.op # "removeAllDelegates"
    PROVE  Reads("account::remove_delegate",
                 [accountId |-> "accountId", delegateAddress |-> "delegateAddress"])
<1> DEFINE fn == "account::remove_delegate"
           fields == [accountId |-> "accountId", delegateAddress |-> "delegateAddress"]
           own == <<>>
           names == {"accountId", "delegateAddress"}
<1>0. DOMAIN own = {}
  OBVIOUS
<1>1. Layered(Bindings[fn], own, names, AccountRequest)
  BY NothingOver DEF Layered, Bindings, Sensitive, Perp, OrderArgument, Account
<1>2. /\ \A p \in DOMAIN own : Held(fn, p, own[p], fields)
      /\ \A p \in names : Held(fn, p, Field(p), fields)
  BY <1>0, Kinds DEF Held, IsListed, Listed
<1>3. /\ \A p \in DOMAIN fields : p \in DOMAIN own \/ p \in names
      /\ \A p \in {"registry", "senderRequest"} : p \notin DOMAIN own /\ p \notin names
  BY <1>0
<1> HIDE DEF own, names, fields, fn
<1>4. Reads(fn, fields)
  BY <1>1, <1>2, <1>3, AccountReads
<1> QED
  BY <1>4 DEF fn, fields

LEMMA ClaimReads ==
    Reads("waterx_staking::claim", [accountId |-> "accountId"])
<1> DEFINE fn == "waterx_staking::claim"
           fields == [accountId |-> "accountId"]
           own == [self |-> Free, request |-> Free,
                   wxaRegistry |-> Obj("account.registry")]
           names == {"accountId"}
<1>1. Bindings[fn] = own @@ Same(names)
  BY DEF Bindings, Sensitive, Perp, OrderArgument, Account, Queue
<1>2. /\ \A p \in DOMAIN own : Held(fn, p, own[p], fields)
      /\ \A p \in names : Held(fn, p, Field(p), fields)
  BY Kinds DEF Held, IsListed, Listed
<1>3. /\ DOMAIN (own @@ Same(names)) = DOMAIN own \cup DOMAIN Same(names)
      /\ \A p \in DOMAIN own : (own @@ Same(names))[p] = own[p]
      /\ \A p \in DOMAIN Same(names) : p \notin DOMAIN own =>
            (own @@ Same(names))[p] = Same(names)[p]
      /\ DOMAIN Same(names) = names /\ \A p \in names : Same(names)[p] = Field(p)
  <2> HIDE DEF own, names
  <2>1. DOMAIN Same(names) = names /\ \A p \in names : Same(names)[p] = Field(p)
    BY DEF Same
  <2> QED
    BY <2>1, Layers
<1>4. \A p \in DOMAIN fields : p \in DOMAIN own \/ p \in names
  OBVIOUS
<1> HIDE DEF own, names, fields, fn
<1>5. Reads(fn, fields)
  BY <1>1, <1>2, <1>3, <1>4 DEF Reads
<1> QED
  BY <1>5 DEF fn, fields

LEMMA DepositReads ==
    Reads("custody_vault::mint", [accountId |-> "accountId"])
<1> DEFINE fn == "custody_vault::mint"
           fields == [accountId |-> "accountId"]
           own == [vault |-> Obj("custody.vault"), registry |-> Obj("credit.registry"),
                   accountRegistry |-> Obj("account.registry"),
                   assetCoin |-> ProducedBy("coin::redeem_funds"), extraData |-> Free]
           names == {"accountId"}
<1>1. Bindings[fn] = own @@ Same(names)
  BY DEF Bindings, Sensitive, Perp, OrderArgument, Account, Queue
<1>2. /\ \A p \in DOMAIN own : Held(fn, p, own[p], fields)
      /\ \A p \in names : Held(fn, p, Field(p), fields)
  BY Kinds DEF Held, IsListed, Listed
<1>3. /\ DOMAIN (own @@ Same(names)) = DOMAIN own \cup DOMAIN Same(names)
      /\ \A p \in DOMAIN own : (own @@ Same(names))[p] = own[p]
      /\ \A p \in DOMAIN Same(names) : p \notin DOMAIN own =>
            (own @@ Same(names))[p] = Same(names)[p]
      /\ DOMAIN Same(names) = names /\ \A p \in names : Same(names)[p] = Field(p)
  <2> HIDE DEF own, names
  <2>1. DOMAIN Same(names) = names /\ \A p \in names : Same(names)[p] = Field(p)
    BY DEF Same
  <2> QED
    BY <2>1, Layers
<1>4. \A p \in DOMAIN fields : p \in DOMAIN own \/ p \in names
  OBVIOUS
<1> HIDE DEF own, names, fields, fn
<1>5. Reads(fn, fields)
  BY <1>1, <1>2, <1>3, <1>4 DEF Reads
<1> QED
  BY <1>5 DEF fn, fields

-----------------------------------------------------------------------------
(* What a verified call says.                                             *)

(* What an intent says of these parameters.                               *)
Says(intent, fields) == [p \in DOMAIN fields |-> intent[fields[p]]]

(* What is read of the arguments of a call is what the intent says.       *)
LEMMA ValuesAre ==
    ASSUME NEW i, NEW intent, NEW deployment, NEW fields,
           ArgumentsAreBound(tx, tx.commands[i], intent, deployment, <<>>),
           Reads(tx.commands[i].fn, fields), \A p \in DOMAIN fields : fields[p] # "side"
    PROVE  Values(i) = Says(intent, fields)
<1> DEFINE call == tx.commands[i]
           B == Bindings[call.fn]
<1>1. ASSUME NEW p \in DOMAIN B
      PROVE  /\ p \in DOMAIN call.args
             /\ ArgumentIsBound(tx, call, p, B[p], intent, deployment)
  BY <1>1, ArgumentIsBoundTo
<1>2. DOMAIN call.args = DOMAIN B
  BY DEF ArgumentsAreBound
<1>3. DOMAIN fields \subseteq DOMAIN B /\ \A p \in DOMAIN B : Held(call.fn, p, B[p], fields)
  BY DEF Reads
<1>4. ASSUME NEW p \in DOMAIN fields
      PROVE  /\ p \in DOMAIN call.args /\ call.args[p].is = "pure"
             /\ call.args[p].v = intent[fields[p]] /\ ~IsListed(call.fn, p)
  <2>1. p \in DOMAIN B /\ B[p].by = "field" /\ B[p].of = fields[p] /\ ~IsListed(call.fn, p)
    BY <1>3, <1>4 DEF Held
  <2>2. Agrees(intent, fields[p], p \in Optional(call.fn), Read(call.args[p]))
    BY <1>1, <2>1 DEF ArgumentIsBound
  <2>3. Read(call.args[p]) = intent[fields[p]] /\ Read(call.args[p]) # Unreadable
    BY <2>2, NameAssumption, AuthorizedField DEF Agrees
  <2> QED
    BY <1>1, <2>1, <2>3 DEF Read
<1>5. ASSUME NEW p \in DOMAIN B, p \notin DOMAIN fields, call.args[p].is = "pure"
      PROVE  IsListed(call.fn, p)
  <2>1. B[p].by \in {"free", "object", "produced", "vector"}
    BY <1>3, <1>5 DEF Held
  <2>2. ArgumentIsBound(tx, call, p, B[p], intent, deployment)
    BY <1>1
  <2>3. B[p].by = "free"
    BY <1>5, <2>1, <2>2 DEF ArgumentIsBound, IsObject, IsProducedBy, IsVectorOf
  <2> QED
    BY <1>3, <2>3 DEF Held
<1>6. {q \in DOMAIN call.args : call.args[q].is = "pure" /\ ~IsListed(call.fn, q)}
          = DOMAIN fields
  BY <1>2, <1>3, <1>4, <1>5
<1>7. Values(i) = [p \in {q \in DOMAIN call.args :
                         call.args[q].is = "pure" /\ ~IsListed(call.fn, q)} |-> call.args[p].v]
  BY DEF Values
<1> HIDE DEF B, call
<1>8. Values(i) = [p \in DOMAIN fields |-> call.args[p].v]
  BY <1>6, <1>7
<1> QED
  BY <1>4, <1>8 DEF Says

(* The operations of a verified transaction are the calls its action is    *)
(* defined by.                                                             *)
Rides == {"account::set_delegate_protocol_permission", "withdrawal_queue::route_native",
          "withdrawal_queue::enqueue"}

LEMMA OperationsAre ==
    ASSUME Verified, NEW rule, rule = ActionRules[Plan(ask).intent.action],
           rule.companions \subseteq Rides, rule.entrypoint \in Sensitive \ Rides
    PROVE  /\ Operations = CallsOf(tx, {rule.entrypoint}) /\ Operations # {}
           /\ rule.many \/ Cardinality(Operations) = 1
           /\ \A i \in Operations :
                /\ i \in CallsOf(tx, Sensitive) /\ tx.commands[i].fn = rule.entrypoint
                /\ CodeIsTheDeployments(tx.commands[i], Plan(ask).intent, context.deployment)
                /\ ArgumentsAreBound(tx, tx.commands[i], Plan(ask).intent, context.deployment,
                                     rule.overrides)
           /\ \A i \in Grants \cup Relays :
                /\ CodeIsTheDeployments(tx.commands[i], Plan(ask).intent, context.deployment)
                /\ ArgumentsAreBound(tx, tx.commands[i], Plan(ask).intent, context.deployment,
                                     rule.overrides)
           /\ "account::set_delegate_protocol_permission" \notin rule.companions => Grants = {}
           /\ (/\ "withdrawal_queue::route_native" \notin rule.companions
               /\ "withdrawal_queue::enqueue" \notin rule.companions) => Relays = {}
<1> DEFINE intent == Plan(ask).intent
           defining == CallsOf(tx, {rule.entrypoint})
           companions == CallsOf(tx, rule.companions)
<1>1. /\ defining # {} /\ CallsOf(tx, Sensitive) \subseteq defining \cup companions
      /\ rule.many \/ Cardinality(defining) = 1
      /\ \A i \in defining \cup companions :
            /\ CodeIsTheDeployments(tx.commands[i], intent, context.deployment)
            /\ ArgumentsAreBound(tx, tx.commands[i], intent, context.deployment, rule.overrides)
  BY DEF Verified, Matches
<1>2. Rides \subseteq Sensitive
  BY DEF Rides, Sensitive, Account, Queue
<1>3. Grants \cup Relays = CallsOf(tx, Rides)
  BY DEF Grants, Relays, CallsOf, Rides
<1>4. Operations = CallsOf(tx, Sensitive) \ CallsOf(tx, Rides)
  BY <1>3 DEF Operations
<1> HIDE DEF intent
<1>5. Operations = defining
  BY <1>1, <1>4 DEF CallsOf
<1>6. \A i \in defining : i \in CallsOf(tx, Sensitive) /\ tx.commands[i].fn = rule.entrypoint
  BY DEF CallsOf
<1>7. CallsOf(tx, Rides) \subseteq companions
  BY <1>1, <1>2 DEF CallsOf
<1>8. Grants \cup Relays \subseteq companions
  BY <1>3, <1>7
<1>9. /\ "account::set_delegate_protocol_permission" \notin rule.companions => Grants = {}
      /\ (/\ "withdrawal_queue::route_native" \notin rule.companions
          /\ "withdrawal_queue::enqueue" \notin rule.companions) => Relays = {}
  BY <1>8 DEF Grants, Relays, CallsOf
<1> QED
  BY <1>1, <1>5, <1>6, <1>8, <1>9 DEF intent

-----------------------------------------------------------------------------
(* What each request is planned to be.                                    *)

(* The action of each request but an opening, which is one of two,         *)
ActionOfEach ==
    [limit |-> "placeLimitOrder", placeTpSl |-> "placeTpSl", close |-> "closePosition",
     reduce |-> "reducePosition", increase |-> "increasePosition", addMargin |-> "addMargin",
     removeMargin |-> "removeMargin", cancel |-> "cancelOrder", update |-> "updateOrder",
     createAccount |-> "createAccount", deposit |-> "deposit", withdraw |-> "withdraw",
     addDelegate |-> "addDelegate", removeDelegate |-> "removeDelegate",
     removeAllDelegates |-> "removeAllDelegates", mintWlp |-> "mintWlp", burnWlp |-> "burnWlp",
     cancelWlpBurn |-> "cancelWlpBurn", claimWlpRewards |-> "claimWlpRewards"]

(* and the call that defines it.                                          *)
CallOfEach ==
    [open |-> "trading::place_order_request", limit |-> "trading::place_order_request",
     placeTpSl |-> "trading::place_order_request", close |-> "trading::close_position_request",
     reduce |-> "trading::decrease_position_request",
     increase |-> "trading::increase_position_request",
     addMargin |-> "trading::deposit_collateral_request",
     removeMargin |-> "trading::withdraw_collateral_request",
     cancel |-> "trading::cancel_order_request", update |-> "trading::update_order_request",
     createAccount |-> "account::create_account", deposit |-> "custody_vault::mint",
     withdraw |-> "account::request_withdraw", addDelegate |-> "account::add_delegate",
     removeDelegate |-> "account::remove_delegate",
     removeAllDelegates |-> "account::remove_delegate", mintWlp |-> "lp_pool::mint_wlp",
     burnWlp |-> "lp_pool::request_redeem", cancelWlpBurn |-> "lp_pool::cancel_redeem",
     claimWlpRewards |-> "waterx_staking::claim"]

LEMMA EachAction ==
    ASSUME IsAsk(ask)
    PROVE  Plan(ask).intent.action =
               IF ask.op = "open" THEN IF ask.isLong THEN "openLong" ELSE "openShort"
               ELSE ActionOfEach[ask.op]
<1>1. ask.op \in {"close", "reduce", "addMargin", "cancel", "createAccount", "deposit",
                  "withdraw", "addDelegate", "removeDelegate", "removeAllDelegates", "burnWlp",
                  "cancelWlpBurn", "claimWlpRewards", "open", "limit", "increase",
                  "removeMargin", "update", "mintWlp", "placeTpSl"}
  BY DEF IsAsk, Needs
<1>2. DOMAIN <<>> = {}
  OBVIOUS
<1>3. CASE ask.op \in {"open", "limit", "increase", "removeMargin", "update", "mintWlp",
                       "placeTpSl"}
  <2>1. /\ ActionOfEach["limit"] = "placeLimitOrder"
        /\ ActionOfEach["placeTpSl"] = "placeTpSl"
        /\ ActionOfEach["increase"] = "increasePosition"
        /\ ActionOfEach["removeMargin"] = "removeMargin"
        /\ ActionOfEach["update"] = "updateOrder" /\ ActionOfEach["mintWlp"] = "mintWlp"
    BY DEF ActionOfEach
  <2>2. ask.op \in {"open", "limit", "increase"} => Plan(ask).intent.action =
            IF ask.op = "open" THEN IF ask.isLong THEN "openLong" ELSE "openShort"
            ELSE ActionOfEach[ask.op]
    BY <2>1, OpenSays, LimitSays, IncreaseSays
  <2>3. ask.op \in {"removeMargin", "update", "mintWlp", "placeTpSl"} =>
            Plan(ask).intent.action = ActionOfEach[ask.op]
    BY <2>1, RemoveMarginSays, UpdateSays, MintSays, BracketSays
  <2> QED
    BY <1>3, <2>2, <2>3
<1>4. CASE ask.op \in {"close", "reduce", "addMargin", "cancel"}
  BY <1>4 DEF Intent, Fields, Plan, PlanClosePosition, PlanReducePosition, PlanAddMargin,
     PlanCancelOrder, ActionOfEach
<1>5. CASE ask.op \in {"burnWlp", "cancelWlpBurn", "claimWlpRewards"}
  BY <1>2, <1>5 DEF Intent, Fields, Plan, PlanBurnWlp, PlanCancelWlpBurn, PlanClaimWlpRewards,
     ActionOfEach
<1>6. CASE ask.op \in {"deposit", "withdraw", "addDelegate"}
  BY <1>6 DEF Intent, Fields, Plan, PlanDeposit, PlanWithdraw, PlanAddDelegate, ActionOfEach
<1>7. CASE ask.op \in {"removeDelegate", "removeAllDelegates"}
  BY <1>2, <1>7 DEF Intent, Fields, Plan, PlanRemoveDelegate, PlanRemoveAllDelegates,
     ActionOfEach
<1>8. CASE ask.op = "createAccount"
  <2>1. Plan(ask).intent = [Intent("createAccount", FALSE, [alias |-> ask.name])
                                EXCEPT !.accountId = Undefined]
    BY <1>8 DEF Plan, PlanCreateAccount
  <2>2. Plan(ask).intent.action = Intent("createAccount", FALSE, [alias |-> ask.name]).action
    BY <2>1 DEF Intent, Fields
  <2> QED
    BY <1>8, <2>2 DEF Intent, Fields, ActionOfEach
<1> QED
  BY <1>1, <1>3, <1>4, <1>5, <1>6, <1>7, <1>8

LEMMA EachRule ==
    ASSUME IsAsk(ask), NEW rule, rule = ActionRules[Plan(ask).intent.action]
    PROVE  /\ rule.entrypoint = CallOfEach[ask.op] /\ rule.entrypoint \in Sensitive \ Rides
           /\ rule.many <=> ask.op \in {"placeTpSl", "removeAllDelegates"}
           /\ rule.companions =
                 (IF ask.op = "addDelegate" THEN {"account::set_delegate_protocol_permission"}
                  ELSE IF ask.op = "withdraw"
                  THEN {"withdrawal_queue::route_native", "withdrawal_queue::enqueue"}
                  ELSE {})
           /\ rule.overrides = (IF ask.op = "removeAllDelegates"
                                THEN [delegateAddress |-> Free] ELSE <<>>)
           /\ rule.grants <=> ask.op = "addDelegate"
<1>1. ask.op \in {"close", "reduce", "addMargin", "cancel", "createAccount", "deposit",
                  "withdraw", "addDelegate", "removeDelegate", "removeAllDelegates", "burnWlp",
                  "cancelWlpBurn", "claimWlpRewards", "open", "limit", "increase",
                  "removeMargin", "update", "mintWlp", "placeTpSl"}
  BY DEF IsAsk, Needs
<1>2. CallOfEach[ask.op] \in Sensitive \ Rides
  BY <1>1 DEF CallOfEach, Sensitive, Perp, Account, Queue, OrderArgument, Rides
<1>3. rule = ActionRules[IF ask.op = "open" THEN IF ask.isLong THEN "openLong" ELSE "openShort"
                         ELSE ActionOfEach[ask.op]]
  BY EachAction
<1>4. /\ ActionRules["openLong"] = Rule("trading::place_order_request")
      /\ ActionRules["openShort"] = Rule("trading::place_order_request")
      /\ ActionRules["placeLimitOrder"] = Rule("trading::place_order_request")
      /\ ActionRules["closePosition"] = Rule("trading::close_position_request")
      /\ ActionRules["reducePosition"] = Rule("trading::decrease_position_request")
      /\ ActionRules["increasePosition"] = Rule("trading::increase_position_request")
      /\ ActionRules["addMargin"] = Rule("trading::deposit_collateral_request")
      /\ ActionRules["removeMargin"] = Rule("trading::withdraw_collateral_request")
      /\ ActionRules["cancelOrder"] = Rule("trading::cancel_order_request")
      /\ ActionRules["updateOrder"] = Rule("trading::update_order_request")
      /\ ActionRules["createAccount"] = Rule("account::create_account")
      /\ ActionRules["deposit"] = Rule("custody_vault::mint")
      /\ ActionRules["removeDelegate"] = Rule("account::remove_delegate")
      /\ ActionRules["mintWlp"] = Rule("lp_pool::mint_wlp")
      /\ ActionRules["burnWlp"] = Rule("lp_pool::request_redeem")
      /\ ActionRules["cancelWlpBurn"] = Rule("lp_pool::cancel_redeem")
      /\ ActionRules["claimWlpRewards"] = Rule("waterx_staking::claim")
      /\ ActionRules["placeTpSl"] = [Rule("trading::place_order_request") EXCEPT !.many = TRUE]
      /\ ActionRules["withdraw"] = [Rule("account::request_withdraw") EXCEPT !.companions =
            {"withdrawal_queue::route_native", "withdrawal_queue::enqueue"}]
      /\ ActionRules["addDelegate"] = [Rule("account::add_delegate") EXCEPT !.grants = TRUE,
            !.companions = {"account::set_delegate_protocol_permission"}]
      /\ ActionRules["removeAllDelegates"] = [Rule("account::remove_delegate") EXCEPT
            !.many = TRUE, !.overrides = [delegateAddress |-> Free]]
  BY DEF ActionRules, Actions
<1>5. /\ ActionOfEach["limit"] = "placeLimitOrder"
      /\ ActionOfEach["placeTpSl"] = "placeTpSl" /\ ActionOfEach["close"] = "closePosition"
      /\ ActionOfEach["reduce"] = "reducePosition"
      /\ ActionOfEach["increase"] = "increasePosition"
      /\ ActionOfEach["addMargin"] = "addMargin"
      /\ ActionOfEach["removeMargin"] = "removeMargin"
      /\ ActionOfEach["cancel"] = "cancelOrder" /\ ActionOfEach["update"] = "updateOrder"
      /\ ActionOfEach["createAccount"] = "createAccount"
      /\ ActionOfEach["deposit"] = "deposit" /\ ActionOfEach["withdraw"] = "withdraw"
      /\ ActionOfEach["addDelegate"] = "addDelegate"
      /\ ActionOfEach["removeDelegate"] = "removeDelegate"
      /\ ActionOfEach["removeAllDelegates"] = "removeAllDelegates"
      /\ ActionOfEach["mintWlp"] = "mintWlp" /\ ActionOfEach["burnWlp"] = "burnWlp"
      /\ ActionOfEach["cancelWlpBurn"] = "cancelWlpBurn"
      /\ ActionOfEach["claimWlpRewards"] = "claimWlpRewards"
  BY DEF ActionOfEach
<1>6. /\ CallOfEach["open"] = "trading::place_order_request"
      /\ CallOfEach["limit"] = "trading::place_order_request"
      /\ CallOfEach["placeTpSl"] = "trading::place_order_request"
      /\ CallOfEach["close"] = "trading::close_position_request"
      /\ CallOfEach["reduce"] = "trading::decrease_position_request"
      /\ CallOfEach["increase"] = "trading::increase_position_request"
      /\ CallOfEach["addMargin"] = "trading::deposit_collateral_request"
      /\ CallOfEach["removeMargin"] = "trading::withdraw_collateral_request"
      /\ CallOfEach["cancel"] = "trading::cancel_order_request"
      /\ CallOfEach["update"] = "trading::update_order_request"
      /\ CallOfEach["createAccount"] = "account::create_account"
      /\ CallOfEach["deposit"] = "custody_vault::mint"
      /\ CallOfEach["withdraw"] = "account::request_withdraw"
      /\ CallOfEach["addDelegate"] = "account::add_delegate"
      /\ CallOfEach["removeDelegate"] = "account::remove_delegate"
      /\ CallOfEach["removeAllDelegates"] = "account::remove_delegate"
      /\ CallOfEach["mintWlp"] = "lp_pool::mint_wlp"
      /\ CallOfEach["burnWlp"] = "lp_pool::request_redeem"
      /\ CallOfEach["cancelWlpBurn"] = "lp_pool::cancel_redeem"
      /\ CallOfEach["claimWlpRewards"] = "waterx_staking::claim"
  BY DEF CallOfEach
<1>7. CASE ask.op \in {"placeTpSl", "withdraw", "addDelegate", "removeAllDelegates"}
  <2>1. CASE ask.op = "placeTpSl"
    <3>1. rule = [Rule("trading::place_order_request") EXCEPT !.many = TRUE]
      BY <1>3, <1>4, <1>5, <2>1
    <3> QED
      BY <1>2, <1>6, <2>1, <3>1 DEF Rule
  <2>2. CASE ask.op = "withdraw"
    <3>1. rule = [Rule("account::request_withdraw") EXCEPT !.companions =
                    {"withdrawal_queue::route_native", "withdrawal_queue::enqueue"}]
      BY <1>3, <1>4, <1>5, <2>2
    <3> QED
      BY <1>2, <1>6, <2>2, <3>1 DEF Rule
  <2>3. CASE ask.op = "addDelegate"
    <3>1. rule = [Rule("account::add_delegate") EXCEPT !.grants = TRUE,
                    !.companions = {"account::set_delegate_protocol_permission"}]
      BY <1>3, <1>4, <1>5, <2>3
    <3> QED
      BY <1>2, <1>6, <2>3, <3>1 DEF Rule
  <2>4. CASE ask.op = "removeAllDelegates"
    <3>1. rule = [Rule("account::remove_delegate") EXCEPT !.many = TRUE,
                    !.overrides = [delegateAddress |-> Free]]
      BY <1>3, <1>4, <1>5, <2>4
    <3> QED
      BY <1>2, <1>6, <2>4, <3>1 DEF Rule
  <2> QED
    BY <1>7, <2>1, <2>2, <2>3, <2>4
<1>8. CASE ask.op \notin {"placeTpSl", "withdraw", "addDelegate", "removeAllDelegates"}
  <2>1. rule = Rule(CallOfEach[ask.op])
    BY <1>1, <1>3, <1>4, <1>5, <1>6, <1>8
  <2> QED
    BY <1>2, <1>8, <2>1 DEF Rule
<1> QED
  BY <1>7, <1>8

-----------------------------------------------------------------------------
(* Each operation is the one asked for.                                   *)

(* What an operation says is what the intent says,                        *)
LEMMA OperationSays ==
    ASSUME IsAsk(ask), Verified, ask.op # "removeAllDelegates", NEW i \in Operations,
           NEW fields, Reads(CallOfEach[ask.op], fields), \A p \in DOMAIN fields : fields[p] # "side"
    PROVE  /\ tx.commands[i].fn = CallOfEach[ask.op] /\ Values(i) = Says(Plan(ask).intent, fields)
           /\ CodeIsTheDeployments(tx.commands[i], Plan(ask).intent, context.deployment)
           /\ ArgumentsAreBound(tx, tx.commands[i], Plan(ask).intent, context.deployment, <<>>)
<1> DEFINE rule == ActionRules[Plan(ask).intent.action]
<1>1. /\ rule.entrypoint = CallOfEach[ask.op] /\ rule.entrypoint \in Sensitive \ Rides
      /\ rule.overrides = <<>> /\ rule.companions \subseteq Rides
  BY EachRule DEF Rides
<1>2. /\ tx.commands[i].fn = CallOfEach[ask.op]
      /\ CodeIsTheDeployments(tx.commands[i], Plan(ask).intent, context.deployment)
      /\ ArgumentsAreBound(tx, tx.commands[i], Plan(ask).intent, context.deployment, <<>>)
  BY <1>1, OperationsAre
<1> QED
  BY <1>2, ValuesAre

(* and nothing is paid by most of them.                                   *)
LEMMA EffectSays ==
    ASSUME IsAsk(ask), Verified, ask.op # "removeAllDelegates", NEW i \in Operations,
           NEW fields, Reads(CallOfEach[ask.op], fields), \A p \in DOMAIN fields : fields[p] # "side",
           CallOfEach[ask.op] \notin {"custody_vault::mint", "account::request_withdraw"}
    PROVE  Effect(i) = Asked(CallOfEach[ask.op], Says(Plan(ask).intent, fields))
  BY OperationSays DEF Effect, Asked, PaidIn

(* What is asked of a market.                                             *)
LEMMA OnMarketIs ==
    ASSUME NEW values, NEW fields,
           \A p : p \in DOMAIN fields <=> p \in DOMAIN values \/ p \in {"ticker", "accountId"},
           \A p \in {"ticker", "accountId"} : p \notin DOMAIN values /\ fields[p] = p,
           Plan(ask).intent["ticker"] = ask.ticker, Plan(ask).intent["accountId"] = AccountId,
           \A p \in DOMAIN values : Plan(ask).intent[fields[p]] = values[p]
    PROVE  Says(Plan(ask).intent, fields) = OnMarket(values)
<1> DEFINE market_ == [ticker |-> ask.ticker, accountId |-> AccountId]
<1>1. /\ DOMAIN market_ = {"ticker", "accountId"} /\ market_["ticker"] = ask.ticker
      /\ market_["accountId"] = AccountId
  OBVIOUS
<1>2. OnMarket(values) = values @@ market_
  BY DEF OnMarket
<1> HIDE DEF market_
<1>3. values @@ market_ = [x \in DOMAIN values \cup DOMAIN market_ |->
                              IF x \in DOMAIN values THEN values[x] ELSE market_[x]]
  BY DEF @@
<1>4. DOMAIN fields = DOMAIN values \cup DOMAIN market_
  BY <1>1
<1>5. \A x \in DOMAIN fields : Plan(ask).intent[fields[x]] =
          IF x \in DOMAIN values THEN values[x] ELSE market_[x]
  BY <1>1
<1> QED
  BY <1>2, <1>3, <1>4, <1>5 DEF Says

LEMMA PlacementIsMeant ==
    ASSUME IsAsk(ask), Verified, ask.op \in {"open", "limit", "placeTpSl"}, NEW i \in Operations
    PROVE  Effect(i) = AskedEffect
<1> DEFINE fields == [ticker |-> "ticker", accountId |-> "accountId"]
           values == <<>>
<1>1. CallOfEach[ask.op] = "trading::place_order_request"
  BY DEF CallOfEach
<1>2. \A p \in DOMAIN fields : fields[p] # "side"
  OBVIOUS
<1>3. Effect(i) = Asked("trading::place_order_request", Says(Plan(ask).intent, fields))
  BY <1>1, <1>2, PlaceReads, EffectSays
<1>4. /\ Plan(ask).intent["ticker"] = ask.ticker
      /\ Plan(ask).intent["accountId"] = AccountId
  BY DEF Intent, Fields, Plan, PlanOpenPosition, PlanPlaceLimitOrder, PlanPlaceTpSl
<1>5. Says(Plan(ask).intent, fields) = OnMarket(values)
  <2>1. DOMAIN values = {}
    OBVIOUS
  <2>2. /\ DOMAIN fields = {"ticker", "accountId"}
        /\ \A p \in {"ticker", "accountId"} : p \notin DOMAIN values /\ fields[p] = p
    BY <2>1
  <2> HIDE DEF fields, values
  <2> QED
    BY <1>4, <2>1, <2>2, OnMarketIs
<1>6. AskedEffect = Asked("trading::place_order_request", OnMarket(values))
  BY DEF AskedEffect
<1> QED
  BY <1>3, <1>5, <1>6

LEMMA CloseIsMeant ==
    ASSUME IsAsk(ask), Verified, ask.op = "close", NEW i \in Operations
    PROVE  Effect(i) = AskedEffect
<1> DEFINE fields == [ticker |-> "ticker", accountId |-> "accountId", positionId |-> "positionId",
                      acceptablePrice |-> "acceptablePriceRaw"]
           values == [positionId |-> ask.positionId,
                      acceptablePrice |-> Worst(IF PositionOf(ask).side = "long"
                                                THEN "sell" ELSE "buy")]
<1>1. CallOfEach[ask.op] = "trading::close_position_request"
  BY DEF CallOfEach
<1>2. \A p \in DOMAIN fields : fields[p] # "side"
  OBVIOUS
<1>3. Effect(i) = Asked("trading::close_position_request", Says(Plan(ask).intent, fields))
  BY <1>1, <1>2, CloseReads, EffectSays
<1>4. /\ Plan(ask).intent["ticker"] = ask.ticker
      /\ Plan(ask).intent["accountId"] = AccountId
      /\ Plan(ask).intent["positionId"] = ask.positionId
      /\ Plan(ask).intent["acceptablePriceRaw"] =
             AcceptablePriceFor(Spot, Exit(PositionOf(ask).side), Slippage(ask))
  BY DEF Intent, Fields, Plan, PlanClosePosition
<1>5. Says(Plan(ask).intent, fields) = OnMarket(values)
  <2>1. values["acceptablePrice"] =
             AcceptablePriceFor(Spot, Exit(PositionOf(ask).side), Slippage(ask))
    BY DEF Worst, AcceptablePriceFor, Exit
  <2>2. /\ DOMAIN values = {"positionId", "acceptablePrice"}
        /\ values["positionId"] = ask.positionId
        /\ DOMAIN fields = {"ticker", "accountId", "positionId", "acceptablePrice"}
        /\ \A p \in {"ticker", "accountId", "positionId"} : fields[p] = p
        /\ fields["acceptablePrice"] = "acceptablePriceRaw"
    OBVIOUS
  <2> HIDE DEF fields, values
  <2> QED
    BY <1>4, <2>1, <2>2, OnMarketIs
<1>6. AskedEffect = Asked("trading::close_position_request", OnMarket(values))
  BY DEF AskedEffect
<1> QED
  BY <1>3, <1>5, <1>6

(* A size is given, or a part of what there is.                           *)
LEMMA CanReduceSays ==
    ASSUME CanPlan(ask, context.signer # OwnerAddress), ask.op = "reduce"
    PROVE  Or(ask, "size", Rounded(PositionOf(ask).sizeInAsset * Or(ask, "percent", 0), 100))
               = ReducedSize(ask, PositionOf(ask))
  BY DEF CanPlan, CanReduce, Or, Given, ReducedSize

LEMMA ReduceIsMeant ==
    ASSUME IsAsk(ask), CanPlan(ask, context.signer # OwnerAddress), Verified,
           ask.op = "reduce", NEW i \in Operations
    PROVE  Effect(i) = AskedEffect
<1> DEFINE fields == [ticker |-> "ticker", accountId |-> "accountId",
                      positionId |-> "positionId", size |-> "sizeRaw",
                      acceptablePrice |-> "acceptablePriceRaw"]
           values == [positionId |-> ask.positionId,
                      size |-> Or(ask, "size", Rounded(PositionOf(ask).sizeInAsset
                                                  * Or(ask, "percent", 0), 100)),
                      acceptablePrice |-> Worst(IF PositionOf(ask).side = "long"
                                                THEN "sell" ELSE "buy")]
<1>1. CallOfEach[ask.op] = "trading::decrease_position_request"
  BY DEF CallOfEach
<1>2. \A p \in DOMAIN fields : fields[p] # "side"
  OBVIOUS
<1>3. Effect(i) = Asked("trading::decrease_position_request", Says(Plan(ask).intent, fields))
  BY <1>1, <1>2, ReduceReads, EffectSays
<1>4. /\ Plan(ask).intent["ticker"] = ask.ticker
      /\ Plan(ask).intent["accountId"] = AccountId
      /\ Plan(ask).intent["positionId"] = ask.positionId
      /\ Plan(ask).intent["sizeRaw"] = ReducedSize(ask, PositionOf(ask))
      /\ Plan(ask).intent["acceptablePriceRaw"] = 
             AcceptablePriceFor(Spot, Exit(PositionOf(ask).side), Slippage(ask))
  BY DEF Intent, Fields, Plan, PlanReducePosition
<1>5. Says(Plan(ask).intent, fields) = OnMarket(values)
  <2>1. /\ values["positionId"] = ask.positionId
        /\ values["size"] = ReducedSize(ask, PositionOf(ask))
        /\ values["acceptablePrice"] = 
             AcceptablePriceFor(Spot, Exit(PositionOf(ask).side), Slippage(ask))
    BY CanReduceSays DEF Worst, AcceptablePriceFor, Exit
  <2>2. /\ DOMAIN values = {"positionId", "size", "acceptablePrice"}
        /\ DOMAIN fields = {"ticker", "accountId", "positionId", "size",
                            "acceptablePrice"}
        /\ \A p \in {"ticker", "accountId", "positionId"} : fields[p] = p
        /\ fields["size"] = "sizeRaw"
        /\ fields["acceptablePrice"] = "acceptablePriceRaw"
    OBVIOUS
  <2> HIDE DEF fields, values
  <2> QED
    BY <1>4, <2>1, <2>2, OnMarketIs
<1>6. AskedEffect = Asked("trading::decrease_position_request", OnMarket(values))
  BY DEF AskedEffect
<1> QED
  BY <1>3, <1>5, <1>6

LEMMA IncreaseIsMeant ==
    ASSUME IsAsk(ask), Verified, ask.op = "increase", NEW i \in Operations
    PROVE  Effect(i) = AskedEffect
<1> DEFINE fields == [ticker |-> "ticker", accountId |-> "accountId",
                      positionId |-> "positionId", orderId |-> "orderId",
                      collateralAmount |-> "collateralRaw", size |-> "sizeRaw",
                      acceptablePrice |-> "acceptablePriceRaw"]
           values == [positionId |-> ask.positionId,
                      orderId |-> Undefined,
                      collateralAmount |-> ask.collateral,
                      size |-> AskedSize(Spot),
                      acceptablePrice |-> Worst(IF PositionOf(ask).side = "long"
                                                THEN "buy" ELSE "sell")]
<1>1. CallOfEach[ask.op] = "trading::increase_position_request"
  BY DEF CallOfEach
<1>2. \A p \in DOMAIN fields : fields[p] # "side"
  OBVIOUS
<1>3. Effect(i) = Asked("trading::increase_position_request", Says(Plan(ask).intent, fields))
  BY <1>1, <1>2, IncreaseReads, EffectSays
<1>4. /\ Plan(ask).intent["ticker"] = ask.ticker
      /\ Plan(ask).intent["accountId"] = AccountId
      /\ Plan(ask).intent["positionId"] = ask.positionId
      /\ Plan(ask).intent["orderId"] = Undefined
      /\ Plan(ask).intent["collateralRaw"] = ask.collateral
      /\ Plan(ask).intent["sizeRaw"] = OrderSize(ask, Spot)
      /\ Plan(ask).intent["acceptablePriceRaw"] = 
             AcceptablePriceFor(Spot, Entry(PositionOf(ask).side), Slippage(ask))
  BY DEF Intent, Fields, Plan, PlanIncreasePosition
<1>5. Says(Plan(ask).intent, fields) = OnMarket(values)
  <2>1. /\ values["positionId"] = ask.positionId
        /\ values["orderId"] = Undefined
        /\ values["collateralAmount"] = ask.collateral
        /\ values["size"] = OrderSize(ask, Spot)
        /\ values["acceptablePrice"] = 
             AcceptablePriceFor(Spot, Entry(PositionOf(ask).side), Slippage(ask))
    BY DEF AskedSize, OrderSize, Worst, AcceptablePriceFor, Entry
  <2>2. /\ DOMAIN values = {"positionId", "orderId", "collateralAmount", "size", "acceptablePrice"}
        /\ DOMAIN fields = {"ticker", "accountId", "positionId", "orderId",
                            "collateralAmount", "size", "acceptablePrice"}
        /\ \A p \in {"ticker", "accountId", "positionId", "orderId"} : fields[p] = p
        /\ fields["collateralAmount"] = "collateralRaw"
        /\ fields["size"] = "sizeRaw"
        /\ fields["acceptablePrice"] = "acceptablePriceRaw"
    OBVIOUS
  <2> HIDE DEF fields, values
  <2> QED
    BY <1>4, <2>1, <2>2, OnMarketIs
<1>6. AskedEffect = Asked("trading::increase_position_request", OnMarket(values))
  BY DEF AskedEffect
<1> QED
  BY <1>3, <1>5, <1>6

LEMMA AddMarginIsMeant ==
    ASSUME IsAsk(ask), Verified, ask.op = "addMargin", NEW i \in Operations
    PROVE  Effect(i) = AskedEffect
<1> DEFINE fields == [ticker |-> "ticker", accountId |-> "accountId",
                      positionId |-> "positionId", collateralAmount |-> "collateralRaw"]
           values == [positionId |-> ask.positionId,
                      collateralAmount |-> ask.amount]
<1>1. CallOfEach[ask.op] = "trading::deposit_collateral_request"
  BY DEF CallOfEach
<1>2. \A p \in DOMAIN fields : fields[p] # "side"
  OBVIOUS
<1>3. Effect(i) = Asked("trading::deposit_collateral_request", Says(Plan(ask).intent, fields))
  BY <1>1, <1>2, AddMarginReads, EffectSays
<1>4. /\ Plan(ask).intent["ticker"] = ask.ticker
      /\ Plan(ask).intent["accountId"] = AccountId
      /\ Plan(ask).intent["positionId"] = ask.positionId
      /\ Plan(ask).intent["collateralRaw"] = ask.amount
  BY DEF Intent, Fields, Plan, PlanAddMargin
<1>5. Says(Plan(ask).intent, fields) = OnMarket(values)
  <2>1. /\ values["positionId"] = ask.positionId
        /\ values["collateralAmount"] = ask.amount
    OBVIOUS
  <2>2. /\ DOMAIN values = {"positionId", "collateralAmount"}
        /\ DOMAIN fields = {"ticker", "accountId", "positionId", "collateralAmount"}
        /\ \A p \in {"ticker", "accountId", "positionId"} : fields[p] = p
        /\ fields["collateralAmount"] = "collateralRaw"
    OBVIOUS
  <2> HIDE DEF fields, values
  <2> QED
    BY <1>4, <2>1, <2>2, OnMarketIs
<1>6. AskedEffect = Asked("trading::deposit_collateral_request", OnMarket(values))
  BY DEF AskedEffect
<1> QED
  BY <1>3, <1>5, <1>6

LEMMA RemoveMarginIsMeant ==
    ASSUME IsAsk(ask), Verified, ask.op = "removeMargin", NEW i \in Operations
    PROVE  Effect(i) = AskedEffect
<1> DEFINE fields == [ticker |-> "ticker", accountId |-> "accountId",
                      positionId |-> "positionId", amount |-> "collateralRaw"]
           values == [positionId |-> ask.positionId,
                      amount |-> ask.amount]
<1>1. CallOfEach[ask.op] = "trading::withdraw_collateral_request"
  BY DEF CallOfEach
<1>2. \A p \in DOMAIN fields : fields[p] # "side"
  OBVIOUS
<1>3. Effect(i) = Asked("trading::withdraw_collateral_request", Says(Plan(ask).intent, fields))
  BY <1>1, <1>2, RemoveMarginReads, EffectSays
<1>4. /\ Plan(ask).intent["ticker"] = ask.ticker
      /\ Plan(ask).intent["accountId"] = AccountId
      /\ Plan(ask).intent["positionId"] = ask.positionId
      /\ Plan(ask).intent["collateralRaw"] = ask.amount
  BY DEF Intent, Fields, Plan, PlanRemoveMargin
<1>5. Says(Plan(ask).intent, fields) = OnMarket(values)
  <2>1. /\ values["positionId"] = ask.positionId
        /\ values["amount"] = ask.amount
    OBVIOUS
  <2>2. /\ DOMAIN values = {"positionId", "amount"}
        /\ DOMAIN fields = {"ticker", "accountId", "positionId", "amount"}
        /\ \A p \in {"ticker", "accountId", "positionId"} : fields[p] = p
        /\ fields["amount"] = "collateralRaw"
    OBVIOUS
  <2> HIDE DEF fields, values
  <2> QED
    BY <1>4, <2>1, <2>2, OnMarketIs
<1>6. AskedEffect = Asked("trading::withdraw_collateral_request", OnMarket(values))
  BY DEF AskedEffect
<1> QED
  BY <1>3, <1>5, <1>6

LEMMA CancelIsMeant ==
    ASSUME IsAsk(ask), Verified, ask.op = "cancel", NEW i \in Operations
    PROVE  Effect(i) = AskedEffect
<1> DEFINE fields == [ticker |-> "ticker", accountId |-> "accountId",
                      orderId |-> "orderId"]
           values == [orderId |-> ask.orderId]
<1>1. CallOfEach[ask.op] = "trading::cancel_order_request"
  BY DEF CallOfEach
<1>2. \A p \in DOMAIN fields : fields[p] # "side"
  OBVIOUS
<1>3. Effect(i) = Asked("trading::cancel_order_request", Says(Plan(ask).intent, fields))
  BY <1>1, <1>2, CancelReads, EffectSays
<1>4. /\ Plan(ask).intent["ticker"] = ask.ticker
      /\ Plan(ask).intent["accountId"] = AccountId
      /\ Plan(ask).intent["orderId"] = ask.orderId
  BY DEF Intent, Fields, Plan, PlanCancelOrder
<1>5. Says(Plan(ask).intent, fields) = OnMarket(values)
  <2>1. /\ values["orderId"] = ask.orderId
    OBVIOUS
  <2>2. /\ DOMAIN values = {"orderId"}
        /\ DOMAIN fields = {"ticker", "accountId", "orderId"}
        /\ \A p \in {"ticker", "accountId", "orderId"} : fields[p] = p
    OBVIOUS
  <2> HIDE DEF fields, values
  <2> QED
    BY <1>4, <2>1, <2>2, OnMarketIs
<1>6. AskedEffect = Asked("trading::cancel_order_request", OnMarket(values))
  BY DEF AskedEffect
<1> QED
  BY <1>3, <1>5, <1>6

LEMMA UpdateIsMeant ==
    ASSUME IsAsk(ask), Verified, ask.op = "update", NEW i \in Operations
    PROVE  Effect(i) = AskedEffect
<1> DEFINE fields == [ticker |-> "ticker", accountId |-> "accountId",
                      orderId |-> "orderId", newSize |-> "sizeRaw",
                      newTriggerPrice |-> "triggerPriceRaw"]
           values == [orderId |-> ask.orderId,
                      newSize |-> ask.newSize,
                      newTriggerPrice |-> ask.newTriggerPrice]
<1>1. CallOfEach[ask.op] = "trading::update_order_request"
  BY DEF CallOfEach
<1>2. \A p \in DOMAIN fields : fields[p] # "side"
  OBVIOUS
<1>3. Effect(i) = Asked("trading::update_order_request", Says(Plan(ask).intent, fields))
  BY <1>1, <1>2, UpdateReads, EffectSays
<1>4. /\ Plan(ask).intent["ticker"] = ask.ticker
      /\ Plan(ask).intent["accountId"] = AccountId
      /\ Plan(ask).intent["orderId"] = ask.orderId
      /\ Plan(ask).intent["sizeRaw"] = ask.newSize
      /\ Plan(ask).intent["triggerPriceRaw"] = ask.newTriggerPrice
  BY DEF Intent, Fields, Plan, PlanUpdateOrder
<1>5. Says(Plan(ask).intent, fields) = OnMarket(values)
  <2>1. /\ values["orderId"] = ask.orderId
        /\ values["newSize"] = ask.newSize
        /\ values["newTriggerPrice"] = ask.newTriggerPrice
    OBVIOUS
  <2>2. /\ DOMAIN values = {"orderId", "newSize", "newTriggerPrice"}
        /\ DOMAIN fields = {"ticker", "accountId", "orderId", "newSize",
                            "newTriggerPrice"}
        /\ \A p \in {"ticker", "accountId", "orderId"} : fields[p] = p
        /\ fields["newSize"] = "sizeRaw"
        /\ fields["newTriggerPrice"] = "triggerPriceRaw"
    OBVIOUS
  <2> HIDE DEF fields, values
  <2> QED
    BY <1>4, <2>1, <2>2, OnMarketIs
<1>6. AskedEffect = Asked("trading::update_order_request", OnMarket(values))
  BY DEF AskedEffect
<1> QED
  BY <1>3, <1>5, <1>6

(* The pool.                                                              *)
LEMMA MintIsMeant ==
    ASSUME IsAsk(ask), Verified, ask.op = "mintWlp", NEW i \in Operations
    PROVE  Effect(i) = AskedEffect
<1> DEFINE fields == [accountId |-> "accountId", depositAmount |-> "collateralRaw"]
           values == [accountId |-> AccountId, depositAmount |-> ask.amount]
<1>1. CallOfEach[ask.op] = "lp_pool::mint_wlp"
  BY DEF CallOfEach
<1>2. \A p \in DOMAIN fields : fields[p] # "side"
  OBVIOUS
<1>3. Effect(i) = Asked("lp_pool::mint_wlp", Says(Plan(ask).intent, fields))
  BY <1>1, <1>2, MintReads, EffectSays
<1>4. /\ Plan(ask).intent["accountId"] = AccountId
      /\ Plan(ask).intent["collateralRaw"] = ask.amount
  BY DEF Intent, Fields, Plan, PlanMintWlp
<1>5. Says(Plan(ask).intent, fields) = values
  BY <1>4 DEF Says
<1>6. AskedEffect = Asked("lp_pool::mint_wlp", values)
  BY DEF AskedEffect
<1> QED
  BY <1>3, <1>5, <1>6

LEMMA BurnIsMeant ==
    ASSUME IsAsk(ask), Verified, ask.op = "burnWlp", NEW i \in Operations
    PROVE  Effect(i) = AskedEffect
<1> DEFINE fields == [accountId |-> "accountId", lpAmount |-> "amountRaw"]
           values == [accountId |-> AccountId, lpAmount |-> ask.amount]
<1>1. CallOfEach[ask.op] = "lp_pool::request_redeem"
  BY DEF CallOfEach
<1>2. \A p \in DOMAIN fields : fields[p] # "side"
  OBVIOUS
<1>3. Effect(i) = Asked("lp_pool::request_redeem", Says(Plan(ask).intent, fields))
  BY <1>1, <1>2, BurnReads, EffectSays
<1>4. /\ Plan(ask).intent["accountId"] = AccountId
      /\ Plan(ask).intent["amountRaw"] = ask.amount
  BY DEF Intent, Fields, Plan, PlanBurnWlp
<1>5. Says(Plan(ask).intent, fields) = values
  BY <1>4 DEF Says
<1>6. AskedEffect = Asked("lp_pool::request_redeem", values)
  BY DEF AskedEffect
<1> QED
  BY <1>3, <1>5, <1>6

LEMMA CancelBurnIsMeant ==
    ASSUME IsAsk(ask), Verified, ask.op = "cancelWlpBurn", NEW i \in Operations
    PROVE  Effect(i) = AskedEffect
<1> DEFINE fields == [requestId |-> "requestId"]
           values == [requestId |-> ask.requestId]
<1>1. CallOfEach[ask.op] = "lp_pool::cancel_redeem"
  BY DEF CallOfEach
<1>2. \A p \in DOMAIN fields : fields[p] # "side"
  OBVIOUS
<1>3. Effect(i) = Asked("lp_pool::cancel_redeem", Says(Plan(ask).intent, fields))
  BY <1>1, <1>2, CancelBurnReads, EffectSays
<1>4. Plan(ask).intent["requestId"] = ask.requestId
  BY DEF Intent, Fields, Plan, PlanCancelWlpBurn
<1>5. Says(Plan(ask).intent, fields) = values
  BY <1>4 DEF Says
<1>6. AskedEffect = Asked("lp_pool::cancel_redeem", values)
  BY DEF AskedEffect
<1> QED
  BY <1>3, <1>5, <1>6

LEMMA ClaimIsMeant ==
    ASSUME IsAsk(ask), Verified, ask.op = "claimWlpRewards", NEW i \in Operations
    PROVE  Effect(i) = AskedEffect
<1> DEFINE fields == [accountId |-> "accountId"]
           values == [accountId |-> AccountId]
<1>1. CallOfEach[ask.op] = "waterx_staking::claim"
  BY DEF CallOfEach
<1>2. \A p \in DOMAIN fields : fields[p] # "side"
  OBVIOUS
<1>3. Effect(i) = Asked("waterx_staking::claim", Says(Plan(ask).intent, fields))
  BY <1>1, <1>2, ClaimReads, EffectSays
<1>4. Plan(ask).intent["accountId"] = AccountId
  <2>1. DOMAIN <<>> = {}
    OBVIOUS
  <2> QED
    BY <2>1 DEF Intent, Fields, Plan, PlanClaimWlpRewards
<1>5. Says(Plan(ask).intent, fields) = values
  BY <1>4 DEF Says
<1>6. AskedEffect = Asked("waterx_staking::claim", values)
  BY DEF AskedEffect
<1> QED
  BY <1>3, <1>5, <1>6

(* The account.                                                           *)
LEMMA CreateIsMeant ==
    ASSUME IsAsk(ask), Verified, ask.op = "createAccount", NEW i \in Operations
    PROVE  Effect(i) = AskedEffect
<1> DEFINE fields == [alias |-> "alias"]
           values == [alias |-> ask.name]
<1>1. CallOfEach[ask.op] = "account::create_account"
  BY DEF CallOfEach
<1>2. \A p \in DOMAIN fields : fields[p] # "side"
  OBVIOUS
<1>3. Effect(i) = Asked("account::create_account", Says(Plan(ask).intent, fields))
  BY <1>1, <1>2, CreateReads, EffectSays
<1>4. Plan(ask).intent["alias"] = ask.name
  <2>1. Plan(ask).intent = [Intent("createAccount", FALSE, [alias |-> ask.name])
                                EXCEPT !.accountId = Undefined]
    BY DEF Plan, PlanCreateAccount
  <2>2. Plan(ask).intent["alias"] = Intent("createAccount", FALSE, [alias |-> ask.name])["alias"]
    BY <2>1 DEF Intent, Fields
  <2> QED
    BY <2>2 DEF Intent, Fields
<1>5. Says(Plan(ask).intent, fields) = values
  BY <1>4 DEF Says
<1>6. AskedEffect = Asked("account::create_account", values)
  BY DEF AskedEffect
<1> QED
  BY <1>3, <1>5, <1>6

LEMMA AddDelegateIsMeant ==
    ASSUME IsAsk(ask), Verified, ask.op = "addDelegate", NEW i \in Operations
    PROVE  Effect(i) = AskedEffect
<1> DEFINE fields == [accountId |-> "accountId", delegateAddress |-> "delegateAddress",
                      permissions |-> "delegateBasePermissions",
                      expiresAtMs |-> "delegateExpiresAtMs"]
           values == [accountId |-> AccountId, delegateAddress |-> ask.delegate,
                      permissions |-> 0, expiresAtMs |-> Undefined]
<1>1. CallOfEach[ask.op] = "account::add_delegate"
  BY DEF CallOfEach
<1>2. \A p \in DOMAIN fields : fields[p] # "side"
  OBVIOUS
<1>3. Effect(i) = Asked("account::add_delegate", Says(Plan(ask).intent, fields))
  BY <1>1, <1>2, AddDelegateReads, EffectSays
<1>4. /\ Plan(ask).intent["accountId"] = AccountId
      /\ Plan(ask).intent["delegateAddress"] = ask.delegate
      /\ Plan(ask).intent["delegateBasePermissions"] = 0
      /\ Plan(ask).intent["delegateExpiresAtMs"] = Undefined
  BY DEF Intent, Fields, Plan, PlanAddDelegate
<1>5. Says(Plan(ask).intent, fields) = values
  BY <1>4 DEF Says
<1>6. AskedEffect = Asked("account::add_delegate", values)
  BY DEF AskedEffect
<1> QED
  BY <1>3, <1>5, <1>6

LEMMA RemoveDelegateIsMeant ==
    ASSUME IsAsk(ask), Verified, ask.op = "removeDelegate", NEW i \in Operations
    PROVE  Effect(i) = AskedEffect
<1> DEFINE fields == [accountId |-> "accountId", delegateAddress |-> "delegateAddress"]
           values == [accountId |-> AccountId, delegateAddress |-> ask.delegate]
<1>1. CallOfEach[ask.op] = "account::remove_delegate"
  BY DEF CallOfEach
<1>2. \A p \in DOMAIN fields : fields[p] # "side"
  OBVIOUS
<1>3. Effect(i) = Asked("account::remove_delegate", Says(Plan(ask).intent, fields))
  BY <1>1, <1>2, RemoveDelegateReads, EffectSays
<1>4. /\ Plan(ask).intent["accountId"] = AccountId
      /\ Plan(ask).intent["delegateAddress"] = ask.delegate
  BY DEF Intent, Fields, Plan, PlanRemoveDelegate
<1>5. Says(Plan(ask).intent, fields) = values
  BY <1>4 DEF Says
<1>6. AskedEffect = Asked("account::remove_delegate", values)
  BY DEF AskedEffect
<1> QED
  BY <1>3, <1>5, <1>6

(* Funds: the type a call is given is the asset asked for.                *)
LEMMA AssetIsBound ==
    ASSUME NEW call, NEW intent, NEW deployment, CodeIsTheDeployments(call, intent, deployment),
           call.fn \in {"withdrawal_queue::route_native", "custody_vault::mint"}
    PROVE  call.types[1] = intent["assetType"]
<1>1. TypeBindings(call.fn) = <<"assetType">>
  BY DEF TypeBindings
<1>2. \A k \in DOMAIN TypeBindings(call.fn) :
        call.types[k] = Authorized(intent, TypeBindings(call.fn)[k])
  BY DEF CodeIsTheDeployments
<1>3. 1 \in DOMAIN <<"assetType">> /\ <<"assetType">>[1] = "assetType"
  OBVIOUS
<1> QED
  BY <1>1, <1>2, <1>3, AuthorizedField

LEMMA DepositIsMeant ==
    ASSUME IsAsk(ask), Verified, ask.op = "deposit", NEW i \in Operations
    PROVE  Effect(i) = AskedEffect
<1> DEFINE fields == [accountId |-> "accountId"]
           values == [accountId |-> AccountId]
<1>1. CallOfEach[ask.op] = "custody_vault::mint"
  BY DEF CallOfEach
<1>2. \A p \in DOMAIN fields : fields[p] # "side"
  OBVIOUS
<1>3. /\ tx.commands[i].fn = "custody_vault::mint"
      /\ Values(i) = Says(Plan(ask).intent, fields)
      /\ CodeIsTheDeployments(tx.commands[i], Plan(ask).intent, context.deployment)
  BY <1>1, <1>2, DepositReads, OperationSays
<1>4. /\ Plan(ask).intent["accountId"] = AccountId
      /\ Plan(ask).intent["assetType"] = ask.assetType
  BY DEF Intent, Fields, Plan, PlanDeposit
<1>5. Says(Plan(ask).intent, fields) = values
  BY <1>4 DEF Says
<1>6. PaidIn(i) = ask.assetType
  BY <1>3, <1>4, AssetIsBound DEF PaidIn
<1>7. AskedEffect = [does |-> "custody_vault::mint", values |-> values, asset |-> ask.assetType]
  BY DEF AskedEffect
<1> QED
  BY <1>3, <1>5, <1>6, <1>7 DEF Effect

(* A withdrawal is handed the route that pays it out.                     *)
LEMMA RouteIsBound ==
    LET B == Bindings["account::request_withdraw"]
    IN "extraData" \in DOMAIN B /\ B["extraData"] = ProducedBy("withdrawal_queue::route_native")
  BY OverDomain, OverLeft, OverRight
     DEF Bindings, Sensitive, Perp, OrderArgument, Account

LEMMA WithdrawIsMeant ==
    ASSUME IsAsk(ask), Verified, ask.op = "withdraw", NEW i \in Operations
    PROVE  Effect(i) = AskedEffect
<1> DEFINE fields == [accountId |-> "accountId", recipient |-> "recipient",
                      amount |-> "collateralRaw"]
           values == [accountId |-> AccountId, amount |-> ask.amount,
                      recipient |-> Or(ask, "toAddress", OwnerAddress)]
           rule == ActionRules[Plan(ask).intent.action]
           from == tx.commands[i].args["extraData"]
<1>1. CallOfEach[ask.op] = "account::request_withdraw"
  BY DEF CallOfEach
<1>2. \A p \in DOMAIN fields : fields[p] # "side"
  OBVIOUS
<1>3. /\ tx.commands[i].fn = "account::request_withdraw"
      /\ Values(i) = Says(Plan(ask).intent, fields)
      /\ ArgumentsAreBound(tx, tx.commands[i], Plan(ask).intent, context.deployment, <<>>)
  BY <1>1, <1>2, WithdrawReads, OperationSays
<1>4. /\ Plan(ask).intent["accountId"] = AccountId
      /\ Plan(ask).intent["assetType"] = ask.assetType
      /\ Plan(ask).intent["collateralRaw"] = ask.amount
      /\ Plan(ask).intent["recipient"] = Or(ask, "toAddress", OwnerAddress)
  BY DEF Intent, Fields, Plan, PlanWithdraw
<1>5. Says(Plan(ask).intent, fields) = values
  BY <1>4 DEF Says
<1>6. IsProducedBy(tx, from, "withdrawal_queue::route_native", context.deployment)
  BY <1>3, RouteIsBound, ArgumentIsBoundTo DEF ArgumentIsBound, ProducedBy
<1>7. from.of \in Relays /\ tx.commands[from.of].fn = "withdrawal_queue::route_native"
  BY <1>6 DEF IsProducedBy, Relays, CallsOf
<1>8. rule.companions \subseteq Rides /\ rule.entrypoint \in Sensitive \ Rides
  BY EachRule DEF Rides
<1>9. CodeIsTheDeployments(tx.commands[from.of], Plan(ask).intent, context.deployment)
  BY <1>7, <1>8, OperationsAre
<1>10. PaidIn(i) = ask.assetType
  BY <1>3, <1>4, <1>7, <1>9, AssetIsBound DEF PaidIn
<1>11. AskedEffect = [does |-> "account::request_withdraw", values |-> values,
                      asset |-> ask.assetType]
  BY DEF AskedEffect
<1> QED
  BY <1>3, <1>5, <1>10, <1>11 DEF Effect

(* A sweep only removes delegates of the configured account.              *)
LEMMA RemovalIsBound ==
    LET B == Bindings["account::remove_delegate"]
    IN "accountId" \in DOMAIN B /\ B["accountId"] = Field("accountId")
<1>1. DOMAIN Same({"accountId", "delegateAddress"}) = {"accountId", "delegateAddress"}
      /\ Same({"accountId", "delegateAddress"})["accountId"] = Field("accountId")
  BY DEF Same
<1> QED
  BY <1>1, OverDomain, OverLeft DEF Bindings, Sensitive, Perp, OrderArgument, Account

LEMMA SweepIsMeant ==
    ASSUME IsAsk(ask), Verified, ask.op = "removeAllDelegates", NEW i \in Operations
    PROVE  tx.commands[i].fn = "account::remove_delegate" /\ Values(i).accountId = AccountId
<1> DEFINE rule == ActionRules[Plan(ask).intent.action]
           free == [delegateAddress |-> Free]
           call == tx.commands[i]
<1>1. /\ rule.entrypoint = "account::remove_delegate" /\ rule.entrypoint \in Sensitive \ Rides
      /\ rule.overrides = free /\ rule.companions \subseteq Rides
  BY EachRule DEF Rides, CallOfEach
<1>2. /\ call.fn = "account::remove_delegate"
      /\ ArgumentsAreBound(tx, call, Plan(ask).intent, context.deployment, free)
  BY <1>1, OperationsAre
<1>3. "accountId" \notin DOMAIN free
  OBVIOUS
<1> HIDE DEF free
<1>4. (free @@ Bindings[call.fn])["accountId"] = Field("accountId")
  BY <1>2, <1>3, RemovalIsBound, Under
<1>5. /\ "accountId" \in DOMAIN call.args
      /\ ArgumentIsBound(tx, call, "accountId", Field("accountId"), Plan(ask).intent,
                         context.deployment)
  BY <1>2, <1>4, RemovalIsBound DEF ArgumentsAreBound
<1>6. Plan(ask).intent["accountId"] = AccountId
  <2>1. DOMAIN <<>> = {}
    OBVIOUS
  <2> QED
    BY <2>1 DEF Intent, Fields, Plan, PlanRemoveAllDelegates
<1>7. Agrees(Plan(ask).intent, "accountId", "accountId" \in Optional(call.fn),
             Read(call.args["accountId"]))
  BY <1>5 DEF ArgumentIsBound, Field
<1>8. call.args["accountId"].is = "pure" /\ call.args["accountId"].v = AccountId
  BY <1>6, <1>7, AuthorizedField, NameAssumption DEF Agrees, Read
<1>9. <<call.fn, "accountId">> \notin Listed
  BY <1>2 DEF Listed
<1> QED
  BY <1>2, <1>5, <1>8, <1>9, ValueIs

(* Every operation, and how many.                                         *)
LEMMA VerifiedIsMeant ==
    ASSUME IsAsk(ask), CanPlan(ask, context.signer # OwnerAddress), Verified
    PROVE  OperationsAreMeant
<1> DEFINE rule == ActionRules[Plan(ask).intent.action]
<1>1. /\ rule.companions \subseteq Rides /\ rule.entrypoint \in Sensitive \ Rides
      /\ rule.many <=> ask.op \in {"placeTpSl", "removeAllDelegates"}
  BY EachRule DEF Rides
<1>2. /\ Operations # {}
      /\ ask.op \notin {"placeTpSl", "removeAllDelegates"} => Cardinality(Operations) = 1
  BY <1>1, OperationsAre
<1>3. ask.op \in {"close", "reduce", "addMargin", "cancel", "createAccount", "deposit",
                  "withdraw", "addDelegate", "removeDelegate", "removeAllDelegates", "burnWlp",
                  "cancelWlpBurn", "claimWlpRewards", "open", "limit", "increase",
                  "removeMargin", "update", "mintWlp", "placeTpSl"}
  BY DEF IsAsk, Needs
<1>4. ASSUME NEW i \in Operations, ask.op # "removeAllDelegates"
      PROVE  Effect(i) = AskedEffect
  BY <1>3, <1>4, PlacementIsMeant, CloseIsMeant, ReduceIsMeant, IncreaseIsMeant,
     AddMarginIsMeant, RemoveMarginIsMeant, CancelIsMeant, UpdateIsMeant, MintIsMeant,
     BurnIsMeant, CancelBurnIsMeant, ClaimIsMeant, CreateIsMeant, AddDelegateIsMeant,
     RemoveDelegateIsMeant, DepositIsMeant, WithdrawIsMeant
<1> QED
  BY <1>2, <1>4, SweepIsMeant DEF OperationsAreMeant

-----------------------------------------------------------------------------
(* Funds, authority and the envelope.                                     *)

LEMMA VerifiedEnvelopeIsMeant ==
    ASSUME Verified, context \in Contexts
    PROVE  EnvelopeIsMeant
<1>1. /\ tx.sender \in {Undefined, context.signer}
      /\ GasIsRight(tx, context.signer, context.sponsored)
  BY DEF Verified, Matches
<1> QED
  BY <1>1, NameAssumption DEF EnvelopeIsMeant, GasIsRight

(* A deposit alone moves funds in.                                        *)
LEMMA FundsSay ==
    ASSUME IsAsk(ask)
    PROVE  LET intent == Plan(ask).intent
           IN IF ask.op = "deposit"
              THEN /\ intent.movesFundsIn = TRUE /\ intent.collateralRaw = ask.amount
                   /\ intent.assetType = ask.assetType
              ELSE intent.movesFundsIn = Undefined
<1>1. ask.op \in {"close", "reduce", "addMargin", "cancel", "createAccount", "deposit",
                  "withdraw", "addDelegate", "removeDelegate", "removeAllDelegates", "burnWlp",
                  "cancelWlpBurn", "claimWlpRewards", "open", "limit", "increase",
                  "removeMargin", "update", "mintWlp", "placeTpSl"}
  BY DEF IsAsk, Needs
<1>2. DOMAIN <<>> = {}
  OBVIOUS
<1>3. CASE ask.op \in {"open", "limit", "placeTpSl"}
  BY <1>3 DEF Intent, Fields, Plan, PlanOpenPosition, PlanPlaceLimitOrder, PlanPlaceTpSl
<1>4. CASE ask.op \in {"close", "reduce", "increase"}
  BY <1>4 DEF Intent, Fields, Plan, PlanClosePosition, PlanReducePosition,
     PlanIncreasePosition
<1>5. CASE ask.op \in {"addMargin", "removeMargin", "cancel", "update"}
  BY <1>5 DEF Intent, Fields, Plan, PlanAddMargin, PlanRemoveMargin, PlanCancelOrder,
     PlanUpdateOrder
<1>6. CASE ask.op \in {"mintWlp", "burnWlp", "cancelWlpBurn", "claimWlpRewards"}
  BY <1>2, <1>6 DEF Intent, Fields, Plan, PlanMintWlp, PlanBurnWlp, PlanCancelWlpBurn,
     PlanClaimWlpRewards
<1>7. CASE ask.op \in {"deposit", "withdraw", "addDelegate"}
  BY <1>7 DEF Intent, Fields, Plan, PlanDeposit, PlanWithdraw, PlanAddDelegate
<1>8. CASE ask.op \in {"removeDelegate", "removeAllDelegates"}
  BY <1>2, <1>8 DEF Intent, Fields, Plan, PlanRemoveDelegate, PlanRemoveAllDelegates
<1>9. CASE ask.op = "createAccount"
  <2>1. Plan(ask).intent = [Intent("createAccount", FALSE, [alias |-> ask.name])
                                EXCEPT !.accountId = Undefined]
    BY <1>9 DEF Plan, PlanCreateAccount
  <2>2. Plan(ask).intent.movesFundsIn =
            Intent("createAccount", FALSE, [alias |-> ask.name]).movesFundsIn
    BY <2>1 DEF Intent, Fields
  <2> QED
    BY <1>9, <2>2 DEF Intent, Fields
<1> QED
  BY <1>1, <1>3, <1>4, <1>5, <1>6, <1>7, <1>8, <1>9

(* What the queue is handed is the withdrawal.                            *)
LEMMA EnqueueIsBound ==
    LET B == Bindings["withdrawal_queue::enqueue"]
    IN "req" \in DOMAIN B /\ B["req"] = ProducedBy("account::request_withdraw")
  BY DEF Bindings, Sensitive, Perp, OrderArgument, Account, Queue

LEMMA VerifiedFundsAreMeant ==
    ASSUME IsAsk(ask), Verified
    PROVE  FundsAreMeant
<1> DEFINE rule == ActionRules[Plan(ask).intent.action]
<1>1. /\ rule.companions \subseteq Rides /\ rule.entrypoint \in Sensitive \ Rides
      /\ rule.entrypoint = CallOfEach[ask.op]
      /\ rule.companions =
             (IF ask.op = "addDelegate" THEN {"account::set_delegate_protocol_permission"}
              ELSE IF ask.op = "withdraw"
              THEN {"withdrawal_queue::route_native", "withdrawal_queue::enqueue"}
              ELSE {})
      /\ ask.op = "withdraw" => rule.overrides = <<>>
  BY EachRule DEF Rides
<1>2. IF ask.op = "deposit"
      THEN /\ Len(tx.withdrawals) = 1
           /\ tx.withdrawals[1] = [amount |-> ask.amount, asset |-> ask.assetType,
                                   from |-> "sender"]
      ELSE tx.withdrawals = <<>>
  <2>1. FundsWithdrawalIsRight(tx, Plan(ask).intent)
    BY DEF Verified, Matches
  <2> QED
    BY <2>1, FundsSay, NameAssumption DEF FundsWithdrawalIsRight
<1>3. CASE ask.op = "withdraw"
  <2>1. CallsOf(tx, {"withdrawal_queue::enqueue"}) # {}
    BY <1>1, <1>3 DEF Verified, Matches
  <2>2. PICK i \in CallsOf(tx, {"withdrawal_queue::enqueue"}) : TRUE
    BY <2>1
  <2>3. i \in Relays /\ tx.commands[i].fn = "withdrawal_queue::enqueue"
    BY DEF Relays, CallsOf
  <2>4. ArgumentsAreBound(tx, tx.commands[i], Plan(ask).intent, context.deployment, <<>>)
    <3>1. \A c \in Grants \cup Relays :
            ArgumentsAreBound(tx, tx.commands[c], Plan(ask).intent, context.deployment,
                              rule.overrides)
      BY <1>1, OperationsAre
    <3>2. rule.overrides = <<>>
      BY <1>1, <1>3
    <3> HIDE DEF rule
    <3> QED
      BY <2>3, <3>1, <3>2
  <2>5. IsProducedBy(tx, tx.commands[i].args["req"], "account::request_withdraw",
                     context.deployment)
    BY <2>3, <2>4, EnqueueIsBound, ArgumentIsBoundTo DEF ArgumentIsBound, ProducedBy
  <2>6. CallOfEach[ask.op] = "account::request_withdraw"
    BY <1>3 DEF CallOfEach
  <2>7. tx.commands[i].args["req"].of \in CallsOf(tx, {"account::request_withdraw"})
    BY <2>5 DEF IsProducedBy
  <2>8. Operations = CallsOf(tx, {"account::request_withdraw"})
    BY <1>1, <2>6, OperationsAre
  <2> QED
    BY <1>2, <1>3, <2>3, <2>7, <2>8 DEF FundsAreMeant
<1>4. CASE ask.op # "withdraw"
  <2>1. /\ "withdrawal_queue::route_native" \notin rule.companions
        /\ "withdrawal_queue::enqueue" \notin rule.companions
    BY <1>1, <1>4
  <2>2. Relays = {}
    BY <1>1, <2>1, OperationsAre
  <2> QED
    BY <1>2, <1>4, <2>2 DEF FundsAreMeant
<1> QED
  BY <1>3, <1>4

(* What a grant is held to.                                               *)
LEMMA GrantIsBound ==
    LET B == Bindings["account::set_delegate_protocol_permission"]
    IN /\ {"accountId", "delegateAddress", "permissions"} \subseteq DOMAIN B
       /\ B["accountId"] = Field("accountId")
       /\ B["delegateAddress"] = Field("delegateAddress") /\ B["permissions"] = Mask
<1> DEFINE B == Bindings["account::set_delegate_protocol_permission"]
           own == [permissions |-> Mask]
           names == {"accountId", "delegateAddress"}
<1>1. Layered(B, own, names, AccountRequest)
  BY DEF Layered, Bindings, Sensitive, Perp, OrderArgument, Account
<1>2. DOMAIN own = {"permissions"} /\ own["permissions"] = Mask
  OBVIOUS
<1> HIDE DEF own, B
<1>3. /\ \A p \in DOMAIN own : p \in DOMAIN B /\ B[p] = own[p]
      /\ \A p \in names \ DOMAIN own : p \in DOMAIN B /\ B[p] = Field(p)
  BY <1>1, ThreeLayers
<1>4. /\ "accountId" \in DOMAIN B /\ "delegateAddress" \in DOMAIN B
      /\ "permissions" \in DOMAIN B /\ B["accountId"] = Field("accountId")
      /\ B["delegateAddress"] = Field("delegateAddress") /\ B["permissions"] = Mask
  BY <1>2, <1>3
<1> QED
  BY <1>4 DEF B

(* A type names one slot, and a type of a type the superseded one.         *)
LEMMA SlotsAreDistinct ==
    ASSUME NEW type, NEW deployment, NEW slot \in SlotsOf(type, deployment)
    PROVE  /\ slot.protocol \in {"perp", "predict", "staking"}
           /\ type.over # Undefined => slot.protocol = "perp"
           /\ slot.enforced => type.over = Undefined
           /\ slot.enforced /\ slot.protocol = "perp" <=> type.type = "account_data::WaterXPerp"
           /\ slot.enforced /\ slot.protocol = "predict"
                  <=> type.type = "account_data::WaterXPrediction"
           /\ slot.enforced /\ slot.protocol = "staking"
                  <=> type.type = "witness::WaterXStaking"
<1>1. /\ slot \in ProtocolSlots /\ type.type = slot.type
      /\ slot.over = Undefined => type.over = Undefined
  BY DEF SlotsOf
<1>2. /\ slot.protocol \in {"perp", "predict", "staking"}
      /\ slot.protocol # "perp" => slot.over = Undefined
      /\ slot.enforced => slot.over = Undefined
      /\ ~slot.enforced => slot.protocol = "perp"
      /\ slot.enforced /\ slot.protocol = "perp" <=> slot.type = "account_data::WaterXPerp"
      /\ slot.enforced /\ slot.protocol = "predict"
             <=> slot.type = "account_data::WaterXPrediction"
      /\ slot.enforced /\ slot.protocol = "staking" <=> slot.type = "witness::WaterXStaking"
  BY <1>1 DEF ProtocolSlots
<1> QED
  BY <1>1, <1>2

(* One grant of a verified transaction.                                   *)
LEMMA GrantSays ==
    ASSUME IsAsk(ask), Verified, ask.op = "addDelegate", NEW i \in Grants
    PROVE  LET types == tx.commands[i].types
           IN /\ Values(i)["accountId"] = AccountId
              /\ Values(i)["delegateAddress"] = ask.delegate
              /\ Values(i)["permissions"] = Read(tx.commands[i].args["permissions"])
              /\ \E slot \in SlotsOf(types[1], context.deployment) :
                    Values(i)["permissions"] \subseteq Permissions(ask)[slot.protocol]
<1> DEFINE rule == ActionRules[Plan(ask).intent.action]
           intent == Plan(ask).intent
           call == tx.commands[i]
           grant == "account::set_delegate_protocol_permission"
<1>1. /\ rule.companions \subseteq Rides /\ rule.entrypoint \in Sensitive \ Rides
      /\ rule.overrides = <<>>
  BY EachRule DEF Rides
<1>2. ArgumentsAreBound(tx, call, intent, context.deployment, <<>>)
  <2>1. \A c \in Grants \cup Relays :
            ArgumentsAreBound(tx, tx.commands[c], intent, context.deployment, rule.overrides)
    BY <1>1, OperationsAre
  <2> HIDE DEF rule
  <2> QED
    BY <1>1, <2>1
<1>3. call.fn = grant
  BY DEF Grants, CallsOf
<1>4. /\ intent["accountId"] = AccountId /\ intent["delegateAddress"] = ask.delegate
      /\ intent["delegatePermissions"] = Permissions(ask)
  BY DEF Intent, Fields, Plan, PlanAddDelegate
<1> HIDE DEF intent
<1>5. Optional(grant) = {} /\ \A p : p # "alias" => <<grant, p>> \notin Listed
  BY DEF Optional, Listed, OrderArgument
<1>6. /\ "accountId" \in DOMAIN call.args /\ call.args["accountId"].is = "pure"
      /\ call.args["accountId"].v = AccountId
  BY <1>2, <1>3, <1>4, <1>5, GrantIsBound, ArgumentIsTheField, AuthorizedField
<1>7. /\ "delegateAddress" \in DOMAIN call.args /\ call.args["delegateAddress"].is = "pure"
      /\ call.args["delegateAddress"].v = ask.delegate
  BY <1>2, <1>3, <1>4, <1>5, GrantIsBound, ArgumentIsTheField, AuthorizedField
<1>8. /\ "permissions" \in DOMAIN call.args
      /\ MaskIsWithin(call, call.args["permissions"], intent, context.deployment)
  <2>1. /\ "permissions" \in DOMAIN call.args
        /\ ArgumentIsBound(tx, call, "permissions", Mask, intent, context.deployment)
    BY <1>2, <1>3, GrantIsBound, ArgumentIsBoundTo
  <2> QED
    BY <2>1 DEF ArgumentIsBound, Mask
<1>9. /\ call.args["permissions"].is = "pure"
      /\ call.args["permissions"].v = Read(call.args["permissions"])
      /\ \E slot \in SlotsOf(call.types[1], context.deployment) :
            Read(call.args["permissions"]) \subseteq Permissions(ask)[slot.protocol]
  BY <1>4, <1>8 DEF MaskIsWithin, Read
<1>10. /\ Values(i)["accountId"] = AccountId /\ Values(i)["delegateAddress"] = ask.delegate
       /\ Values(i)["permissions"] = Read(call.args["permissions"])
  BY <1>3, <1>5, <1>6, <1>7, <1>8, <1>9, ValueIs
<1> QED
  BY <1>9, <1>10

(* A grant of a protocol's own type is the one the verifier counts.        *)
LEMMA GrantsOnAre ==
    ASSUME IsAsk(ask), Verified, ask.op = "addDelegate", NEW type, NEW protocol,
           <<type, protocol>> \in {<<"account_data::WaterXPerp", "perp">>,
                                   <<"account_data::WaterXPrediction", "predict">>,
                                   <<"witness::WaterXStaking", "staking">>}
    PROVE  GrantsOn(type) = {i \in Grants : \E slot \in
                SlotsOf(tx.commands[i].types[1], context.deployment) :
                    slot.enforced /\ slot.protocol = protocol}
<1>1. ASSUME NEW i \in Grants,
             NEW slot \in SlotsOf(tx.commands[i].types[1], context.deployment)
      PROVE  /\ slot.enforced => tx.commands[i].types[1].over = Undefined
             /\ slot.enforced /\ slot.protocol = protocol
                    <=> tx.commands[i].types[1].type = type
  BY SlotsAreDistinct
<1>2. \A i \in Grants : \E slot \in SlotsOf(tx.commands[i].types[1], context.deployment) : TRUE
  BY GrantSays
<1> QED
  BY <1>1, <1>2 DEF GrantsOn

LEMMA VerifiedAuthorityIsMeant ==
    ASSUME IsAsk(ask), Verified
    PROVE  AuthorityIsMeant
<1> DEFINE rule == ActionRules[Plan(ask).intent.action]
           slots == {<<"account_data::WaterXPerp", "perp">>,
                     <<"account_data::WaterXPrediction", "predict">>,
                     <<"witness::WaterXStaking", "staking">>}
<1>1. /\ rule.companions =
             (IF ask.op = "addDelegate" THEN {"account::set_delegate_protocol_permission"}
              ELSE IF ask.op = "withdraw"
              THEN {"withdrawal_queue::route_native", "withdrawal_queue::enqueue"}
              ELSE {})
      /\ rule.companions \subseteq Rides /\ rule.entrypoint \in Sensitive \ Rides
      /\ rule.grants <=> ask.op = "addDelegate"
  BY EachRule DEF Rides
<1>2. CASE ask.op # "addDelegate"
  <2>1. "account::set_delegate_protocol_permission" \notin rule.companions
    BY <1>1, <1>2
  <2>2. Grants = {}
    BY <1>1, <2>1, OperationsAre
  <2> QED
    BY <1>2, <2>2 DEF AuthorityIsMeant
<1>3. CASE ask.op = "addDelegate"
  <2>1. GrantsReachEnforcedSlots(tx, Grants, Plan(ask).intent, context.deployment)
    BY <1>1, <1>3 DEF Verified, Matches, Grants
  <2>2. Plan(ask).intent.delegatePermissions = Permissions(ask)
    BY <1>3 DEF Intent, Fields, Plan, PlanAddDelegate
  <2>3. ASSUME NEW i \in Grants
        PROVE  /\ Values(i)["accountId"] = AccountId
               /\ Values(i)["delegateAddress"] = ask.delegate
               /\ tx.commands[i].types[1].over # Undefined =>
                     Values(i)["permissions"] \subseteq Permissions(ask)["perp"]
    BY <1>3, GrantSays, SlotsAreDistinct
  <2>4. ASSUME NEW type, NEW protocol, <<type, protocol>> \in slots
        PROVE  /\ Cardinality(GrantsOn(type)) <= 1
               /\ UNION {Values(i)["permissions"] : i \in GrantsOn(type)}
                      = Permissions(ask)[protocol]
    <3> DEFINE granted == {i \in Grants : \E slot \in
                    SlotsOf(tx.commands[i].types[1], context.deployment) :
                        slot.enforced /\ slot.protocol = protocol}
    <3>1. GrantsOn(type) = granted
      BY <1>3, <2>4, GrantsOnAre
    <3>2. protocol \in {"perp", "predict", "staking"}
      BY <2>4
    <3>3. /\ Cardinality(granted) <= 1
          /\ Permissions(ask)[protocol] # {} =>
                \E i \in granted : Read(tx.commands[i].args["permissions"])
                                       = Permissions(ask)[protocol]
      BY <2>1, <2>2, <3>2 DEF GrantsReachEnforcedSlots
    <3>4. ASSUME NEW i \in granted
          PROVE  /\ Values(i)["permissions"] = Read(tx.commands[i].args["permissions"])
                 /\ Values(i)["permissions"] \subseteq Permissions(ask)[protocol]
      <4>1. PICK own \in SlotsOf(tx.commands[i].types[1], context.deployment) :
                Values(i)["permissions"] \subseteq Permissions(ask)[own.protocol]
        BY <1>3, GrantSays
      <4>2. PICK slot \in SlotsOf(tx.commands[i].types[1], context.deployment) :
                slot.enforced /\ slot.protocol = protocol
        OBVIOUS
      <4>3. own.protocol = protocol
        BY <3>2, <4>2, SlotsAreDistinct
      <4> QED
        BY <1>3, <4>1, <4>3, GrantSays
    <3> HIDE DEF granted
    <3>5. UNION {Values(i)["permissions"] : i \in granted} = Permissions(ask)[protocol]
      BY <3>3, <3>4
    <3> QED
      BY <3>1, <3>3, <3>5
  <2>5. ASSUME NEW slot \in slots
        PROVE  /\ Cardinality(GrantsOn(slot[1])) <= 1
               /\ UNION {Values(i)["permissions"] : i \in GrantsOn(slot[1])}
                      = Permissions(ask)[slot[2]]
    <3>1. slot = <<slot[1], slot[2]>>
      OBVIOUS
    <3> QED
      BY <2>4, <3>1
  <2>6. GrantsAreAsked
    BY <2>3, <2>5 DEF GrantsAreAsked
  <2> QED
    BY <1>3, <2>6 DEF AuthorityIsMeant
<1> QED
  BY <1>2, <1>3

-----------------------------------------------------------------------------
(* Whatever is changed in the bytes of an order, they are commands, and    *)
(* the authority handle is made of nothing: the model invents no argument  *)
(* for a call that takes none.                                            *)
IsFormed(t) == "commands" \in DOMAIN t /\ AreCommands(t.commands)

LEMMA Appended ==
    ASSUME NEW s, AreCommands(s), NEW c, IsCommand(c)
    PROVE  AreCommands(Append(s, c))
<1> DEFINE S == {s[k] : k \in DOMAIN s}
           r == Append(s, c)
<1>1. s \in Seq(S) /\ \A k \in DOMAIN s : IsCommand(s[k])
  BY DEF AreCommands
<1>2. \A e \in S \cup {c} : IsCommand(e)
  BY <1>1
<1> HIDE DEF S
<1>3. r \in Seq(S \cup {c})
  BY <1>1
<1> HIDE DEF r
<1>4. \A k \in DOMAIN r : r[k] \in S \cup {c}
  BY <1>3
<1>5. r \in Seq({r[k] : k \in DOMAIN r})
  BY <1>3, SequenceOfItsOwn
<1>6. AreCommands(r)
  BY <1>2, <1>4, <1>5 DEF AreCommands
<1> QED
  BY <1>6 DEF r

LEMMA Replaced ==
    ASSUME NEW s, AreCommands(s), NEW i \in DOMAIN s, NEW c, IsCommand(c)
    PROVE  AreCommands([s EXCEPT ![i] = c])
<1> DEFINE S == {s[k] : k \in DOMAIN s}
           r == [s EXCEPT ![i] = c]
<1>1. s \in Seq(S) /\ \A k \in DOMAIN s : IsCommand(s[k])
  BY DEF AreCommands
<1>2. r \in Seq(S \cup {c})
  <2> HIDE DEF S
  <2> QED
    BY <1>1
<1>3. \A k \in DOMAIN r : IsCommand(r[k])
  BY <1>1
<1> HIDE DEF r
<1>4. r \in Seq({r[k] : k \in DOMAIN r})
  BY <1>2, SequenceOfItsOwn
<1> QED
  BY <1>3, <1>4 DEF AreCommands, r

(* The changes of one command, and of the sequence.                       *)
LEMMA OneChanged ==
    ASSUME IsFormed(tx), NEW i \in DOMAIN tx.commands, NEW c, IsCommand(c),
           tx' = [tx EXCEPT !.commands[i] = c]
    PROVE  IsFormed(tx')
<1>1. tx'.commands = [tx.commands EXCEPT ![i] = c] /\ "commands" \in DOMAIN tx'
  BY DEF IsFormed
<1> QED
  BY <1>1, Replaced DEF IsFormed

LEMMA OneAppended ==
    ASSUME IsFormed(tx), NEW c, IsCommand(c),
           tx' = [tx EXCEPT !.commands = Append(@, c)]
    PROVE  IsFormed(tx')
<1>1. tx'.commands = Append(tx.commands, c) /\ "commands" \in DOMAIN tx'
  BY DEF IsFormed
<1> QED
  BY <1>1, Appended DEF IsFormed

LEMMA CallsAreCommands ==
    /\ IsCommand(Refresh) /\ IsCommand(Handle)
    /\ \A kind : IsCommand([Vector(<<>>) EXCEPT !.kind = kind])
    /\ \A fn, types, args : fn # "account::request" => IsCommand(Call(fn, types, args))
<1>1. DOMAIN <<>> = {}
  OBVIOUS
<1>2. IsCommand(Refresh) /\ IsCommand(Handle)
  BY <1>1 DEF IsCommand, Refresh, Handle, Call
<1>3. \A fn, types, args : fn # "account::request" => IsCommand(Call(fn, types, args))
  BY DEF IsCommand, Call
<1>4. DOMAIN Vector(<<>>).args = {}
  BY <1>1 DEF Vector
<1>5. \A kind : IsCommand([Vector(<<>>) EXCEPT !.kind = kind])
  BY <1>4 DEF IsCommand, Vector
<1> QED
  BY <1>2, <1>3, <1>5

(* What may be appended of another plan.                                  *)
LEMMA OfAnotherPlan ==
    ASSUME NEW a, a.op \in {"cancel", "withdraw"}, NEW i \in DOMAIN Commands(Plan(a).request)
    PROVE  IsCommand(Commands(Plan(a).request)[i])
<1> DEFINE request == Plan(a).request
<1>1. CASE a.op = "cancel"
  <2> DEFINE args == [ticker |-> Pure(request.ticker), accountId |-> Pure(request.accountId)]
                        @@ ([triggerPrice |-> Pure(Spot), orderTypeTag |-> Pure(0)]
                            @@ PurePart(request, {"orderId"}))
             call == Operation("trading::cancel_order_request", <<USD, WLP>>, 2, args)
  <2>1. request.kind = "cancelOrder"
    BY <1>1 DEF Plan, PlanCancelOrder
  <2> HIDE DEF request
  <2>2. Commands(request) = <<Refresh, Handle, call>>
    BY <2>1 DEF Commands, Trade
  <2> HIDE DEF args
  <2>3. IsCommand(call)
    BY CallsAreCommands DEF Operation
  <2> HIDE DEF call
  <2> QED
    BY <2>2, <2>3, CallsAreCommands DEF request
<1>2. CASE a.op = "withdraw"
  <2>1. request.kind = "withdraw"
    BY <1>2 DEF Plan, PlanWithdraw
  <2>2. Commands(request) = Withdraw(request)
    BY <2>1 DEF Commands
  <2> HIDE DEF request
  <2>3. \E t1, a1, a2, a3 : Withdraw(request) =
            <<Handle, Call("withdrawal_queue::route_native", t1, a1),
              Call("account::request_withdraw", <<USD>>, a2),
              Call("withdrawal_queue::enqueue", <<USD>>, a3)>>
    BY DEF Withdraw, Operation
  <2>4. PICK c1, c2, c3 : /\ Withdraw(request) = <<Handle, c1, c2, c3>>
                          /\ IsCommand(c1) /\ IsCommand(c2) /\ IsCommand(c3)
    BY <2>3, CallsAreCommands
  <2> QED
    BY <2>2, <2>4, CallsAreCommands DEF request
<1> QED
  BY <1>1, <1>2

LEMMA DamageKeepsForm ==
    ASSUME IsFormed(tx), Damage
    PROVE  IsFormed(tx')
<1>1. ASSUME NEW i \in DOMAIN tx.commands
      PROVE  IsCommand(tx.commands[i])
  BY DEF IsFormed, AreCommands
<1>2. ASSUME NEW i \in DOMAIN tx.commands, NEW param \in DOMAIN tx.commands[i].args,
             DamageArgument(i, param)
      PROVE  IsFormed(tx')
  <2>1. PICK argument : tx' = [tx EXCEPT !.commands[i].args[param] = argument]
    BY <1>2 DEF DamageArgument
  <2> DEFINE c == [tx.commands[i] EXCEPT !.args[param] = argument]
  <2>2. tx' = [tx EXCEPT !.commands[i] = c]
    BY <2>1
  <2>3. IsCommand(c)
    BY <1>1 DEF IsCommand
  <2> HIDE DEF c
  <2> QED
    BY <2>2, <2>3, OneChanged
<1>3. ASSUME NEW i \in DOMAIN tx.commands, DamageCall(i)
      PROVE  IsFormed(tx')
  <2>1. CASE \E pkg : tx' = [tx EXCEPT !.commands[i].pkg = pkg]
    <3>1. PICK pkg : tx' = [tx EXCEPT !.commands[i].pkg = pkg]
      BY <2>1
    <3> DEFINE c == [tx.commands[i] EXCEPT !.pkg = pkg]
    <3>2. tx' = [tx EXCEPT !.commands[i] = c] /\ IsCommand(c)
      BY <1>1, <3>1 DEF IsCommand
    <3> HIDE DEF c
    <3> QED
      BY <3>2, OneChanged
  <2>2. CASE \E k, type : tx' = [tx EXCEPT !.commands[i].types[k] = type]
    <3>1. PICK k, type : tx' = [tx EXCEPT !.commands[i].types[k] = type]
      BY <2>2
    <3> DEFINE c == [tx.commands[i] EXCEPT !.types[k] = type]
    <3>2. tx' = [tx EXCEPT !.commands[i] = c] /\ IsCommand(c)
      BY <1>1, <3>1 DEF IsCommand
    <3> HIDE DEF c
    <3> QED
      BY <3>2, OneChanged
  <2>3. CASE tx' = [tx EXCEPT !.commands[i].types = <<>>]
    <3> DEFINE c == [tx.commands[i] EXCEPT !.types = <<>>]
    <3>2. tx' = [tx EXCEPT !.commands[i] = c] /\ IsCommand(c)
      BY <1>1, <2>3 DEF IsCommand
    <3> HIDE DEF c
    <3> QED
      BY <3>2, OneChanged
  <2>4. CASE \E param \in DOMAIN tx.commands[i].args : tx' = [tx EXCEPT !.commands[i].args =
                [p \in DOMAIN tx.commands[i].args \ {param} |-> tx.commands[i].args[p]]]
    <3>1. PICK param \in DOMAIN tx.commands[i].args : tx' = [tx EXCEPT !.commands[i].args =
                [p \in DOMAIN tx.commands[i].args \ {param} |-> tx.commands[i].args[p]]]
      BY <2>4
    <3> DEFINE args == [p \in DOMAIN tx.commands[i].args \ {param} |-> tx.commands[i].args[p]]
               c == [tx.commands[i] EXCEPT !.args = args]
    <3>2. DOMAIN args = DOMAIN tx.commands[i].args \ {param}
      OBVIOUS
    <3>3. tx' = [tx EXCEPT !.commands[i] = c]
      BY <3>1
    <3> HIDE DEF args
    <3>4. IsCommand(c)
      BY <1>1, <3>2 DEF IsCommand
    <3> HIDE DEF c
    <3> QED
      BY <3>3, <3>4, OneChanged
  <2> QED
    BY <1>3, <2>1, <2>2, <2>3, <2>4 DEF DamageCall
<1>4. ASSUME DamageCommands
      PROVE  IsFormed(tx')
  <2>1. CASE \E i \in DOMAIN tx.commands :
                tx' = [tx EXCEPT !.commands = Append(@, tx.commands[i])]
    BY <1>1, <2>1, OneAppended
  <2>2. CASE \E other \in {"cancel", "withdraw"} : \E a \in {b \in Asks : b.op = other} :
                \E i \in DOMAIN Commands(Plan(a).request) :
                    tx' = [tx EXCEPT !.commands = Append(@, Commands(Plan(a).request)[i])]
    <3>1. PICK a : /\ a.op \in {"cancel", "withdraw"}
                   /\ \E i \in DOMAIN Commands(Plan(a).request) :
                        tx' = [tx EXCEPT !.commands = Append(@, Commands(Plan(a).request)[i])]
      BY <2>2
    <3>2. PICK i \in DOMAIN Commands(Plan(a).request) :
            tx' = [tx EXCEPT !.commands = Append(@, Commands(Plan(a).request)[i])]
      BY <3>1
    <3>3. IsCommand(Commands(Plan(a).request)[i])
      BY <3>1, OfAnotherPlan
    <3> QED
      BY <3>2, <3>3, OneAppended
  <2>3. CASE tx' = [tx EXCEPT !.commands =
                        Append(@, [Vector(<<>>) EXCEPT !.kind = "TransferObjects"])]
    BY <2>3, CallsAreCommands, OneAppended
  <2>4. CASE \E i \in DOMAIN tx.commands : tx' = [tx EXCEPT !.commands[i] = Refresh]
    BY <2>4, CallsAreCommands, OneChanged
  <2> QED
    BY <1>4, <2>1, <2>2, <2>3, <2>4 DEF DamageCommands
<1>5. ASSUME DamageEnvelope
      PROVE  IsFormed(tx')
  <2>1. "commands" \in DOMAIN tx' /\ tx'.commands = tx.commands
    BY <1>5 DEF DamageEnvelope, IsFormed
  <2> QED
    BY <2>1 DEF IsFormed
<1> QED
  BY <1>2, <1>3, <1>4, <1>5 DEF Damage

(* The bytes of an order that is composed.                                *)
OrderIsFormed ==
    verdict \in {"composed", "refused", "signed"} /\ ask.op \in {"open", "limit", "placeTpSl"} =>
        IsFormed(tx)

LEMMA NextKeepsForm ==
    ASSUME OrderIsFormed, [Next]_vars
    PROVE  OrderIsFormed'
<1> USE DEF OrderIsFormed
<1>1. CASE Offer
  BY <1>1 DEF Offer
<1>2. CASE Drift
  BY <1>2 DEF Drift
<1>3. CASE Start
  BY <1>3 DEF Start
<1>4. CASE Authorize
  <2> SUFFICES ASSUME verdict' = "composed", ask.op \in {"open", "limit", "placeTpSl"}
               PROVE  IsFormed(tx')
    BY <1>4 DEF Authorize
  <2>1. tx' = Composed(Plan(ask).request)
    BY <1>4 DEF Authorize
  <2>2. "commands" \in DOMAIN tx'
    BY <2>1 DEF Composed
  <2>3. AreCommands(tx'.commands)
    BY <2>1, PlacementIs
  <2> QED
    BY <2>2, <2>3 DEF IsFormed
<1>5. CASE Damage
  <2>1. verdict = "composed" /\ UNCHANGED <<ask, verdict>>
    BY <1>5 DEF Damage
  <2> QED
    BY <1>5, <2>1, DamageKeepsForm
<1>6. CASE Verify
  BY <1>6 DEF Verify
<1>7. CASE UNCHANGED vars
  BY <1>7 DEF vars
<1> QED
  BY <1>1, <1>2, <1>3, <1>4, <1>5, <1>6, <1>7 DEF Next

-----------------------------------------------------------------------------
(* The orders a verified transaction places are the ones the verifier      *)
(* looked at.                                                             *)

(* Nothing but a request for an order places one.                         *)
LEMMA NothingIsPlaced ==
    ASSUME IsAsk(ask), Verified, ask.op \notin {"open", "limit", "placeTpSl"}
    PROVE  OrdersAreMeant
<1> DEFINE place == "trading::place_order_request"
           rule == ActionRules[Plan(ask).intent.action]
<1>1. /\ rule.companions \subseteq Rides /\ rule.entrypoint \in Sensitive \ Rides
      /\ rule.entrypoint = CallOfEach[ask.op]
  BY EachRule DEF Rides
<1>2. CallOfEach[ask.op] # place
  <2>1. ask.op \in {"close", "reduce", "addMargin", "cancel", "createAccount", "deposit",
                    "withdraw", "addDelegate", "removeDelegate", "removeAllDelegates",
                    "burnWlp", "cancelWlpBurn", "claimWlpRewards", "increase",
                    "removeMargin", "update", "mintWlp"}
    BY DEF IsAsk, Needs
  <2> QED
    BY <2>1 DEF CallOfEach
<1>3. \A i \in Operations : tx.commands[i].fn = CallOfEach[ask.op]
  BY <1>1, OperationsAre
<1>4. CallsOf(tx, {place}) \subseteq Operations
  BY DEF Operations, CallsOf, Grants, Relays, Sensitive, Perp, OrderArgument
<1>5. CallsOf(tx, {place}) = {}
  BY <1>2, <1>3, <1>4 DEF CallsOf
<1>6. PlacedOrders = {}
  BY <1>5 DEF PlacedOrders
<1>7. SignedOrders = {}
  BY <1>6 DEF SignedOrders
<1>8. AskedOrders = <<>>
  <2>1. <<>> \o <<>> = <<>>
    OBVIOUS
  <2> QED
    BY <2>1 DEF AskedOrders, AskedBracket
<1>9. Len(<<>>) = 0 /\ DOMAIN <<>> = {}
  OBVIOUS
<1>10. Cardinality(PlacedOrders) = Len(AskedOrders)
  BY <1>6, <1>8, <1>9, FS_EmptySet
<1>11. SignedOrders = {AskedOrders[k] : k \in DOMAIN AskedOrders}
  BY <1>7, <1>8, <1>9
<1> QED
  BY <1>10, <1>11 DEF OrdersAreMeant

(* A request for an order, and its bytes.                                 *)
Placing ==
    /\ IsAsk(ask) /\ ask.op \in {"open", "limit", "placeTpSl"}
    /\ CanPlan(ask, context.signer # OwnerAddress) /\ IsMarket(market)
    /\ Verified /\ IsFormed(tx)

PlaceCalls == CallsOf(tx, {"trading::place_order_request"})

(* The verifier's orders.                                                 *)
Constructed == {p \in PlaceCalls \X Calls(tx) : p[2] \in Constructors(tx, p[1])}

Legs == {p \in Constructed : IsLeg(OrderAt(tx, p[2]), Plan(ask).intent)}

LEMMA OrdersAreVerified ==
    ASSUME Placing
    PROVE  /\ OrdersAreRight(tx, PlaceCalls, Plan(ask).intent)
           /\ ask.op # "placeTpSl" => Cardinality(PlaceCalls) = 1
           /\ \A i \in PlaceCalls :
                /\ CodeIsTheDeployments(tx.commands[i], Plan(ask).intent, context.deployment)
                /\ ArgumentsAreBound(tx, tx.commands[i], Plan(ask).intent, context.deployment,
                                     <<>>)
<1> DEFINE place == "trading::place_order_request"
           rule == ActionRules[Plan(ask).intent.action]
<1>1. IsAsk(ask) /\ Verified /\ ask.op \in {"open", "limit", "placeTpSl"}
  BY DEF Placing
<1>2. /\ rule.entrypoint = place /\ rule.overrides = <<>>
      /\ rule.many <=> ask.op = "placeTpSl"
  BY <1>1, EachRule DEF CallOfEach
<1>3. /\ rule.many \/ Cardinality(CallsOf(tx, {rule.entrypoint})) = 1
      /\ \A i \in CallsOf(tx, {rule.entrypoint}) \cup CallsOf(tx, rule.companions) :
            /\ CodeIsTheDeployments(tx.commands[i], Plan(ask).intent, context.deployment)
            /\ ArgumentsAreBound(tx, tx.commands[i], Plan(ask).intent, context.deployment,
                                 rule.overrides)
      /\ rule.entrypoint = place =>
            OrdersAreRight(tx, CallsOf(tx, {rule.entrypoint}), Plan(ask).intent)
  BY <1>1 DEF Verified, Matches
<1> HIDE DEF rule
<1> QED
  BY <1>2, <1>3 DEF PlaceCalls

(* What a call that places an order is handed.                            *)
LEMMA PlaceTakes ==
    LET B == Bindings["trading::place_order_request"]
    IN /\ B["main"] = ProducedBy(OrderArgument) /\ B["preOrder"] = VectorOf(OrderArgument)
       /\ B["senderRequest"] = SenderRequest
       /\ {"main", "preOrder", "senderRequest"} \subseteq DOMAIN B
       /\ \A p \in DOMAIN B \ {"main", "preOrder", "senderRequest"} :
            B[p].by \in {"object", "field"}
<1> DEFINE own == [main |-> ProducedBy(OrderArgument), preOrder |-> VectorOf(OrderArgument)]
           B == Bindings["trading::place_order_request"]
<1>1. B = own @@ TradingRequest
  BY DEF Bindings, Sensitive, Perp, OrderArgument
<1>2. DOMAIN own = {"main", "preOrder"} /\ own["main"] = ProducedBy(OrderArgument)
      /\ own["preOrder"] = VectorOf(OrderArgument)
  OBVIOUS
<1> HIDE DEF own, B
<1>3. /\ DOMAIN (own @@ TradingRequest) = DOMAIN own \cup DOMAIN TradingRequest
      /\ \A x \in DOMAIN own : (own @@ TradingRequest)[x] = own[x]
      /\ \A x \in DOMAIN TradingRequest :
            x \notin DOMAIN own => (own @@ TradingRequest)[x] = TradingRequest[x]
  BY Layers
<1>4. \A p \in DOMAIN B : p \in DOMAIN own \/ p \in DOMAIN TradingRequest
  BY <1>1, <1>3
<1>5. \A p \in DOMAIN own : p \in DOMAIN B /\ B[p] = own[p]
  BY <1>1, <1>3
<1>6. \A p \in DOMAIN TradingRequest :
        p \in DOMAIN B /\ (p \notin DOMAIN own => B[p] = TradingRequest[p])
  BY <1>1, <1>3
<1>7. \A p \in DOMAIN TradingRequest : p # "senderRequest" =>
        TradingRequest[p].by \in {"object", "field"}
  BY TradingIsBound, Kinds
<1>8. "senderRequest" \in DOMAIN TradingRequest
      /\ TradingRequest["senderRequest"] = SenderRequest
  BY TradingIsBound
<1>9. \A p \in DOMAIN B \ {"main", "preOrder", "senderRequest"} : B[p].by \in {"object", "field"}
  BY <1>2, <1>4, <1>6, <1>7
<1>10. B["senderRequest"] = SenderRequest /\ "senderRequest" \in DOMAIN B
  BY <1>2, <1>6, <1>8
<1> QED
  BY <1>2, <1>5, <1>9, <1>10 DEF B

LEMMA PlaceIsHanded ==
    ASSUME Placing, NEW i \in PlaceCalls
    PROVE  LET args == tx.commands[i].args
               D    == context.deployment
           IN /\ {"main", "preOrder", "senderRequest"} \subseteq DOMAIN args
              /\ IsProducedBy(tx, args["main"], OrderArgument, D)
              /\ IsVectorOf(tx, args["preOrder"], OrderArgument, D)
              /\ IsProducedBy(tx, args["senderRequest"], "account::request", D)
              /\ \A p \in DOMAIN args \ {"main", "preOrder", "senderRequest"} :
                    args[p].is # "result"
              /\ AbiPackage(OrderArgument) \in D.packages
<1> DEFINE call == tx.commands[i]
           intent == Plan(ask).intent
           D == context.deployment
           B == Bindings["trading::place_order_request"]
<1>1. /\ CodeIsTheDeployments(call, intent, D)
      /\ ArgumentsAreBound(tx, call, intent, D, <<>>)
      /\ call.fn = "trading::place_order_request"
  BY OrdersAreVerified DEF PlaceCalls, CallsOf
<1>2. DOMAIN call.args = DOMAIN B
  BY <1>1 DEF ArgumentsAreBound
<1>3. \A p \in DOMAIN B : ArgumentIsBound(tx, call, p, B[p], intent, D)
  BY <1>1, ArgumentIsBoundTo
<1>4. {"main", "preOrder", "senderRequest"} \subseteq DOMAIN call.args
  BY <1>2, PlaceTakes
<1> HIDE DEF intent, D
<1>5. IsProducedBy(tx, call.args["main"], OrderArgument, D)
  <2>1. ArgumentIsBound(tx, call, "main", ProducedBy(OrderArgument), intent, D)
    BY <1>3, PlaceTakes
  <2> QED
    BY <2>1 DEF ArgumentIsBound, ProducedBy
<1>6. IsVectorOf(tx, call.args["preOrder"], OrderArgument, D)
  <2>1. ArgumentIsBound(tx, call, "preOrder", VectorOf(OrderArgument), intent, D)
    BY <1>3, PlaceTakes
  <2> QED
    BY <2>1 DEF ArgumentIsBound, VectorOf
<1>7. IsProducedBy(tx, call.args["senderRequest"], "account::request", D)
  <2>1. ArgumentIsBound(tx, call, "senderRequest", ProducedBy("account::request"), intent, D)
    BY <1>3, PlaceTakes DEF SenderRequest
  <2> QED
    BY <2>1 DEF ArgumentIsBound, ProducedBy
<1>8. ASSUME NEW p \in DOMAIN B \ {"main", "preOrder", "senderRequest"}
      PROVE  call.args[p].is # "result"
  <2>1. ArgumentIsBound(tx, call, p, B[p], intent, D) /\ B[p].by \in {"object", "field"}
    BY <1>3, PlaceTakes
  <2>2. CASE B[p].by = "object"
    BY <2>1, <2>2 DEF ArgumentIsBound, IsObject
  <2>3. CASE B[p].by = "field"
    <3>1. Agrees(intent, B[p].of, p \in Optional(call.fn), Read(call.args[p]))
      BY <2>1, <2>3 DEF ArgumentIsBound
    <3>2. Read(call.args[p]) # Unreadable
      BY <3>1, NameAssumption DEF Agrees
    <3> QED
      BY <3>2 DEF Read
  <2> QED
    BY <2>1, <2>2, <2>3
<1>9. AbiPackage(OrderArgument) \in D.packages
  BY <1>1, PackageOfAnOrder DEF CodeIsTheDeployments, D
<1>10. \A p \in DOMAIN call.args \ {"main", "preOrder", "senderRequest"} :
        call.args[p].is # "result"
  BY <1>2, <1>8
<1> HIDE DEF B, call
<1> QED
  BY <1>4, <1>5, <1>6, <1>7, <1>9, <1>10 DEF D, call

LEMMA HandedOrder ==
    ASSUME NEW argument, IsProducedBy(tx, argument, OrderArgument, context.deployment),
           AbiPackage(OrderArgument) \in context.deployment.packages
    PROVE  /\ argument.is = "result" /\ argument.of \in DOMAIN tx.commands
           /\ argument.of \in CallsOf(tx, {OrderArgument}) /\ argument.of \in Calls(tx)
           /\ tx.commands[argument.of].pkg = Package(AbiPackage(OrderArgument))
  BY DEF IsProducedBy, CallsOf, Calls

(* An order that is read whole is made of nothing else.                   *)
LEMMA OrderReachesItself ==
    ASSUME NEW c \in DOMAIN tx.commands, OrderIsReadable(tx, c)
    PROVE  ReachableFrom(tx)[c] = {c}
<1>1. \A p \in DOMAIN tx.commands[c].args : tx.commands[c].args[p].is # "result"
  BY DEF OrderIsReadable, OrderAt, Read
<1>2. Sources(tx, c) = {}
  BY <1>1 DEF Sources
<1>3. ReachableFrom(tx)[c] = {c} \cup UNION {ReachableFrom(tx)[j] : j \in Sources(tx, c)}
  <2> DEFINE R == ReachableFrom(tx)
  <2>1. R = [i \in DOMAIN tx.commands |-> {i} \cup UNION {R[j] : j \in Sources(tx, i)}]
    BY ReachableIsDefined
  <2> HIDE DEF R
  <2>2. R[c] = {c} \cup UNION {R[j] : j \in Sources(tx, c)}
    BY <2>1
  <2> QED
    BY <2>2 DEF R
<1> QED
  BY <1>2, <1>3

(* A place call is handed one order, and a vector of others.              *)
MainOf(i) == tx.commands[i].args["main"].of

VectorAt(i) == tx.commands[i].args["preOrder"].of

HandedTo(i) ==
    {MainOf(i)} \cup {tx.commands[VectorAt(i)].args[k].of : k \in DOMAIN tx.commands[VectorAt(i)].args}

LEMMA HandedIsConstructed ==
    ASSUME Placing, NEW i \in PlaceCalls, NEW c \in HandedTo(i)
    PROVE  c \in Calls(tx) /\ c \in Constructors(tx, i) /\ OrderIsReadable(tx, c)
           /\ ReachableFrom(tx)[c] = {c}
<1> DEFINE main == tx.commands[i].args["main"]
           legs == tx.commands[i].args["preOrder"]
           D == context.deployment
<1>1. i \in DOMAIN tx.commands
  BY DEF PlaceCalls, CallsOf, Calls
<1>2. /\ {"main", "preOrder"} \subseteq DOMAIN tx.commands[i].args
      /\ IsProducedBy(tx, main, OrderArgument, D)
      /\ IsVectorOf(tx, legs, OrderArgument, D)
      /\ AbiPackage(OrderArgument) \in D.packages
  BY PlaceIsHanded
<1>3. ASSUME NEW k \in DOMAIN tx.commands[legs.of].args
      PROVE  IsProducedBy(tx, tx.commands[legs.of].args[k], OrderArgument, D)
  BY <1>2 DEF IsVectorOf
<1>4. /\ c \in Calls(tx) /\ c \in CallsOf(tx, {OrderArgument}) /\ c \in DOMAIN tx.commands
      /\ tx.commands[c].pkg = Package(AbiPackage(OrderArgument))
  <2>1. CASE c = main.of
    BY <1>2, <2>1, HandedOrder
  <2>2. CASE \E k \in DOMAIN tx.commands[legs.of].args : c = tx.commands[legs.of].args[k].of
    <3>1. PICK k \in DOMAIN tx.commands[legs.of].args : c = tx.commands[legs.of].args[k].of
      BY <2>2
    <3> QED
      BY <1>2, <1>3, <3>1, HandedOrder
  <2> QED
    BY <2>1, <2>2 DEF HandedTo, MainOf, VectorAt
<1>5. c \in ReachableFrom(tx)[i]
  <2>1. CASE c = main.of
    <3>1. c \in Sources(tx, i)
      BY <1>2, <1>4, <2>1, HandedOrder DEF Sources
    <3> QED
      BY <1>1, <3>1, HandedIsReached
  <2>2. CASE \E k \in DOMAIN tx.commands[legs.of].args : c = tx.commands[legs.of].args[k].of
    <3>1. PICK k \in DOMAIN tx.commands[legs.of].args : c = tx.commands[legs.of].args[k].of
      BY <2>2
    <3>2. tx.commands[legs.of].args[k].is = "result"
      BY <1>3 DEF IsProducedBy
    <3>3. c \in Sources(tx, legs.of)
      BY <1>4, <3>1, <3>2 DEF Sources
    <3>4. legs.of \in Sources(tx, i)
      BY <1>2 DEF Sources, IsVectorOf
    <3> QED
      BY <1>1, <3>3, <3>4, HandedIsReached
  <2> QED
    BY <2>1, <2>2 DEF HandedTo, MainOf, VectorAt
<1>6. c \in Constructors(tx, i)
  BY <1>4, <1>5 DEF Constructors
<1>7. <<i, c>> \in Constructed
  BY <1>4, <1>6 DEF Constructed
<1>8. OrderIsReadable(tx, c)
  BY <1>7, OrdersAreVerified DEF OrdersAreRight, Constructed
<1> QED
  BY <1>4, <1>6, <1>8, OrderReachesItself

LEMMA ConstructedIsHanded ==
    ASSUME Placing, NEW i \in PlaceCalls, NEW c \in Constructors(tx, i)
    PROVE  c \in HandedTo(i)
<1> DEFINE args == tx.commands[i].args
           m == MainOf(i)
           v == VectorAt(i)
           h == args["senderRequest"].of
           R == ReachableFrom(tx)
           D == context.deployment
<1>1. /\ i \in DOMAIN tx.commands
      /\ tx.commands[i].fn = "trading::place_order_request"
  BY DEF PlaceCalls, CallsOf, Calls
<1>2. /\ IsVectorOf(tx, args["preOrder"], OrderArgument, D)
      /\ IsProducedBy(tx, args["senderRequest"], "account::request", D)
      /\ \A p \in DOMAIN args \ {"main", "preOrder", "senderRequest"} : args[p].is # "result"
  BY PlaceIsHanded
<1>3. /\ c \in R[i] /\ tx.commands[c].kind = "MoveCall" /\ tx.commands[c].fn = OrderArgument
  BY DEF Constructors, CallsOf, Calls
<1>4. Sources(tx, i) \subseteq {m, v, h}
  BY <1>2 DEF Sources, MainOf, VectorAt
<1>5. \A x \in DOMAIN tx.commands : R[x] = {x} \cup UNION {R[y] : y \in Sources(tx, x)}
  <2>1. R = [x \in DOMAIN tx.commands |-> {x} \cup UNION {R[y] : y \in Sources(tx, x)}]
    BY ReachableIsDefined
  <2> HIDE DEF R
  <2> QED
    BY <2>1
<1>6. /\ h \in DOMAIN tx.commands /\ tx.commands[h].kind = "MoveCall"
      /\ tx.commands[h].fn = "account::request"
  BY <1>2 DEF IsProducedBy, CallsOf, Calls
<1>7. DOMAIN tx.commands[h].args = {}
  BY <1>6 DEF Placing, IsFormed, AreCommands, IsCommand
<1>8. Sources(tx, h) = {}
  BY <1>7 DEF Sources
<1>9. v \in DOMAIN tx.commands /\ tx.commands[v].kind = "MakeMoveVec"
  BY <1>2 DEF IsVectorOf, VectorAt
<1>10. Sources(tx, v) \subseteq HandedTo(i)
  BY DEF Sources, HandedTo
<1>11. \A y \in HandedTo(i) : R[y] = {y}
  BY HandedIsConstructed
<1>12. m \in HandedTo(i)
  BY DEF HandedTo
<1> HIDE DEF R, m, v, h
<1>13. R[h] = {h}
  BY <1>5, <1>6, <1>8
<1>14. R[v] \subseteq {v} \cup HandedTo(i)
  BY <1>5, <1>9, <1>10, <1>11
<1>15. R[i] \subseteq {i, h, v} \cup HandedTo(i)
  BY <1>1, <1>4, <1>5, <1>11, <1>12, <1>13, <1>14
<1>16. c # i /\ c # h /\ c # v
  BY <1>1, <1>3, <1>6, <1>9 DEF OrderArgument
<1> QED
  BY <1>3, <1>15, <1>16

(* What the bytes place is what the verifier looked at, no more, no less.  *)
LEMMA PlacedAre ==
    ASSUME Placing
    PROVE  PlacedOrders = Constructed
<1>1. \A p : p \in PlacedOrders <=> p \in PlaceCalls \X Calls(tx) /\ p[2] \in HandedTo(p[1])
  BY DEF PlacedOrders, PlaceCalls, HandedTo, MainOf, VectorAt
<1>2. \A p : p \in Constructed <=> p \in PlaceCalls \X Calls(tx) /\ p[2] \in Constructors(tx, p[1])
  BY DEF Constructed
<1>3. ASSUME NEW p \in PlaceCalls \X Calls(tx)
      PROVE  p[2] \in HandedTo(p[1]) <=> p[2] \in Constructors(tx, p[1])
  BY HandedIsConstructed, ConstructedIsHanded
<1> QED
  BY <1>1, <1>2, <1>3

(* An order that is placed, as the bytes say it.                          *)
LEMMA SignedOrdersAre ==
    ASSUME Placing
    PROVE  SignedOrders = {OrderAt(tx, p[2]) : p \in Constructed}
<1> DEFINE said(p) == [q \in DOMAIN tx.commands[p[2]].args |-> tx.commands[p[2]].args[q].v]
           order(p) == OrderAt(tx, p[2])
<1>1. ASSUME NEW p \in Constructed
      PROVE  said(p) = order(p)
  <2> DEFINE c == p[2]
  <2>1. OrderIsReadable(tx, c)
    BY OrdersAreVerified DEF OrdersAreRight, Constructed
  <2> HIDE DEF c
  <2>2. \A q \in DOMAIN tx.commands[c].args :
            Read(tx.commands[c].args[q]) = tx.commands[c].args[q].v
    BY <2>1 DEF OrderIsReadable, OrderAt, Read
  <2>3. [q \in DOMAIN tx.commands[c].args |-> tx.commands[c].args[q].v] = OrderAt(tx, c)
    BY <2>2 DEF OrderAt
  <2> QED
    BY <2>3 DEF c
<1>2. SignedOrders = {said(p) : p \in Constructed}
  BY PlacedAre DEF SignedOrders
<1> HIDE DEF said
<1>3. SignedOrders = {order(p) : p \in Constructed}
  <2> HIDE DEF order
  <2> QED
    BY <1>1, <1>2
<1> QED
  BY <1>3

-----------------------------------------------------------------------------
(* The order that opens or rests.                                         *)

(* Everything an order says is held to the intent.                        *)
LEMMA OrderTable ==
    /\ DOMAIN OrderArgBindings = {"isLong", "size", "triggerPrice", "linkedPositionId",
           "acceptablePrice", "collateralAmount", "isStopOrder", "reduceOnly"}
    /\ OrderArgBindings["linkedPositionId"] = Field("positionId")
    /\ OrderArgBindings["isStopOrder"] = Field("isStopOrder")
    /\ OrderArgBindings["reduceOnly"] = Field("reduceOnly")
<1> DEFINE own == [isLong |-> Field("side"), size |-> Field("sizeRaw"),
                   triggerPrice |-> Field("triggerPriceRaw"),
                   linkedPositionId |-> Field("positionId"),
                   acceptablePrice |-> Field("acceptablePriceRaw"),
                   collateralAmount |-> Field("collateralRaw")]
           named == Same({"isStopOrder", "reduceOnly"})
<1>1. OrderArgBindings = own @@ named
  BY DEF OrderArgBindings
<1>2. DOMAIN own = {"isLong", "size", "triggerPrice", "linkedPositionId", "acceptablePrice",
                    "collateralAmount"} /\ own["linkedPositionId"] = Field("positionId")
  OBVIOUS
<1>3. /\ DOMAIN named = {"isStopOrder", "reduceOnly"}
      /\ \A p \in DOMAIN named : named[p] = Field(p)
  BY DEF Same
<1> HIDE DEF own, named
<1>4. /\ DOMAIN (own @@ named) = DOMAIN own \cup DOMAIN named
      /\ \A x \in DOMAIN own : (own @@ named)[x] = own[x]
      /\ \A x \in DOMAIN named : x \notin DOMAIN own => (own @@ named)[x] = named[x]
  BY Layers
<1> QED
  BY <1>1, <1>2, <1>3, <1>4

(* What an intent says of the orders besides, of each request that places. *)
LEMMA OpenSaysOfOrders ==
    ASSUME NEW a, a.op = "open"
    PROVE  LET intent == Plan(a).intent
           IN /\ intent.positionId = Undefined /\ intent.isStopOrder = FALSE
              /\ intent.legs = BracketLegs(a, a.isLong)
  BY DEF Intent, Plan, PlanOpenPosition, Fields

LEMMA LimitSaysOfOrders ==
    ASSUME NEW a, a.op = "limit"
    PROVE  LET intent == Plan(a).intent
           IN /\ intent.positionId = Or(a, "linkedPositionId", Undefined)
              /\ intent.isStopOrder = Or(a, "isStopOrder", FALSE)
              /\ intent.reduceOnly = Or(a, "reduceOnly", FALSE)
              /\ intent.legs = BracketLegs(a, a.isLong)
  BY DEF Intent, Plan, PlanPlaceLimitOrder, Fields

LEMMA BracketSaysOfOrders ==
    ASSUME NEW a, a.op = "placeTpSl"
    PROVE  LET intent == Plan(a).intent
           IN /\ intent.positionId = a.positionId
              /\ intent.sizeRaw = Or(a, "size", PositionOf(a).sizeInAsset)
              /\ intent.legs = BracketLegs(a, PositionOf(a).side = "long")
  BY DEF Intent, Plan, PlanPlaceTpSl, Fields

(* Whether an order only reduces is read of the intent.                   *)
LEMMA OnlyReducesSays ==
    ASSUME IsAsk(ask), ask.op \in {"open", "limit", "placeTpSl"}
    PROVE  /\ OnlyReduces \in BOOLEAN
           /\ Plan(ask).intent.reduceOnly = TRUE <=> OnlyReduces \/ ask.op = "placeTpSl"
<1>1. Or(ask, "reduceOnly", FALSE) \in BOOLEAN
  BY DEF IsAsk, Or, Given
<1>2. CASE ask.op = "open"
  BY <1>2, OpenSays DEF OnlyReduces
<1>3. CASE ask.op = "limit"
  BY <1>1, <1>3, LimitSaysOfOrders DEF OnlyReduces
<1>4. CASE ask.op = "placeTpSl"
  BY <1>4, BracketSays DEF OnlyReduces
<1> QED
  BY <1>2, <1>3, <1>4

(* The sizes and the prices of the plan are those of the request.         *)
LEMMA SizesAgree ==
    /\ \A price : AskedSize(price) = OrderSize(ask, price)
    /\ \A fill : Worst(fill) = AcceptablePriceFor(Spot, fill, Slippage(ask))
  BY DEF AskedSize, OrderSize, Worst, AcceptablePriceFor

(* What the bytes say of a main order is all that was asked of it.         *)
LEMMA MainSaysAll ==
    ASSUME NEW order, NEW intent, MainIsBound(order, intent)
    PROVE  /\ order["linkedPositionId"] = intent.positionId
           /\ order["isStopOrder"] = intent.isStopOrder
           /\ order["reduceOnly"] = intent.reduceOnly
<1>1. \A param \in DOMAIN OrderArgBindings :
        Agrees(intent, OrderArgBindings[param].of, param \in Optional(OrderArgument), order[param])
  BY DEF MainIsBound
<1>2. \A name : Field(name).of = name
  BY DEF Field
<1>3. /\ order["linkedPositionId"] = Authorized(intent, "positionId")
      /\ order["isStopOrder"] = Authorized(intent, "isStopOrder")
      /\ order["reduceOnly"] = Authorized(intent, "reduceOnly")
  BY <1>1, <1>2, OrderTable, AgreesSays
<1> QED
  BY <1>3, AuthorizedField

(* An order read whole says eight things.                                 *)
LEMMA OrderSays ==
    ASSUME NEW c, OrderIsReadable(tx, c)
    PROVE  LET order == OrderAt(tx, c)
           IN order = [isLong |-> order["isLong"], isStopOrder |-> order["isStopOrder"],
                       reduceOnly |-> order["reduceOnly"], size |-> order["size"],
                       triggerPrice |-> order["triggerPrice"],
                       linkedPositionId |-> order["linkedPositionId"],
                       acceptablePrice |-> order["acceptablePrice"],
                       collateralAmount |-> order["collateralAmount"]]
<1> DEFINE order == OrderAt(tx, c)
<1>1. DOMAIN tx.commands[c].args = DOMAIN OrderArgBindings
  BY DEF OrderIsReadable
<1>2. order = [p \in DOMAIN OrderArgBindings |-> order[p]]
  BY <1>1 DEF OrderAt
<1> HIDE DEF order
<1>3. order = [p \in {"isLong", "size", "triggerPrice", "linkedPositionId", "acceptablePrice",
                      "collateralAmount", "isStopOrder", "reduceOnly"} |-> order[p]]
  BY <1>2, OrderTable
<1>4. order = [isLong |-> order["isLong"], isStopOrder |-> order["isStopOrder"],
               reduceOnly |-> order["reduceOnly"], size |-> order["size"],
               triggerPrice |-> order["triggerPrice"],
               linkedPositionId |-> order["linkedPositionId"],
               acceptablePrice |-> order["acceptablePrice"],
               collateralAmount |-> order["collateralAmount"]]
  BY <1>3
<1> QED
  BY <1>4 DEF order

LEMMA MainIsTheEntry ==
    ASSUME Placing, NEW p \in Constructed \ Legs
    PROVE  /\ ask.op \in {"open", "limit"} /\ ~OnlyReduces
           /\ OrderAt(tx, p[2]) = AskedEntry
<1> DEFINE intent == Plan(ask).intent
           order == OrderAt(tx, p[2])
<1>1. /\ MainIsBound(order, intent) /\ OrderIsReadable(tx, p[2])
      /\ intent.reduceOnly # TRUE
  BY OrdersAreVerified DEF OrdersAreRight, Legs, Constructed, IsLeg
<1>2. IsAsk(ask) /\ ask.op \in {"open", "limit", "placeTpSl"}
  BY DEF Placing
<1>3. ask.op \in {"open", "limit"} /\ ~OnlyReduces
  BY <1>1, <1>2, OnlyReducesSays
<1>4. ask.isLong \in BOOLEAN
  BY <1>2, <1>3 DEF IsAsk, Needs
<1>5. order = [isLong |-> order["isLong"], isStopOrder |-> order["isStopOrder"],
               reduceOnly |-> order["reduceOnly"], size |-> order["size"],
               triggerPrice |-> order["triggerPrice"],
               linkedPositionId |-> order["linkedPositionId"],
               acceptablePrice |-> order["acceptablePrice"],
               collateralAmount |-> order["collateralAmount"]]
  BY <1>1, OrderSays
<1> HIDE DEF order
<1>6. intent.side = Side(ask.isLong)
  BY <1>3, OpenSays, LimitSays
<1> HIDE DEF intent
<1>7. /\ order["isLong"] = Authorized(intent, "side") /\ order["isLong"] # Undefined
      /\ order["size"] = intent.sizeRaw
      /\ order["triggerPrice"] = intent.triggerPriceRaw
      /\ order["acceptablePrice"] = intent.acceptablePriceRaw
      /\ order["collateralAmount"] = intent.collateralRaw
      /\ order["linkedPositionId"] = intent.positionId
      /\ order["isStopOrder"] = intent.isStopOrder
      /\ order["reduceOnly"] = intent.reduceOnly
  BY <1>1, MainSays, MainSaysAll
<1>8. order["isLong"] = ask.isLong
  BY <1>4, <1>6, <1>7, AuthorizedIs, SideOf
<1>9. ASSUME ask.op = "open"
      PROVE  order = AskedEntry
  <2>1. /\ intent.sizeRaw = AskedSize(Spot) /\ intent.triggerPriceRaw = Undefined
        /\ intent.acceptablePriceRaw = Worst(Entry(Side(ask.isLong)))
        /\ intent.collateralRaw = ask.collateral /\ intent.positionId = Undefined
        /\ intent.isStopOrder = FALSE /\ intent.reduceOnly = FALSE
    BY <1>9, OpenSays, OpenSaysOfOrders, SizesAgree DEF intent
  <2>2. Entry(Side(ask.isLong)) = IF ask.isLong THEN "buy" ELSE "sell"
    BY <1>4 DEF Entry, Side
  <2>3. AskedEntry = [isLong |-> ask.isLong, isStopOrder |-> FALSE, reduceOnly |-> FALSE,
             size |-> AskedSize(Spot), triggerPrice |-> Undefined,
             linkedPositionId |-> Undefined,
             acceptablePrice |-> Worst(IF ask.isLong THEN "buy" ELSE "sell"),
             collateralAmount |-> ask.collateral]
    BY <1>9 DEF AskedEntry
  <2>4. /\ order["isLong"] = ask.isLong /\ order["isStopOrder"] = FALSE
        /\ order["reduceOnly"] = FALSE /\ order["size"] = AskedSize(Spot)
        /\ order["triggerPrice"] = Undefined /\ order["linkedPositionId"] = Undefined
        /\ order["acceptablePrice"] = Worst(IF ask.isLong THEN "buy" ELSE "sell")
        /\ order["collateralAmount"] = ask.collateral
    BY <1>7, <1>8, <2>1, <2>2
  <2> QED
    BY <1>5, <2>3, <2>4, Zenon
<1>10. ASSUME ask.op = "limit"
       PROVE  order = AskedEntry
  <2>1. /\ intent.sizeRaw = AskedSize(ask.triggerPrice)
        /\ intent.triggerPriceRaw = ask.triggerPrice /\ intent.acceptablePriceRaw = Undefined
        /\ intent.collateralRaw = ask.collateral
        /\ intent.positionId = Or(ask, "linkedPositionId", Undefined)
        /\ intent.isStopOrder = Or(ask, "isStopOrder", FALSE)
        /\ intent.reduceOnly = Or(ask, "reduceOnly", FALSE)
    BY <1>10, LimitSays, LimitSaysOfOrders, SizesAgree DEF intent
  <2>2. AskedEntry = [isLong |-> ask.isLong, isStopOrder |-> Or(ask, "isStopOrder", FALSE),
             reduceOnly |-> Or(ask, "reduceOnly", FALSE),
             size |-> AskedSize(ask.triggerPrice), triggerPrice |-> ask.triggerPrice,
             linkedPositionId |-> Or(ask, "linkedPositionId", Undefined),
             acceptablePrice |-> Undefined, collateralAmount |-> ask.collateral]
    BY <1>10 DEF AskedEntry
  <2>3. /\ order["isLong"] = ask.isLong /\ order["isStopOrder"] = Or(ask, "isStopOrder", FALSE)
        /\ order["reduceOnly"] = Or(ask, "reduceOnly", FALSE)
        /\ order["size"] = AskedSize(ask.triggerPrice)
        /\ order["triggerPrice"] = ask.triggerPrice
        /\ order["linkedPositionId"] = Or(ask, "linkedPositionId", Undefined)
        /\ order["acceptablePrice"] = Undefined
        /\ order["collateralAmount"] = ask.collateral
    BY <1>7, <1>8, <2>1
  <2> QED
    BY <1>5, <2>2, <2>3, Zenon
<1> QED
  BY <1>3, <1>9, <1>10 DEF order

-----------------------------------------------------------------------------
(* The legs.                                                              *)

(* No more things of the kind of l than entries of it.                    *)
NoMoreThan(L, d, b, n, l) ==
    Cardinality({m \in L : d[m] = d[l]}) <= Cardinality({k \in 1 .. n : b[k] = d[l]})

(* As many things as entries of a sequence without repetition, and no more *)
(* of a kind than entries of it: the kinds are exactly the entries.        *)
LEMMA Matching ==
    ASSUME NEW L, IsFiniteSet(L), NEW d, DOMAIN d = L, NEW b, NEW n \in Nat,
           DOMAIN b = 1 .. n, Cardinality(L) = n,
           \A j, k \in 1 .. n : b[j] = b[k] => j = k,
           \A l \in L : NoMoreThan(L, d, b, n, l)
    PROVE  /\ \A l \in L : \E k \in 1 .. n : d[l] = b[k]
           /\ \A k \in 1 .. n : \E l \in L : d[l] = b[k]
<1>1. IsFiniteSet(1 .. n) /\ Cardinality(1 .. n) = n
  BY FS_Interval
<1>2. ASSUME NEW l \in L
      PROVE  /\ \E k \in 1 .. n : d[l] = b[k]
             /\ \A m \in L : d[m] = d[l] => m = l
  <2> DEFINE same == {m \in L : d[m] = d[l]}
             entries == {k \in 1 .. n : b[k] = d[l]}
  <2>1. IsFiniteSet(same) /\ l \in same
    <3>1. same \in SUBSET L
      OBVIOUS
    <3> QED
      BY <3>1, FS_Subset
  <2>2. Cardinality(same) <= Cardinality(entries)
    BY DEF NoMoreThan
  <2>3. Cardinality(same) \in Nat /\ Cardinality(same) # 0
    BY <2>1, FS_EmptySet, FS_CardinalityType
  <2>4. entries # {}
    <3> HIDE DEF same, entries
    <3>1. ASSUME entries = {}
          PROVE  FALSE
      <4>1. Cardinality(entries) = 0
        BY <3>1, FS_EmptySet
      <4> QED
        BY <2>2, <2>3, <4>1
    <3> QED
      BY <3>1
  <2>5. PICK k \in 1 .. n : d[l] = b[k]
    BY <2>4
  <2>6. entries = {k}
    BY <2>5
  <2>7. Cardinality(entries) = 1
    BY <2>6, FS_Singleton
  <2> HIDE DEF entries
  <2>8. Cardinality(same) = 1
    BY <2>2, <2>3, <2>7
  <2>9. \A m \in same : m = l
    BY <2>1, <2>8, FS_Singleton
  <2> QED
    BY <2>5, <2>9
<1> DEFINE f == [l \in L |-> CHOOSE k \in 1 .. n : d[l] = b[k]]
<1>3. \A l \in L : f[l] \in 1 .. n /\ d[l] = b[f[l]]
  BY <1>2
<1>4. f \in [L -> 1 .. n]
  BY <1>3
<1> HIDE DEF f
<1>5. \A l, m \in L : f[l] = f[m] => l = m
  BY <1>2, <1>3
<1>6. f \in Injection(L, 1 .. n)
  BY <1>4, <1>5, Fun_IsInj
<1>7. f \in Surjection(L, 1 .. n)
  BY <1>1, <1>6, FS_Injection
<1>8. \A k \in 1 .. n : \E l \in L : f[l] = k
  <2> DEFINE T == 1 .. n
  <2>1. f \in Surjection(L, T)
    BY <1>7
  <2> HIDE DEF T
  <2>2. \A k \in T : \E l \in L : f[l] = k
    BY <2>1, Fun_SurjectionProperties
  <2> QED
    BY <2>2 DEF T
<1> QED
  BY <1>2, <1>3, <1>8

(* Two sequences of at most one entry each, joined.                       *)
LEMMA Joined ==
    ASSUME NEW x, NEW y
    PROVE  /\ <<x>> \o <<y>> = <<x, y>> /\ <<x>> \o <<>> = <<x>> /\ <<>> \o <<y>> = <<y>>
           /\ <<>> \o <<>> = <<>>
<1>1. <<x>> \o <<y>> = <<x, y>>
  <2> DEFINE s == <<x>>
             t == <<y>>
             r == <<x, y>>
  <2>1. /\ s \in Seq({x, y}) /\ Len(s) = 1 /\ s[1] = x
        /\ t \in Seq({x, y}) /\ Len(t) = 1 /\ t[1] = y
        /\ r \in Seq({x, y}) /\ Len(r) = 2 /\ r[1] = x /\ r[2] = y
    OBVIOUS
  <2> HIDE DEF s, t, r
  <2>2. s \o t \in Seq({x, y}) /\ Len(s \o t) = 2 /\ (s \o t)[1] = x /\ (s \o t)[2] = y
    <3>1. ASSUME NEW S, NEW p \in Seq(S), NEW q \in Seq(S), Len(p) = 1, Len(q) = 1
          PROVE  p \o q \in Seq(S) /\ Len(p \o q) = 2
      BY <3>1
    <3>2. ASSUME NEW S, NEW p \in Seq(S), NEW q \in Seq(S), Len(p) = 1, Len(q) = 1
          PROVE  (p \o q)[1] = p[1] /\ (p \o q)[2] = q[1]
      BY <3>2
    <3> QED
      BY <2>1, <3>1, <3>2
  <2>3. s \o t = r
    <3>1. \A k \in 1 .. 2 : (s \o t)[k] = r[k]
      BY <2>1, <2>2
    <3> QED
      BY <2>1, <2>2, <3>1
  <2> QED
    BY <2>3 DEF s, t, r
<1>2. <<x>> \o <<>> = <<x>>
  OBVIOUS
<1>3. <<>> \o <<y>> = <<y>>
  OBVIOUS
<1>4. <<>> \o <<>> = <<>>
  OBVIOUS
<1> QED
  BY <1>1, <1>2, <1>3, <1>4

(* The legs asked for are those of the plan, with what a leg always is; no *)
(* two of them are the same.                                              *)
LEMMA LegsAsked ==
    ASSUME NEW isLong, NEW size, NEW position
    PROVE  LET legs  == BracketLegs(ask, isLong)
               asked == AskedLegs(isLong, size, position)
           IN /\ Len(legs) \in Nat /\ DOMAIN legs = 1 .. Len(legs)
              /\ Len(asked) = Len(legs) /\ DOMAIN asked = 1 .. Len(legs)
              /\ \E S : asked \in Seq(S)
              /\ \A k \in 1 .. Len(legs) : asked[k] = Leg(legs[k], size, position)
              /\ \A j, k \in 1 .. Len(legs) : legs[j] = legs[k] => j = k
<1> DEFINE L(price, stop) == [triggerPrice |-> price, isStopOrder |-> stop, isLong |-> ~isLong]
           A(price, stop) ==
               [isLong |-> ~isLong, isStopOrder |-> stop, reduceOnly |-> TRUE, size |-> size,
                triggerPrice |-> price, linkedPositionId |-> position,
                acceptablePrice |-> Undefined, collateralAmount |-> 0]
           profit == L(ask.takeProfit, FALSE)
           stop == L(ask.stopLoss, TRUE)
           profitAsked == A(ask.takeProfit, FALSE)
           stopAsked == A(ask.stopLoss, TRUE)
           legs == BracketLegs(ask, isLong)
           asked == AskedLegs(isLong, size, position)
<1>1. legs = (IF Given(ask, "takeProfit") THEN <<profit>> ELSE <<>>)
             \o (IF Given(ask, "stopLoss") THEN <<stop>> ELSE <<>>)
  BY DEF BracketLegs
<1>2. asked = (IF Given(ask, "takeProfit") THEN <<profitAsked>> ELSE <<>>)
              \o (IF Given(ask, "stopLoss") THEN <<stopAsked>> ELSE <<>>)
  BY DEF AskedLegs
<1>3. profitAsked = Leg(profit, size, position) /\ stopAsked = Leg(stop, size, position)
  BY DEF Leg
<1>4. profit # stop
  <2>1. profit.isStopOrder = FALSE /\ stop.isStopOrder = TRUE
    OBVIOUS
  <2> QED
    BY <2>1
<1> HIDE DEF profit, stop, profitAsked, stopAsked, legs, asked
<1>5. CASE Given(ask, "takeProfit") /\ Given(ask, "stopLoss")
  <2>1. legs = <<profit, stop>> /\ asked = <<profitAsked, stopAsked>>
    BY <1>1, <1>2, <1>5, Joined
  <2>2. asked \in Seq({profitAsked, stopAsked})
    BY <2>1
  <2>3. /\ Len(legs) = 2 /\ DOMAIN legs = 1 .. 2 /\ Len(asked) = 2 /\ DOMAIN asked = 1 .. 2
        /\ legs[1] = profit /\ legs[2] = stop
        /\ asked[1] = profitAsked /\ asked[2] = stopAsked
    BY <2>1
  <2>4. /\ \A k \in 1 .. 2 : asked[k] = Leg(legs[k], size, position)
        /\ \A j, k \in 1 .. 2 : legs[j] = legs[k] => j = k
    BY <1>3, <1>4, <2>3
  <2> QED
    BY <2>2, <2>3, <2>4 DEF legs, asked
<1>6. CASE Given(ask, "takeProfit") /\ ~Given(ask, "stopLoss")
  <2>1. legs = <<profit>> /\ asked = <<profitAsked>>
    BY <1>1, <1>2, <1>6, Joined
  <2>2. asked \in Seq({profitAsked})
    BY <2>1
  <2>3. /\ Len(legs) = 1 /\ DOMAIN legs = 1 .. 1 /\ Len(asked) = 1 /\ DOMAIN asked = 1 .. 1
        /\ legs[1] = profit /\ asked[1] = profitAsked
    BY <2>1
  <2> QED
    BY <1>3, <2>2, <2>3 DEF legs, asked
<1>7. CASE ~Given(ask, "takeProfit") /\ Given(ask, "stopLoss")
  <2>1. legs = <<stop>> /\ asked = <<stopAsked>>
    BY <1>1, <1>2, <1>7, Joined
  <2>2. asked \in Seq({stopAsked})
    BY <2>1
  <2>3. /\ Len(legs) = 1 /\ DOMAIN legs = 1 .. 1 /\ Len(asked) = 1 /\ DOMAIN asked = 1 .. 1
        /\ legs[1] = stop /\ asked[1] = stopAsked
    BY <2>1
  <2> QED
    BY <1>3, <2>2, <2>3 DEF legs, asked
<1>8. CASE ~Given(ask, "takeProfit") /\ ~Given(ask, "stopLoss")
  <2>1. legs = <<>> /\ asked = <<>>
    BY <1>1, <1>2, <1>8, Joined
  <2> QED
    BY <2>1 DEF legs, asked
<1> QED
  BY <1>5, <1>6, <1>7, <1>8

(* The position that a leg is tied to.                                    *)
LinkedTo(intent) == IF intent.reduceOnly = TRUE THEN intent.positionId ELSE Undefined

LEMMA BracketIs ==
    ASSUME Placing
    PROVE  LET intent == Plan(ask).intent
           IN /\ intent.sizeRaw # Undefined
              /\ \E isLong : /\ intent.legs = BracketLegs(ask, isLong)
                             /\ AskedBracket = AskedLegs(isLong, intent.sizeRaw, LinkedTo(intent))
<1> DEFINE intent == Plan(ask).intent
<1>1. /\ IsAsk(ask) /\ ask.op \in {"open", "limit", "placeTpSl"}
      /\ CanPlan(ask, context.signer # OwnerAddress) /\ IsMarket(market)
  BY DEF Placing
<1>2. intent.reduceOnly = TRUE <=> OnlyReduces \/ ask.op = "placeTpSl"
  BY <1>1, OnlyReducesSays
<1>3. ASSUME ask.op = "open"
      PROVE  /\ intent.sizeRaw # Undefined
             /\ intent.legs = BracketLegs(ask, ask.isLong)
             /\ AskedBracket = AskedLegs(ask.isLong, intent.sizeRaw, LinkedTo(intent))
  <2>1. /\ intent.sizeRaw = OrderSize(ask, Spot) /\ intent.legs = BracketLegs(ask, ask.isLong)
    BY <1>3, OpenSays, OpenSaysOfOrders
  <2>2. intent.sizeRaw # Undefined
    BY <1>1, <1>3, <2>1, SizeIsInt, NumberAssumption DEF CanPlan, IsMarket, Spot
  <2>3. LinkedTo(intent) = Undefined
    BY <1>2, <1>3 DEF LinkedTo, OnlyReduces
  <2>4. AskedBracket = AskedLegs(ask.isLong, AskedSize(Spot), Undefined)
    BY <1>3 DEF AskedBracket
  <2> QED
    BY <2>1, <2>2, <2>3, <2>4, SizesAgree
<1>4. ASSUME ask.op = "limit"
      PROVE  /\ intent.sizeRaw # Undefined
             /\ intent.legs = BracketLegs(ask, ask.isLong)
             /\ AskedBracket = AskedLegs(ask.isLong, intent.sizeRaw, LinkedTo(intent))
  <2>1. /\ intent.sizeRaw = OrderSize(ask, ask.triggerPrice)
        /\ intent.legs = BracketLegs(ask, ask.isLong)
        /\ intent.positionId = Or(ask, "linkedPositionId", Undefined)
    BY <1>4, LimitSays, LimitSaysOfOrders
  <2>2. ask.triggerPrice \in Int
    BY <1>1, <1>4 DEF IsAsk, Needs, Amounts
  <2>3. intent.sizeRaw # Undefined
    BY <1>1, <1>4, <2>1, <2>2, SizeIsInt, NumberAssumption DEF CanPlan
  <2>4. LinkedTo(intent) = IF OnlyReduces THEN Or(ask, "linkedPositionId", Undefined)
                           ELSE Undefined
    BY <1>2, <1>4, <2>1 DEF LinkedTo
  <2>5. AskedBracket = AskedLegs(ask.isLong, AskedSize(ask.triggerPrice),
            IF OnlyReduces THEN Or(ask, "linkedPositionId", Undefined) ELSE Undefined)
    BY <1>4 DEF AskedBracket
  <2> QED
    BY <2>1, <2>3, <2>4, <2>5, SizesAgree
<1>5. ASSUME ask.op = "placeTpSl"
      PROVE  /\ intent.sizeRaw # Undefined
             /\ intent.legs = BracketLegs(ask, PositionOf(ask).side = "long")
             /\ AskedBracket = AskedLegs(PositionOf(ask).side = "long", intent.sizeRaw,
                                         LinkedTo(intent))
  <2>1. /\ intent.sizeRaw = Or(ask, "size", PositionOf(ask).sizeInAsset)
        /\ intent.legs = BracketLegs(ask, PositionOf(ask).side = "long")
        /\ intent.positionId = ask.positionId
    BY <1>5, BracketSaysOfOrders
  <2>2. PositionOf(ask).sizeInAsset \in Int
    BY <1>1, <1>5, PositionIsTyped DEF CanPlan
  <2>3. intent.sizeRaw # Undefined
    BY <1>1, <2>1, <2>2, NumberAssumption DEF Or, Given, IsAsk, Amounts
  <2>4. LinkedTo(intent) = ask.positionId
    BY <1>2, <1>5, <2>1 DEF LinkedTo
  <2>5. AskedBracket = AskedLegs(PositionOf(ask).side = "long",
            Or(ask, "size", PositionOf(ask).sizeInAsset), ask.positionId)
    BY <1>5 DEF AskedBracket
  <2> QED
    BY <2>1, <2>3, <2>4, <2>5
<1> HIDE DEF intent
<1>6. /\ intent.sizeRaw # Undefined
      /\ \E isLong : /\ intent.legs = BracketLegs(ask, isLong)
                     /\ AskedBracket = AskedLegs(isLong, intent.sizeRaw, LinkedTo(intent))
  BY <1>1, <1>3, <1>4, <1>5
<1> QED
  BY <1>6 DEF intent

(* What the bytes say of a leg is what a leg always is, and the descriptor *)
(* it uses up.                                                            *)
LEMMA LegIsWhole ==
    ASSUME Placing, NEW p \in Legs
    PROVE  LET order  == OrderAt(tx, p[2])
               intent == Plan(ask).intent
           IN order = Leg(Descriptor(order), intent.sizeRaw, LinkedTo(intent))
<1> DEFINE intent == Plan(ask).intent
           order == OrderAt(tx, p[2])
<1>1. LegIsBound(order, intent) /\ OrderIsReadable(tx, p[2])
  BY OrdersAreVerified DEF OrdersAreRight, Legs, Constructed
<1>2. intent.sizeRaw # Undefined
  BY BracketIs
<1>3. order = [isLong |-> order["isLong"], isStopOrder |-> order["isStopOrder"],
               reduceOnly |-> order["reduceOnly"], size |-> order["size"],
               triggerPrice |-> order["triggerPrice"],
               linkedPositionId |-> order["linkedPositionId"],
               acceptablePrice |-> order["acceptablePrice"],
               collateralAmount |-> order["collateralAmount"]]
  BY <1>1, OrderSays
<1> HIDE DEF order, intent
<1>4. /\ order["reduceOnly"] = TRUE /\ order["collateralAmount"] = 0
      /\ order["size"] = intent.sizeRaw /\ order["acceptablePrice"] = Undefined
      /\ order["linkedPositionId"] = LinkedTo(intent)
  BY <1>1, <1>2 DEF LegIsBound, LinkedTo
<1>5. Leg(Descriptor(order), intent.sizeRaw, LinkedTo(intent)) =
        [isLong |-> order["isLong"], isStopOrder |-> order["isStopOrder"], reduceOnly |-> TRUE,
         size |-> intent.sizeRaw, triggerPrice |-> order["triggerPrice"],
         linkedPositionId |-> LinkedTo(intent), acceptablePrice |-> Undefined,
         collateralAmount |-> 0]
  BY DEF Leg, Descriptor
<1>6. order = Leg(Descriptor(order), intent.sizeRaw, LinkedTo(intent))
  BY <1>3, <1>4, <1>5, Zenon
<1> QED
  BY <1>6 DEF order, intent

(* There are finitely many.                                               *)
LEMMA ConstructedIsFinite ==
    ASSUME Placing
    PROVE  IsFiniteSet(Constructed)
<1> DEFINE D == DOMAIN tx.commands
<1>1. tx.commands \in Seq({tx.commands[k] : k \in D})
  BY DEF Placing, IsFormed, AreCommands
<1>2. Len(tx.commands) \in Nat /\ D = 1 .. Len(tx.commands)
  BY <1>1
<1>3. IsFiniteSet(D)
  BY <1>2, FS_Interval
<1>4. IsFiniteSet(D \X D)
  BY <1>3, FS_Product
<1>5. Constructed \in SUBSET (D \X D)
  BY DEF Constructed, PlaceCalls, CallsOf, Calls
<1> QED
  BY <1>4, <1>5, FS_Subset

(* The legs the bytes place are exactly those asked for.                  *)
LEMMA LegsAreAsked ==
    ASSUME Placing
    PROVE  /\ IsFiniteSet(Legs) /\ Cardinality(Legs) = Len(AskedBracket)
           /\ Len(AskedBracket) \in Nat /\ DOMAIN AskedBracket = 1 .. Len(AskedBracket)
           /\ \E S : AskedBracket \in Seq(S)
           /\ \A p \in Legs : \E k \in DOMAIN AskedBracket :
                OrderAt(tx, p[2]) = AskedBracket[k]
           /\ \A k \in DOMAIN AskedBracket : \E p \in Legs :
                OrderAt(tx, p[2]) = AskedBracket[k]
<1> DEFINE intent == Plan(ask).intent
           b == intent.legs
           n == Len(b)
           d == [p \in Legs |-> Descriptor(OrderAt(tx, p[2]))]
           L(x) == Leg(x, intent.sizeRaw, LinkedTo(intent))
<1>1. PICK isLong : /\ b = BracketLegs(ask, isLong)
                    /\ AskedBracket = AskedLegs(isLong, intent.sizeRaw, LinkedTo(intent))
  BY BracketIs
<1>2. /\ n \in Nat /\ DOMAIN b = 1 .. n
      /\ Len(AskedBracket) = n /\ DOMAIN AskedBracket = 1 .. n
      /\ \E S : AskedBracket \in Seq(S)
      /\ \A k \in 1 .. n : AskedBracket[k] = L(b[k])
      /\ \A j, k \in 1 .. n : b[j] = b[k] => j = k
  BY <1>1, LegsAsked
<1>3. IsFiniteSet(Legs)
  <2>1. Legs \in SUBSET Constructed
    BY DEF Legs
  <2> QED
    BY <2>1, ConstructedIsFinite, FS_Subset
<1>4. LegsAreTheAuthorized(tx, Legs, b)
  BY OrdersAreVerified DEF OrdersAreRight, Legs, Constructed
<1>5. DOMAIN d = Legs /\ \A p \in Legs : d[p] = Descriptor(OrderAt(tx, p[2]))
  OBVIOUS
<1>6. \A p \in Legs : OrderAt(tx, p[2]) = L(d[p])
  BY <1>5, LegIsWhole
<1> HIDE DEF d, b
<1>7. Cardinality(Legs) = n
  BY <1>4 DEF LegsAreTheAuthorized
<1>8. ASSUME NEW l \in Legs
      PROVE  NoMoreThan(Legs, d, b, n, l)
  <2> DEFINE same == Descriptor(OrderAt(tx, l[2]))
  <2>1. Cardinality({m \in Legs : Descriptor(OrderAt(tx, m[2])) = same})
            <= Cardinality({k \in DOMAIN b : b[k] = same})
    BY <1>4 DEF LegsAreTheAuthorized
  <2>2. {m \in Legs : Descriptor(OrderAt(tx, m[2])) = same} = {m \in Legs : d[m] = d[l]}
    BY <1>5
  <2>3. {k \in DOMAIN b : b[k] = same} = {k \in 1 .. n : b[k] = d[l]}
    BY <1>2, <1>5
  <2> QED
    BY <2>1, <2>2, <2>3 DEF NoMoreThan
<1> HIDE DEF n, L
<1>9. /\ \A l \in Legs : \E k \in 1 .. n : d[l] = b[k]
      /\ \A k \in 1 .. n : \E l \in Legs : d[l] = b[k]
  <2>1. n \in Nat /\ DOMAIN b = 1 .. n /\ \A j, k \in 1 .. n : b[j] = b[k] => j = k
    BY <1>2
  <2>2. DOMAIN d = Legs /\ \A l \in Legs : NoMoreThan(Legs, d, b, n, l)
    BY <1>5, <1>8
  <2> QED
    BY <1>3, <1>7, <2>1, <2>2, Matching
<1>10. \A p \in Legs : \E k \in 1 .. n : OrderAt(tx, p[2]) = AskedBracket[k]
  BY <1>2, <1>6, <1>9
<1>11. \A k \in 1 .. n : \E p \in Legs : OrderAt(tx, p[2]) = AskedBracket[k]
  BY <1>2, <1>6, <1>9
<1> QED
  BY <1>2, <1>3, <1>7, <1>10, <1>11

(* The main orders: one if it was asked, or none.                         *)
LEMMA MainsAreAsked ==
    ASSUME Placing
    PROVE  /\ IsFiniteSet(Constructed \ Legs)
           /\ Cardinality(Constructed \ Legs) =
                (IF ask.op \in {"open", "limit"} /\ ~OnlyReduces THEN 1 ELSE 0)
<1> DEFINE intent == Plan(ask).intent
<1>1. IsAsk(ask) /\ ask.op \in {"open", "limit", "placeTpSl"}
  BY DEF Placing
<1>2. Cardinality(Constructed \ Legs) =
        (IF intent.reduceOnly = TRUE THEN 0 ELSE Cardinality(PlaceCalls))
  BY OrdersAreVerified DEF OrdersAreRight, Legs, Constructed
<1>3. intent.reduceOnly = TRUE <=> OnlyReduces \/ ask.op = "placeTpSl"
  BY <1>1, OnlyReducesSays
<1>4. ask.op # "placeTpSl" => Cardinality(PlaceCalls) = 1
  BY OrdersAreVerified
<1>5. IsFiniteSet(Constructed \ Legs)
  BY ConstructedIsFinite, FS_Difference
<1> QED
  BY <1>1, <1>2, <1>3, <1>4, <1>5

(* Two sequences joined, and an entry put before a sequence.              *)
LEMMA Lengths ==
    ASSUME NEW S, NEW s \in Seq(S), NEW t \in Seq(S)
    PROVE  /\ s \o t \in Seq(S) /\ Len(s \o t) = Len(s) + Len(t)
           /\ Len(s) \in Nat /\ Len(t) \in Nat
           /\ \A k \in 1 .. Len(s) + Len(t) :
                (s \o t)[k] = IF k <= Len(s) THEN s[k] ELSE t[k - Len(s)]
  OBVIOUS

LEMMA EntryFirst ==
    ASSUME NEW S, NEW b \in Seq(S), NEW e
    PROVE  LET r == <<e>> \o b
           IN /\ Len(r) = Len(b) + 1 /\ DOMAIN r = 1 .. Len(b) + 1 /\ r[1] = e
              /\ \A k \in 1 .. Len(b) : r[k + 1] = b[k]
<1> DEFINE T == S \cup {e}
           s == <<e>>
<1>1. s \in Seq(T) /\ Len(s) = 1 /\ s[1] = e /\ b \in Seq(T)
  OBVIOUS
<1> HIDE DEF s, T
<1>2. /\ Len(s \o b) = Len(b) + 1 /\ DOMAIN (s \o b) = 1 .. Len(b) + 1
      /\ (s \o b)[1] = e /\ \A k \in 1 .. Len(b) : (s \o b)[k + 1] = b[k]
  <2>1. s \o b \in Seq(T) /\ Len(s \o b) = Len(b) + 1 /\ Len(b) \in Nat
    BY <1>1, Lengths
  <2>2. \A k \in 1 .. Len(s) + Len(b) :
            (s \o b)[k] = IF k <= Len(s) THEN s[k] ELSE b[k - Len(s)]
    BY <1>1, Lengths
  <2>3. DOMAIN (s \o b) = 1 .. Len(b) + 1
    BY <2>1
  <2>4. (s \o b)[1] = e
    BY <1>1, <2>1, <2>2
  <2>5. ASSUME NEW k \in 1 .. Len(b)
        PROVE  (s \o b)[k + 1] = b[k]
    <3>1. k + 1 \in 1 .. Len(s) + Len(b) /\ ~(k + 1 <= Len(s)) /\ (k + 1) - Len(s) = k
      BY <1>1, <2>1
    <3> QED
      BY <2>2, <3>1
  <2> QED
    BY <2>1, <2>3, <2>4, <2>5
<1> QED
  BY <1>2 DEF s

LEMMA VerifiedOrdersAreMeant ==
    ASSUME Placing
    PROVE  OrdersAreMeant
<1> DEFINE b == AskedBracket
           n == Len(b)
           mains == Constructed \ Legs
           wanted == ask.op \in {"open", "limit"} /\ ~OnlyReduces
           o(p) == OrderAt(tx, p[2])
<1>1. /\ IsFiniteSet(Legs) /\ Cardinality(Legs) = n /\ n \in Nat /\ DOMAIN b = 1 .. n
      /\ \A p \in Legs : \E k \in 1 .. n : o(p) = b[k]
      /\ \A k \in 1 .. n : \E p \in Legs : o(p) = b[k]
  BY LegsAreAsked
<1>2. PICK S : b \in Seq(S)
  BY LegsAreAsked
<1>3. IsFiniteSet(mains) /\ Cardinality(mains) = (IF wanted THEN 1 ELSE 0)
  BY MainsAreAsked
<1>4. \A p \in mains : o(p) = AskedEntry
  BY MainIsTheEntry
<1>5. Constructed = mains \cup Legs /\ mains \cap Legs = {}
  BY DEF Legs
<1>6. PlacedOrders = Constructed /\ SignedOrders = {o(p) : p \in Constructed}
  BY PlacedAre, SignedOrdersAre
<1>7. AskedOrders = (IF wanted THEN <<AskedEntry>> ELSE <<>>) \o b
  BY DEF AskedOrders
<1> HIDE DEF b, mains, wanted, o
<1>8. Cardinality(Constructed) = Cardinality(mains) + n
  <2>1. Cardinality(mains \cup Legs) =
            Cardinality(mains) + Cardinality(Legs) - Cardinality(mains \cap Legs)
    BY <1>1, <1>3, FS_Union
  <2>2. Cardinality(mains \cap Legs) = 0
    BY <1>5, FS_EmptySet
  <2>3. Cardinality(mains) \in Nat
    BY <1>3
  <2> QED
    BY <1>1, <1>5, <2>1, <2>2, <2>3
<1>9. CASE wanted
  <2> DEFINE r == <<AskedEntry>> \o b
  <2>1. /\ AskedOrders = r /\ Len(r) = n + 1 /\ DOMAIN r = 1 .. n + 1 /\ r[1] = AskedEntry
        /\ \A k \in 1 .. n : r[k + 1] = b[k]
    BY <1>2, <1>7, <1>9, EntryFirst
  <2> HIDE DEF r
  <2>2. PICK main \in mains : TRUE
    <3>1. Cardinality(mains) # 0
      BY <1>3, <1>9
    <3> QED
      BY <3>1, FS_EmptySet
  <2>3. ASSUME NEW p \in Constructed
        PROVE  \E k \in 1 .. n + 1 : o(p) = r[k]
    <3>1. CASE p \in mains
      BY <1>1, <1>4, <2>1, <3>1
    <3>2. CASE p \in Legs
      <4>1. PICK k \in 1 .. n : o(p) = b[k]
        BY <1>1, <3>2
      <4>2. k + 1 \in 1 .. n + 1 /\ o(p) = r[k + 1]
        BY <1>1, <2>1, <4>1
      <4> QED
        BY <4>2
    <3> QED
      BY <1>5, <3>1, <3>2
  <2>4. ASSUME NEW k \in 1 .. n + 1
        PROVE  \E p \in Constructed : o(p) = r[k]
    <3>1. CASE k = 1
      BY <1>4, <1>5, <2>1, <2>2, <3>1
    <3>2. CASE k # 1
      <4>1. k - 1 \in 1 .. n /\ r[k] = b[k - 1]
        BY <1>1, <2>1, <3>2
      <4> QED
        BY <1>1, <1>5, <4>1
    <3> QED
      BY <3>1, <3>2
  <2>5. SignedOrders = {AskedOrders[k] : k \in DOMAIN AskedOrders}
    BY <1>6, <2>1, <2>3, <2>4
  <2>6. Cardinality(PlacedOrders) = Len(AskedOrders)
    BY <1>1, <1>3, <1>6, <1>8, <1>9, <2>1
  <2> QED
    BY <2>5, <2>6 DEF OrdersAreMeant
<1>10. CASE ~wanted
  <2>1. AskedOrders = b
    BY <1>2, <1>7, <1>10
  <2>2. Constructed = Legs
    <3>1. Cardinality(mains) = 0
      BY <1>3, <1>10
    <3>2. mains = {}
      BY <1>3, <3>1, FS_EmptySet
    <3> QED
      BY <1>5, <3>2
  <2>3. SignedOrders = {AskedOrders[k] : k \in DOMAIN AskedOrders}
    BY <1>1, <1>6, <2>1, <2>2
  <2>4. Cardinality(PlacedOrders) = Len(AskedOrders)
    BY <1>1, <1>6, <2>1, <2>2
  <2> QED
    BY <2>3, <2>4 DEF OrdersAreMeant
<1> QED
  BY <1>9, <1>10

-----------------------------------------------------------------------------
(* The invariant says that what is signed was verified, and of what form   *)
(* the bytes of an order are; and then they are what was asked.            *)
LEMMA SoundIsMeant ==
    ASSUME Sound, OrderIsFormed
    PROVE  SignedIsMeant
<1> SUFFICES ASSUME verdict = "signed"
             PROVE  /\ EnvelopeIsMeant /\ OperationsAreMeant /\ OrdersAreMeant
                    /\ AuthorityIsMeant /\ FundsAreMeant
  BY DEF SignedIsMeant
<1>1. /\ IsAsk(ask) /\ CanPlan(ask, context.signer # OwnerAddress) /\ Verified
      /\ context \in Contexts /\ IsMarket(market)
  BY MarketAssumption DEF Sound, KnownIsBuilt, AskedIsPlanned, SignedIsVerified
<1>2. OrdersAreMeant
  <2>1. CASE ask.op \in {"open", "limit", "placeTpSl"}
    <3>1. Placing
      BY <1>1, <2>1 DEF Placing, OrderIsFormed
    <3> QED
      BY <3>1, VerifiedOrdersAreMeant
  <2>2. CASE ask.op \notin {"open", "limit", "placeTpSl"}
    BY <1>1, <2>2, NothingIsPlaced
  <2> QED
    BY <2>1, <2>2
<1> QED
  BY <1>1, <1>2, VerifiedEnvelopeIsMeant, VerifiedIsMeant, VerifiedAuthorityIsMeant,
     VerifiedFundsAreMeant

(* WHAT IS SIGNED IS WHAT WAS ASKED: for every request, queued or not,      *)
(* every answer of the backend and every composition of it, any number of  *)
(* changes to the bytes, and whatever the signer knows.                    *)
THEOREM SignedIsWhatWasMeant == Spec => []SignedIsMeant
<1>1. Init => Sound /\ OrderIsFormed
  <2>1. Init => OrderIsFormed
    BY DEF Init, OrderIsFormed
  <2> QED
    BY <2>1, InitIsSound
<1>2. Sound /\ OrderIsFormed /\ [Next]_vars => (Sound /\ OrderIsFormed)'
  BY NextIsSound, NextKeepsForm
<1>3. Sound /\ OrderIsFormed => SignedIsMeant
  BY SoundIsMeant
<1> QED
  BY <1>1, <1>2, <1>3, PTL DEF Spec

=============================================================================
