CONSTANTS
    Undefined = Undefined
    NaN = NaN
    Unreadable = Unreadable
    AccountId = "acc"
    OwnerAddress = "owner"
    Sponsor = "sponsor"
    Stranger = "stranger"
    DefaultSlippage = 2
    PermAllTrading = {"open", "close"}
    Markets <- TheMarkets
    Asks <- TheAsks
    Queued <- TheQueue
    Delegates <- AllDelegates
    Contexts <- TheContexts
SPECIFICATION Spec
CHECK_DEADLOCK FALSE
INVARIANTS SignedIsMeant SignedIsWithinScope ComposedIsSigned QueueAgreesWithGate PlacedIsRetractable
