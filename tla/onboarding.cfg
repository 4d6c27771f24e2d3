CONSTANTS
    Undefined = Undefined
    Accounts = {"first", "second"}
    Owner <- OfEach
    ConfiguredOwner = Undefined
    FlagsStale = TRUE
    Looks = 2
    MaxChanges = 1
    MaxOutages = 1
    MaxPlans = 1
SPECIFICATION FairSpec
PROPERTIES AdoptedWasLive NeverChooses NobodyMeansNobody TradeComesLast HandshakeCompletes
