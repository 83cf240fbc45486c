\* One order, two cancel requests, every kind of fault once.
SPECIFICATION Spec
CONSTANTS
    buy = buy
    sell = sell
    empty = empty
    Orders = {buy, empty}
    Cancels = {c1, c2}
    Side <- MCSide
    Qty <- MCQty
    Quotes <- MCQuotes
    Holdings <- MCHoldings
    Pending = Pending
    Failed = Failed
    NoTrade = NoTrade
    MaxFaults <- AllFaults
INVARIANTS
    TypeOK
    OneOutcome
    AnnouncedTradesAreStored
    FilledPrecedesTrade
    OrphansComeFromFaults
PROPERTIES
    SettledForever
    ImplementsTradeBook
    RequestsAnswered
    TradesReachTopic
CHECK_DEADLOCK FALSE
