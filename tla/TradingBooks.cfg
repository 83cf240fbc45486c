\* A purchase, a sale of what was bought, a cancel request and at most one fault.
SPECIFICATION Spec
CONSTANTS
    alice = alice
    buy = buy
    buy2 = buy2
    sell = sell
    d1 = d1
    w1 = w1
    Users = {alice}
    Symbols = {"TRMP"}
    Orders = {buy, sell}
    Cancels = {c1}
    Transfers = {d1}
    Owner <- MCOwner
    Symbol <- MCSymbol
    Side <- MCSide
    Qty <- MCQty
    Transfer <- MCTransfer
    Quotes <- MCQuotes
    Balances <- MCBalances
    Consumer = Consumer
    Pending = Pending
    Failed = Failed
    NoTrade = NoTrade
    Absent = Absent
    MaxMessages = 8
    MaxTradingFaults <- OneOfEachTradingFault
    MaxPortfolioFaults <- OneOfEachPortfolioFault
    MaxFaults = 1
INVARIANTS
    BookedTradesAreStored
    BookingFindsItsRows
PROPERTIES
    TradesAreBooked
    AnnouncedTradesAreBooked
CHECK_DEADLOCK FALSE
