\* A cancel request and a create request overwrite each other's outcome.
SPECIFICATION Spec
CONSTANTS
    buy = buy
    sell = sell
    empty = empty
    Orders = {buy}
    Cancels = {c1}
    Side <- MCSide
    Qty <- MCQty
    Quotes <- MCQuotes
    Holdings <- MCHoldings
    Pending = Pending
    Failed = Failed
    NoTrade = NoTrade
    MaxFaults <- NoFaults
PROPERTY StatusFollowsDiagram
CHECK_DEADLOCK FALSE
