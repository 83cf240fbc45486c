\* A trade is read, its offset committed, and the process dies.
SPECIFICATION Spec
CONSTANTS
    alice = alice
    bob = bob
    buy = buy
    sell = sell
    d1 = d1
    d2 = d2
    w1 = w1
    g1 = g1
    Users = {alice, bob}
    Symbols = {"TRMP"}
    Orders = {buy}
    Clients = {}
    Consumer = Consumer
    Owner <- MCOwner
    Symbol <- MCSymbol
    Side <- MCSide
    Qty <- MCQty
    Kind <- MCKind
    Account <- MCAccount
    Amount <- MCAmount
    Events <- TradeEvents
    Absent = Absent
    MaxMessages = 1
    MaxFaults <- OneCrash
INVARIANT DeliveredAtLeastOnce
CHECK_DEADLOCK FALSE
