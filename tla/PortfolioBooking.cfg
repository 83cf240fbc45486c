\* Trades of an account whose owner also moves cash, next to a reader of another
\* account, every kind of fault once.
SPECIFICATION Spec
CONSTANTS
    alice = alice
    bob = bob
    buy = buy
    sell = sell
    d1 = d1
    d2 = d2
    w1 = w1
    g1 = g1
    Users = {alice, bob}
    Symbols = {"TRMP"}
    Orders = {buy, sell}
    Clients = {d1, w1, g1}
    Consumer = Consumer
    Owner <- MCOwner
    Symbol <- MCSymbol
    Side <- MCSide
    Qty <- MCQty
    Kind <- MCKind
    Account <- MCAccount
    Amount <- MCAmount
    Events <- BuyEvents
    Absent = Absent
    MaxMessages = 2
    MaxFaults <- AllFaults
INVARIANTS
    TypeOK
    HandledAtMostOnce
    BookedOnceInOrder
    OnlyPurchasesOverdraw
PROPERTIES
    MoneyMovesForAReason
    TopicIsDrained
    LedgerUnlessStale
CHECK_DEADLOCK FALSE
