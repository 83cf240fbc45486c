\* Two concurrent deposits lose one of the amounts.
SPECIFICATION Spec
CONSTANTS
    alice = alice
    bob = bob
    buy = buy
    sell = sell
    d1 = d1
    d2 = d2
    w1 = w1
    g1 = g1
    Users = {alice, bob}
    Symbols = {"TRMP"}
    Orders = {buy}
    Clients = {d1, d2}
    Consumer = Consumer
    Owner <- MCOwner
    Symbol <- MCSymbol
    Side <- MCSide
    Qty <- MCQty
    Kind <- MCKind
    Account <- MCAccount
    Amount <- MCAmount
    Events <- NoEvents
    Absent = Absent
    MaxMessages = 0
    MaxFaults <- NoFaults
INVARIANT DepositsAddUp
CHECK_DEADLOCK FALSE
