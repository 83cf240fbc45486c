------------------------- MODULE MCPortfolioService -------------------------
(***************************************************************************)
(* Instances of PortfolioService for TLC: one purchase and one sale, and   *)
(* clients whose requests are chosen in each .cfg.                         *)
(***************************************************************************)
EXTENDS PortfolioService, TLC

CONSTANTS alice, bob, buy, sell, d1, d2, w1, g1

MCOwner  == [o \in Orders |-> alice]
MCSymbol == [o \in Orders |-> "TRMP"]
MCSide   == [o \in Orders |-> IF o = sell THEN "SELL" ELSE "BUY"]
MCQty    == [o \in Orders |-> IF o = sell THEN 3 ELSE 2]
MCGross  == [o \in Orders |-> IF o = sell THEN 5 ELSE 4]

MCKind == [c \in Clients |-> CASE c \in {d1, d2} -> "deposit"
                               [] c = w1 -> "withdraw"
                               [] c = g1 -> "get"]
MCAmount == [c \in Clients |-> CASE c = d1 -> 5 [] c = d2 -> 3 [] c = w1 -> 4
                                 [] c = g1 -> 0]

(* Every client but the reader asks about the trader's account.            *)
MCAccount == [c \in Clients |-> IF c = g1 THEN bob ELSE alice]

EventsOf(type) == {[type |-> type, order |-> o, gross |-> MCGross[o]] : o \in Orders}
NoEvents    == {}
TradeEvents == EventsOf("TRADE_EXECUTED")
BuyEvents   == TradeEvents \cup {e \in EventsOf("ORDER_FILLED") : e.order = buy}

NoFaults  == [k \in FaultKinds |-> 0]
AllFaults == [k \in FaultKinds |-> 1]
OneCrash  == [NoFaults EXCEPT !["crash"] = 1]

=============================================================================
