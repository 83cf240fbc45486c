--------------------------- MODULE MCTradingSystem ---------------------------
(***************************************************************************)
(* Instances of TradingSystem for TLC: one user, two purchases of two      *)
(* shares and one sale of a share, a deposit that pays for one purchase.   *)
(***************************************************************************)
EXTENDS TradingSystem, TLC

CONSTANTS alice, buy, buy2, sell, d1, w1

MCOwner  == [o \in Orders |-> alice]
MCSymbol == [o \in Orders |-> "TRMP"]
MCSide   == [o \in Orders |-> IF o = sell THEN "SELL" ELSE "BUY"]
MCQty    == [o \in Orders |-> IF o = sell THEN 1 ELSE 2]
MCQuotes == {[price |-> 3, volume |-> 2]}
MCBalances == -12..12

MCTransfer == [c \in Transfers |->
                  [kind    |-> IF c = w1 THEN "withdraw" ELSE "deposit",
                   account |-> alice,
                   amount  |-> IF c = w1 THEN 1 ELSE 6]]

OneOfEachTradingFault ==
    [k \in {"upstream", "db", "lost", "dup", "crash", "shutdown"} |-> 1]
OneOfEachPortfolioFault == [k \in {"db", "commit", "crash"} |-> 1]

=============================================================================
