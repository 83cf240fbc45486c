------------------------------ MODULE MobileMarket ------------------------------
(***************************************************************************)
(* What the services answer to the mobile client, what its screens show of *)
(* it, and the valuation of a portfolio in between: portfolio-service      *)
(* rounds every figure before it adds them up, the client adds the rounded *)
(* ones.                                                                   *)
(*                                                                         *)
(* On the wire prices and money are strings with two digits after the      *)
(* point, here whole numbers of cents.  Inside portfolio-service a decimal *)
(* is a whole number of hundredths of a cent.                              *)
(***************************************************************************)
EXTENDS Integers, Sequences, SequencesExt

CONSTANTS
    Stocks,   \* symbols
    Ids,      \* of orders and trades
    None

-----------------------------------------------------------------------------
(* Answers                                                                 *)

Sides == {"BUY", "SELL"}
OrderTypes == {"MARKET"}
Statuses == {"NEW", "ACCEPTED", "FILLED", "CANCELLED", "REJECTED"}

Instrument == [symbol : Stocks, name : STRING]
Quote == [symbol : Stocks, bid : Nat, ask : Nat, last : Nat]
OrderBookLevel == [price : Nat, quantity : Nat]
OrderBookResponse == [symbol : Stocks, bids : Seq(OrderBookLevel), asks : Seq(OrderBookLevel)]
Candle == [timestamp : Nat, open : Nat, high : Nat, low : Nat, close : Nat, volume : Nat]

CreateOrderRequest == [symbol : Stocks, side : Sides, type : OrderTypes, quantity : Nat \ {0}]
OrderResponse ==
    [id : Ids, symbol : Stocks, side : Sides, type : OrderTypes, quantity : Nat \ {0},
     avgFillPrice : Nat \cup {None}, status : Statuses]
TradeResponse ==
    [id : Ids, orderId : Ids, symbol : Stocks, side : Sides, quantity : Nat, price : Nat]

PositionResponse ==
    [symbol : Stocks, quantity : Nat, avgPrice : Nat, currentPrice : Nat, marketValue : Nat,
     realizedPnl : Int, unrealizedPnl : Int, totalPnl : Int]
PortfolioResponse ==
    [cashBalance : Int, totalMarketValue : Nat, totalEquity : Int,
     unrealizedPnl : Int, realizedPnl : Int, positions : Seq(PositionResponse)]

-----------------------------------------------------------------------------
(* What the screens show                                                   *)

Stock == [symbol : Stocks, currentPrice : Nat, highestBid : Nat, lowestAsk : Nat]
PriceHistory == [timestamp : Nat, price : Nat, volume : Nat]
Level == [price : Nat, amount : Nat]
OrderBook == [bids : Seq(Level), asks : Seq(Level)]
Order ==
    [id : Ids, stockId : Stocks, type : {"buy", "sell"}, orderType : {"market", "limit"},
     price : Nat \cup {None}, amount : Nat \ {0},
     status : {"pending", "filled", "cancelled", "rejected"}]
Trade ==
    [id : Ids, stockId : Stocks, type : {"buy", "sell"}, price : Nat, amount : Nat, total : Nat]
Holding ==
    [stockId : Stocks, amount : Nat, averagePrice : Nat, currentPrice : Nat,
     totalValue : Nat, pnl : Int]
Portfolio == [cash : Int, totalValue : Nat, pnl : Int, holdings : Seq(Holding)]

-----------------------------------------------------------------------------
(* Conversions                                                             *)

(* The change over 24 hours is made up, and left out here.                 *)
StockOfInstrument(i) ==
    [symbol |-> i.symbol, currentPrice |-> 0, highestBid |-> 0, lowestAsk |-> 0]
StockOfQuote(q) ==
    [symbol |-> q.symbol, currentPrice |-> q.last, highestBid |-> q.bid, lowestAsk |-> q.ask]

(* getStocks: two answers read one after the other.  Of several quotes of  *)
(* one symbol the map keeps the last; without one the price is shown as 0. *)
StocksOf(instruments, quotes) ==
    [n \in DOMAIN instruments |->
        LET of == {m \in DOMAIN quotes : quotes[m].symbol = instruments[n].symbol}
        IN  IF of = {} THEN StockOfInstrument(instruments[n])
            ELSE StockOfQuote(quotes[CHOOSE m \in of : \A k \in of : k <= m])]

PriceHistoryOf(c) == [timestamp |-> c.timestamp, price |-> c.close, volume |-> c.volume]

LevelOf(l) == [price |-> l.price, amount |-> l.quantity]
OrderBookOf(r) ==
    [bids |-> [n \in DOMAIN r.bids |-> LevelOf(r.bids[n])],
     asks |-> [n \in DOMAIN r.asks |-> LevelOf(r.asks[n])]]

TypeOf(side) == IF side = "BUY" THEN "buy" ELSE "sell"

StatusShown(status) == CASE status = "FILLED" -> "filled"
                         [] status = "CANCELLED" -> "cancelled"
                         [] status = "REJECTED" -> "rejected"
                         [] OTHER -> "pending"

(* A price of 0.00 is a string that is not empty: it is shown.             *)
OrderOf(o) ==
    [id |-> o.id, stockId |-> o.symbol, type |-> TypeOf(o.side),
     orderType |-> IF o.type = "MARKET" THEN "market" ELSE "limit",
     price |-> o.avgFillPrice, amount |-> o.quantity, status |-> StatusShown(o.status)]

TradeOf(t) ==
    [id |-> t.id, stockId |-> t.symbol, type |-> TypeOf(t.side), price |-> t.price,
     amount |-> t.quantity, total |-> t.price * t.quantity]

(* The percentages, which no screen shows, are left out.                   *)
HoldingOf(p) ==
    [stockId |-> p.symbol, amount |-> p.quantity, averagePrice |-> p.avgPrice,
     currentPrice |-> p.currentPrice, totalValue |-> p.marketValue, pnl |-> p.totalPnl]

PortfolioOf(p) ==
    [cash |-> p.cashBalance, totalValue |-> p.totalMarketValue,
     pnl |-> p.unrealizedPnl + p.realizedPnl,
     holdings |-> [n \in DOMAIN p.positions |-> HoldingOf(p.positions[n])]]

(* What the order form says the order will cost: the price is that of the  *)
(* list when the stock was selected.                                       *)
EstimatedTotal(amount, stock) == amount * stock.currentPrice

(* createOrder, with the type, always "market", and side in capitals.      *)
RequestOf(data) ==
    [symbol |-> data.stockId, side |-> IF data.type = "buy" THEN "BUY" ELSE "SELL",
     type |-> "MARKET", quantity |-> data.amount]

-----------------------------------------------------------------------------
(* portfolio-service: the valuation                                        *)

(* StringFixed(2): halves are rounded away from zero.                      *)
Fixed(d) == IF d >= 0 THEN (d + 50) \div 100 ELSE -((50 - d) \div 100)

(* buildPositionResponse: without a price the average is taken for it.     *)
Valued(p, price) ==
    LET current == IF price = None THEN p.avgPrice ELSE price
        gain == (current - p.avgPrice) * p.quantity
    IN  [symbol |-> p.symbol, quantity |-> p.quantity,
         avgPrice |-> Fixed(p.avgPrice), currentPrice |-> Fixed(current),
         marketValue |-> Fixed(current * p.quantity),
         realizedPnl |-> Fixed(p.realizedPnl), unrealizedPnl |-> Fixed(gain),
         totalPnl |-> Fixed(p.realizedPnl + gain)]

Total(figures) == FoldLeft(+, 0, figures)

Figures(rows, name) == [n \in DOMAIN rows |-> rows[n][name]]

(* GetPortfolio: totals of what the positions were answered with.          *)
PortfolioAnswer(cash, rows) ==
    LET value == Total(Figures(rows, "marketValue"))
    IN  [cashBalance |-> Fixed(cash), totalMarketValue |-> value,
         totalEquity |-> Fixed(cash + 100 * value),
         unrealizedPnl |-> Total(Figures(rows, "unrealizedPnl")),
         realizedPnl |-> Total(Figures(rows, "realizedPnl")),
         positions |-> rows]

=============================================================================
