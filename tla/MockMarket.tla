------------------------------- MODULE MockMarket -------------------------------
(***************************************************************************)
(* mockMarketService: the stand-in for the services behind the screens of  *)
(* the mobile client, which has the methods of marketService and answers   *)
(* every one of them, after a while, from what it carries along.  No       *)
(* screen is wired to it at present.  Prices are whole numbers of cents.   *)
(***************************************************************************)
EXTENDS MobileMarket

Mocked(id, symbol, price) ==
    [id |-> id, symbol |-> symbol, currentPrice |-> price,
     highestBid |-> price - 5, lowestAsk |-> price + 5]

MockStocks ==
    <<Mocked("1", "AAPL", 17850), Mocked("2", "GOOGL", 14120), Mocked("3", "MSFT", 37890),
      Mocked("4", "AMZN", 17825), Mocked("5", "TSLA", 24850)>>

Known(id) == {n \in DOMAIN MockStocks : MockStocks[n].id = id}

(* getStockById: for an unknown id the first stock.                        *)
MockStockById(id) == MockStocks[IF Known(id) = {} THEN 1 ELSE CHOOSE n \in Known(id) : TRUE]

(* getOrderBook: for an unknown id around 100.00.                          *)
MockOrderBook(id) ==
    LET base == IF Known(id) = {} THEN 10000 ELSE MockStockById(id).currentPrice
        Side(sign) == <<[price |-> base + sign * 5, amount |-> 100],
                        [price |-> base + sign * 10, amount |-> 200],
                        [price |-> base + sign * 15, amount |-> 150]>>
    IN  [bids |-> Side(-1), asks |-> Side(1)]

(* createOrder: nothing is kept, the orders of getUserOrders stay as they  *)
(* are.                                                                    *)
MockOrder(form, id) ==
    [id |-> id, stockId |-> form.stockId,
     stockSymbol |-> IF Known(form.stockId) = {} THEN "UNKNOWN" ELSE MockStockById(form.stockId).symbol,
     type |-> form.type, orderType |-> form.orderType, price |-> form.price,
     amount |-> form.amount, status |-> "pending"]

(* generatePriceHistory, in hours before now.                              *)
Points(period) == CASE period = "1w" -> 7 [] period = "1m" -> 30 [] period = "1y" -> 12 [] OTHER -> 24
Interval(period) == CASE period \in {"1w", "1m"} -> 24 [] period = "1y" -> 30 * 24 [] OTHER -> 1

Generated(base, period, now, noise) ==
    [n \in 1..Points(period) + 1 |->
        [timestamp |-> now - (Points(period) + 1 - n) * Interval(period), price |-> base + noise[n]]]

(* getPriceHistory: loadCandleData falls back by itself when the file      *)
(* cannot be read, on a day around 100.00 for any stock and any period.    *)
MockHistory(id, period, now, noise, file) ==
    IF Known(id) = {} THEN Generated(10000, period, now, noise)
    ELSE IF file = None THEN Generated(10000, "1d", now, noise)
    ELSE [n \in DOMAIN file |-> PriceHistoryOf(file[n])]

=============================================================================
