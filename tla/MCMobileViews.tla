----------------------------- MODULE MCMobileViews -----------------------------
(***************************************************************************)
(* An instance of MobileViews for TLC: a phone of 360 points.  The time    *)
(* frames are the shortest and the longest of the five and the one that is *)
(* opened first.  The assumptions below compare the operators of           *)
(* MobileCharts and MobileMarket with what they should give.               *)
(***************************************************************************)
EXTENDS MobileViews, MockMarket

MCLength == [tf \in Timeframes |-> CASE tf = "1h" -> 30 [] tf = "1d" -> 50 [] tf = "1m" -> 70]

(* A request times out after 30 seconds, which is three periods of         *)
(* portfolio and history and more of the others.  With one period two      *)
(* loads overlap, with two three do.                                       *)
MCDuration == [v \in Components |-> IF v = "orderbook" THEN 2 ELSE 1]

MCDrags == {-100, 100}
MCTouches == {300}

-----------------------------------------------------------------------------
(* ModalChart draws a candle above the volumes if it opens and closes      *)
(* between its low and high (priceToY, bodyTop).  Candles of the service   *)
(* do; the made-up ones it shows at present may close beyond them.         *)
ASSUME BodiesInside ==
    \A low, high \in 0..4, open, close \in 0..4, h \in {60, 297} :
        low < high /\ {open, close} \subseteq low..high =>
            LET body == BodyOf(open, close, ModalAxis(low, high), h)
            IN  body.top >= TopPadding /\ body.top + body.height <= h

(* The labels of PriceChart stand at the prices they name: a candle of     *)
(* that price would be drawn there.                                        *)
ASSUME LabelsFit ==
    \A low, high \in 0..6, i \in 0..6 : low < high =>
        LET axis == PlotAxis(low, high)
            there == PriceToY(LabelOf(i, axis).price, axis, 0, PlotHeight)
        IN  there - LineY(i) \in -1..1

-----------------------------------------------------------------------------
Quotes == [symbol : Stocks, bid : {1}, ask : {3}, last : 1..2]

(* The list has every instrument once, in the order of the first answer,   *)
(* with its latest price if the second answer has one (getStocks).         *)
ASSUME StocksInOrder ==
    \A quotes \in UNION {[1..n -> Quotes] : n \in 0..3} :
        \A instruments \in SetToSeqs({[symbol |-> s, name |-> "name"] : s \in Stocks}) :
            LET shown == StocksOf(instruments, quotes)
            IN  \A n \in DOMAIN instruments :
                   /\ shown[n] \in Stock /\ shown[n].symbol = instruments[n].symbol
                   /\ \A m \in DOMAIN quotes :
                         quotes[m].symbol = shown[n].symbol =>
                             \E k \in m..Len(quotes) : shown[n] = StockOfQuote(quotes[k])

(* The history shows an order as the form has sent it (createOrder,        *)
(* convertOrderToOrder), and offers to cancel it in the states in which    *)
(* trading-service has not settled it.                                     *)
ASSUME OrdersAreShownAsAsked ==
    \A form \in [stockId : Stocks, type : {"buy", "sell"}, amount : 1..2],
       id \in Ids, price \in {None, 0, 1}, status \in Statuses :
        LET r == RequestOf(form)
            o == [id |-> id, symbol |-> r.symbol, side |-> r.side, type |-> r.type,
                  quantity |-> r.quantity, avgFillPrice |-> price, status |-> status]
        IN  /\ r \in CreateOrderRequest /\ o \in OrderResponse /\ OrderOf(o) \in Order
            /\ [f \in DOMAIN form |-> OrderOf(o)[f]] = form
            /\ OrderOf(o).orderType = "market"
            /\ OrderOf(o).status = "pending" <=> status \notin {"FILLED", "CANCELLED", "REJECTED"}

(* The summary of the portfolio fits the positions below it: the values    *)
(* add up, and the profit differs from theirs by a cent per position at    *)
(* most (buildPositionResponse rounds each figure on its own).             *)
ASSUME PortfolioAddsUp ==
    LET rows == {Valued([symbol |-> s, quantity |-> q, avgPrice |-> 149, realizedPnl |-> r], p) :
                    s \in Stocks, q \in {0, 1, 3}, r \in {-151, -50, 0, 49}, p \in {None, 50, 200}}
    IN  \A a, b \in rows, cash \in {-150, 0, 10050} :
            LET answer == PortfolioAnswer(cash, <<a, b>>)
                shown == PortfolioOf(answer)
            IN  /\ answer.totalEquity - shown.totalValue - shown.cash \in {-1, 0, 1}
                /\ shown.totalValue = Total(Figures(shown.holdings, "totalValue"))
                /\ shown.pnl - Total(Figures(shown.holdings, "pnl")) \in -2..2

-----------------------------------------------------------------------------
(* The stand-in answers getStocks, getStockById and getOrderBook with the  *)
(* same prices, and an order as it was asked for.                          *)
ASSUME MockAgreesWithItself ==
    \A n \in DOMAIN MockStocks :
        LET stock == MockStocks[n]
            book == MockOrderBook(stock.id)
            form == [stockId |-> stock.id, type |-> "buy", orderType |-> "market",
                     amount |-> 1, price |-> None]
        IN  /\ MockStockById(stock.id) = stock
            /\ book \in OrderBook
            /\ book.bids[1].price = stock.highestBid /\ book.asks[1].price = stock.lowestAsk
            /\ \A k \in 1..2 : /\ book.bids[k].price > book.bids[k + 1].price
                              /\ book.asks[k].price < book.asks[k + 1].price
            /\ MockOrder(form, "id").stockSymbol = stock.symbol
            /\ [f \in DOMAIN form |-> MockOrder(form, "id")[f]] = form

(* A history goes forward in time and ends now (generatePriceHistory).     *)
ASSUME MockHistoryGoesForward ==
    \A id \in {"1", "none"}, period \in {"1d", "1w", "1m", "1y"} :
        LET h == MockHistory(id, period, 10000, [n \in 1..31 |-> 0], None)
        IN  /\ \A n \in 1..Len(h) - 1 : h[n].timestamp < h[n + 1].timestamp
            /\ h[Len(h)].timestamp = 10000

=============================================================================
