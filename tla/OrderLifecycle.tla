--------------------------- MODULE OrderLifecycle ---------------------------
(***************************************************************************)
(* The order path of trading-service: OrderService.CreateOrder and         *)
(* CancelOrder running concurrently over the orders table, with the        *)
(* publish goroutines they leave behind and the trading-events topic.      *)
(*                                                                         *)
(* Every HTTP request is a process.  A create request is identified with   *)
(* the order it creates (the id is a fresh UUID); a cancel request names   *)
(* the order of its URL.  A statement on the orders table is one step: the *)
(* repository opens no transaction, so other requests run between the      *)
(* statements of one request.                                              *)
(***************************************************************************)
EXTENDS Integers, Sequences, FiniteSets

CONSTANTS
    Orders,        \* create requests, each with the order it creates
    Cancels,       \* cancel requests
    Side,          \* Side[o] is "BUY" or "SELL"
    Qty,           \* Qty[o] is the requested quantity (0: refused by the table)
    Quotes,        \* answers of market-data-service: [price, volume] records
    Holdings,      \* answers of portfolio-service: cash or position quantity
    Pending,       \* no answer yet
    Failed,        \* the call returned an error
    NoTrade,       \* trade_id IS NULL
    MaxFaults      \* bound on the faults of each kind

(* What may go wrong, each kind at most MaxFaults[kind] times:             *)
(* "upstream" an HTTP call to another service fails; "db" a statement      *)
(* returns an error, before or after it took effect; "lost" and "dup" a    *)
(* produced message is dropped or written twice; "crash" the process dies; *)
(* "shutdown" it is stopped by SIGTERM.                                    *)
FaultKinds == {"upstream", "db", "lost", "dup", "crash", "shutdown"}

Requests == Orders \cup Cancels

ASSUME OrdersAssumption ==
    /\ Orders \cap Cancels = {}
    /\ Side \in [Orders -> {"BUY", "SELL"}]
    /\ Qty \in [Orders -> Nat]

ASSUME AnswersAssumption ==
    /\ Quotes \subseteq [price : Nat, volume : Nat]
    /\ Holdings \subseteq Int
    /\ Pending \notin Quotes \cup {Failed} /\ Failed \notin Quotes
    /\ Pending \notin Holdings /\ Failed \notin Holdings
    /\ NoTrade \notin Nat

ASSUME FaultsAssumption == MaxFaults \in [FaultKinds -> Nat]

VARIABLES
    row,        \* the orders table
    pc,         \* where the handler of each request is
    market,     \* marketCh of each create request
    portfolio,  \* portfolioCh of each create request
    target,     \* the order a cancel request names
    answer,     \* what the client of each request was told
    publisher,  \* the goroutine `go s.publishEvent` of each request
    topic,      \* the partition of trading-events, oldest message first
    faults      \* faults spent, by kind

vars == <<row, pc, market, portfolio, target, answer, publisher, topic, faults>>

-----------------------------------------------------------------------------
Prices == {q.price : q \in Quotes}

Reasons == {"INSUFFICIENT_MARKET_VOLUME", "INSUFFICIENT_FUNDS", "INSUFFICIENT_ASSETS"}

(* An orders row; status "absent" stands for no row.                       *)
Rows == [status : {"absent", "NEW", "FILLED", "REJECTED", "CANCELLED"},
         reason : Reasons \cup {"none"},
         trade  : Prices \cup {NoTrade}]

Events == [type   : {"ORDER_FILLED", "ORDER_REJECTED", "ORDER_CANCELLED", "TRADE_EXECUTED"},
           order  : Orders,
           reason : Reasons \cup {"none"},
           trade  : Prices \cup {NoTrade}]

Answers == {"none", "FILLED", "REJECTED", "CANCELLED", "NOT_FOUND", "CONFLICT",
            "INTERNAL_ERROR", "connection lost"}

TypeOK ==
    /\ row \in [Orders -> Rows]
    /\ pc \in [Requests -> {"idle", "fetch", "write", "done"}]
    /\ market \in [Orders -> Quotes \cup {Pending, Failed}]
    /\ portfolio \in [Orders -> Holdings \cup {Pending, Failed}]
    /\ target \in [Cancels -> Orders]
    /\ answer \in [Requests -> Answers]
    /\ publisher \in [Requests -> {"none", "status", "trade", "gone"}]
    /\ topic \in Seq(Events)
    /\ faults \in [FaultKinds -> Nat]

Init ==
    /\ row = [o \in Orders |-> [status |-> "absent", reason |-> "none", trade |-> NoTrade]]
    /\ pc = [p \in Requests |-> "idle"]
    /\ market = [o \in Orders |-> Pending]
    /\ portfolio = [o \in Orders |-> Pending]
    /\ target \in [Cancels -> Orders]
    /\ answer = [p \in Requests |-> "none"]
    /\ publisher = [p \in Requests |-> "none"]
    /\ topic = <<>>
    /\ faults = [k \in FaultKinds |-> 0]

-----------------------------------------------------------------------------
Spend(kind) ==
    /\ faults[kind] < MaxFaults[kind]
    /\ faults' = [faults EXCEPT ![kind] = @ + 1]

Respond(p, a) ==
    /\ pc' = [pc EXCEPT ![p] = "done"]
    /\ answer' = [answer EXCEPT ![p] = a]

(* `go s.publishEvent(ctx, order, ...)`                                    *)
GoPublish(p) == publisher' = [publisher EXCEPT ![p] = "status"]

(* A statement that turns the row of o into r and returns nil.             *)
Exec(o, r) == row' = [row EXCEPT ![o] = r] /\ UNCHANGED faults

(* The same statement returning an error: a cancelled request context or a *)
(* lost connection tells nothing about whether it took effect.             *)
ExecErr(o, r) == Spend("db") /\ row' \in {row, [row EXCEPT ![o] = r]}

-----------------------------------------------------------------------------
(* OrderService.CreateOrder                                                *)

Inserted(o) == [status |-> "NEW", reason |-> "none", trade |-> NoTrade]

(* INSERT of the NEW row.  CHECK (quantity > 0) refuses other quantities.  *)
CreateOrder(o) ==
    /\ pc[o] = "idle"
    /\ \/ /\ Qty[o] > 0
          /\ Exec(o, Inserted(o))
          /\ pc' = [pc EXCEPT ![o] = "fetch"]
          /\ UNCHANGED answer
       \/ /\ Qty[o] = 0
          /\ Respond(o, "INTERNAL_ERROR")
          /\ UNCHANGED <<row, faults>>
       \/ /\ Qty[o] > 0
          /\ ExecErr(o, Inserted(o))
          /\ Respond(o, "INTERNAL_ERROR")
    /\ UNCHANGED <<market, portfolio, target, publisher, topic>>

(* The goroutine calling GetMarketData ends.                               *)
MarketAnswers(o, reply) ==
    /\ pc[o] = "fetch" /\ market[o] = Pending
    /\ market' = [market EXCEPT ![o] = reply]
    /\ IF reply = Failed THEN Spend("upstream") ELSE UNCHANGED faults
    /\ UNCHANGED <<row, pc, portfolio, target, answer, publisher, topic>>

(* The goroutine calling GetCashBalance or GetAssetQuantity ends.          *)
PortfolioAnswers(o, reply) ==
    /\ pc[o] = "fetch" /\ portfolio[o] = Pending
    /\ portfolio' = [portfolio EXCEPT ![o] = reply]
    /\ IF reply = Failed THEN Spend("upstream") ELSE UNCHANGED faults
    /\ UNCHANGED <<row, pc, market, target, answer, publisher, topic>>

(* Faulty variant of Fetched: a failed market call skips its wg.Done().    *)
FetchedUnlessFailed(o) ==
    pc[o] = "fetch" /\ market[o] \notin {Pending, Failed} /\ portfolio[o] # Pending

(* wg.Wait() has returned.                                                 *)
Fetched(o) == pc[o] = "fetch" /\ market[o] # Pending /\ portfolio[o] # Pending

(* Faulty variant of Covered: only purchases are checked.                  *)
CoveredIfSold(o) == Side[o] = "SELL" \/ portfolio[o] >= market[o].price * Qty[o]

Covered(o) ==
    portfolio[o] >= IF Side[o] = "BUY" THEN market[o].price * Qty[o] ELSE Qty[o]

(* What the checks after wg.Wait() decide, in their order: the error of    *)
(* the portfolio call is looked at only after the volume was compared.     *)
Verdict(o) ==
    CASE market[o] = Failed          -> "error"
      [] market[o] # Failed /\ market[o].volume < Qty[o] -> "INSUFFICIENT_MARKET_VOLUME"
      [] market[o] # Failed /\ market[o].volume >= Qty[o] ->
            IF portfolio[o] = Failed THEN "error"
            ELSE IF Covered(o) THEN "fill"
            ELSE IF Side[o] = "BUY" THEN "INSUFFICIENT_FUNDS" ELSE "INSUFFICIENT_ASSETS"

(* return nil, err: the NEW row stays behind.                              *)
FailOrder(o) ==
    /\ Fetched(o) /\ Verdict(o) = "error"
    /\ Respond(o, "INTERNAL_ERROR")
    /\ UNCHANGED <<row, market, portfolio, target, publisher, topic, faults>>

(* FillOrder: UPDATE ... WHERE id = $6, whatever the status has become.    *)
Filled(o) == [row[o] EXCEPT !.status = "FILLED", !.trade = market[o].price]

(* Faulty variants of Rejected: the UPDATE matches no row (its id and      *)
(* user_id arguments are swapped); a missing return after it lets the      *)
(* order be filled as well.                                                *)
RejectedNowhere(o) == row[o]
RejectedAndFilled(o) == [Filled(o) EXCEPT !.reason = Verdict(o)]

(* UpdateOrderStatus to REJECTED, whatever the status has become.          *)
Rejected(o) == [row[o] EXCEPT !.status = "REJECTED", !.reason = Verdict(o)]

(* The three rejections; the error of UpdateOrderStatus is ignored.        *)
RejectOrder(o) ==
    /\ Fetched(o) /\ Verdict(o) \in Reasons
    /\ Exec(o, Rejected(o)) \/ ExecErr(o, Rejected(o))
    /\ GoPublish(o)
    /\ Respond(o, "REJECTED")
    /\ UNCHANGED <<market, portfolio, target, topic>>

(* Faulty variant of FillOrder: its error is ignored like a rejection's.   *)
FillOrderIgnoringError(o) ==
    /\ Fetched(o) /\ Verdict(o) = "fill"
    /\ Exec(o, Filled(o)) \/ ExecErr(o, Filled(o))
    /\ GoPublish(o)
    /\ Respond(o, "FILLED")
    /\ UNCHANGED <<market, portfolio, target, topic>>

(* The fill: on an error nothing is published.                             *)
FillOrder(o) ==
    /\ Fetched(o) /\ Verdict(o) = "fill"
    /\ \/ Exec(o, Filled(o)) /\ GoPublish(o) /\ Respond(o, "FILLED")
       \/ /\ ExecErr(o, Filled(o))
          /\ Respond(o, "INTERNAL_ERROR")
          /\ UNCHANGED publisher
    /\ UNCHANGED <<market, portfolio, target, topic>>

-----------------------------------------------------------------------------
(* OrderService.CancelOrder                                                *)

(* Faulty variant of Cancellable: any order that exists.                   *)
CancellableAlways(status) == status # "absent"

(* order.Status != NEW is refused.                                         *)
Cancellable(status) == status = "NEW"

(* GetOrderByID and the checks on the row it returned.                     *)
ReadForCancel(c) ==
    /\ pc[c] = "idle"
    /\ LET status == row[target[c]].status IN
       \/ /\ status = "absent" /\ Respond(c, "NOT_FOUND") /\ UNCHANGED faults
       \/ /\ status # "absent" /\ ~Cancellable(status)
          /\ Respond(c, "CONFLICT")
          /\ UNCHANGED faults
       \/ /\ Cancellable(status)
          /\ pc' = [pc EXCEPT ![c] = "write"]
          /\ UNCHANGED <<answer, faults>>
       \/ Spend("db") /\ Respond(c, "INTERNAL_ERROR")
    /\ UNCHANGED <<row, market, portfolio, target, publisher, topic>>

(* Faulty variant of Cancelled: the order read before is saved whole.      *)
CancelledAsRead(o) == [Inserted(o) EXCEPT !.status = "CANCELLED"]

(* repo.CancelOrder: UPDATE ... WHERE id AND user_id, whatever the status. *)
Cancelled(o) == [row[o] EXCEPT !.status = "CANCELLED"]

CancelOrder(c) ==
    /\ pc[c] = "write"
    /\ \/ /\ Exec(target[c], Cancelled(target[c]))
          /\ GoPublish(c)
          /\ Respond(c, "CANCELLED")
       \/ /\ ExecErr(target[c], Cancelled(target[c]))
          /\ Respond(c, "INTERNAL_ERROR")
          /\ UNCHANGED publisher
    /\ UNCHANGED <<market, portfolio, target, topic>>

-----------------------------------------------------------------------------
(* OrderService.publishEvent and the Kafka producer                        *)

OrderOf(p) == IF p \in Orders THEN p ELSE target[p]

(* Faulty variant of StatusEvent: the market volume sent as the price.     *)
SwappedEvent(p) ==
    [type   |-> CASE answer[p] = "FILLED"    -> "ORDER_FILLED"
                  [] answer[p] = "REJECTED"  -> "ORDER_REJECTED"
                  [] answer[p] = "CANCELLED" -> "ORDER_CANCELLED",
     order  |-> OrderOf(p),
     reason |-> IF answer[p] = "REJECTED" THEN Verdict(p) ELSE "none",
     trade  |-> IF answer[p] = "FILLED" THEN market[p].volume ELSE NoTrade]

(* publishEvent works on the handler's own copy of the order, not on the   *)
(* row: the status told to the client and the price the market answered.   *)
StatusEvent(p) ==
    [type   |-> CASE answer[p] = "FILLED"    -> "ORDER_FILLED"
                  [] answer[p] = "REJECTED"  -> "ORDER_REJECTED"
                  [] answer[p] = "CANCELLED" -> "ORDER_CANCELLED",
     order  |-> OrderOf(p),
     reason |-> IF answer[p] = "REJECTED" THEN Verdict(p) ELSE "none",
     trade  |-> IF answer[p] = "FILLED" THEN market[p].price ELSE NoTrade]

(* ProduceTradingEvent of e by the goroutine of p, which then moves on to  *)
(* next.  The writer asks for no acknowledgement, so a message may be lost *)
(* (ProduceTradingEvent returns an error that is only logged, or none at   *)
(* all), and after a network error the writer sends it once more.          *)
Produce(p, e, next) ==
    \/ /\ topic' = Append(topic, e)
       /\ publisher' = [publisher EXCEPT ![p] = next]
       /\ UNCHANGED faults
    \/ /\ Spend("lost")
       /\ publisher' = [publisher EXCEPT ![p] = next]
       /\ UNCHANGED topic
    \/ /\ Spend("dup")
       /\ topic' = Append(topic, e)
       /\ UNCHANGED publisher

(* Faulty variant of AfterStatus: the goroutine ends after its first send. *)
AfterStatusNothing(p) == "gone"

(* Only a fill goes on to a second message.                                *)
AfterStatus(p) == IF answer[p] = "FILLED" THEN "trade" ELSE "gone"

(* The first message of the goroutine.                                     *)
PublishStatus(p) ==
    /\ publisher[p] = "status"
    /\ Produce(p, StatusEvent(p), AfterStatus(p))
    /\ UNCHANGED <<row, pc, market, portfolio, target, answer>>

(* Faulty variant of PublishTrade: it does not wait for the first send.    *)
PublishTradeAtOnce(p) ==
    /\ publisher[p] \in {"status", "trade"} /\ answer[p] = "FILLED"
    /\ Produce(p, [StatusEvent(p) EXCEPT !.type = "TRADE_EXECUTED"],
                  IF publisher[p] = "status" THEN "status" ELSE "gone")
    /\ UNCHANGED <<row, pc, market, portfolio, target, answer>>

(* tradeEv := *ev with another type, sent even if the first send failed.   *)
PublishTrade(p) ==
    /\ publisher[p] = "trade"
    /\ Produce(p, [StatusEvent(p) EXCEPT !.type = "TRADE_EXECUTED"], "gone")
    /\ UNCHANGED <<row, pc, market, portfolio, target, answer>>

-----------------------------------------------------------------------------
InFlight(p) == pc[p] \in {"fetch", "write"}

DropPublishers ==
    publisher' = [p \in Requests |-> IF publisher[p] = "none" THEN "none" ELSE "gone"]

(* The process dies: handlers and publish goroutines vanish with it.       *)
Crash ==
    /\ Spend("crash")
    /\ pc' = [p \in Requests |-> IF InFlight(p) THEN "done" ELSE pc[p]]
    /\ answer' = [p \in Requests |-> IF InFlight(p) THEN "connection lost" ELSE answer[p]]
    /\ DropPublishers
    /\ UNCHANGED <<row, market, portfolio, target, topic>>

(* SIGTERM: srv.Shutdown waits for the handlers; main then returns without *)
(* waiting for the publish goroutines.                                     *)
Shutdown ==
    /\ \A p \in Requests : ~InFlight(p)
    /\ Spend("shutdown")
    /\ DropPublishers
    /\ UNCHANGED <<row, pc, market, portfolio, target, answer, topic>>

HandleOrder(o) ==
    \/ \E reply \in Quotes \cup {Failed} : MarketAnswers(o, reply)
    \/ \E reply \in Holdings \cup {Failed} : PortfolioAnswers(o, reply)
    \/ FailOrder(o) \/ RejectOrder(o) \/ FillOrder(o)

Publish(p) == PublishStatus(p) \/ PublishTrade(p)

Next ==
    \/ \E o \in Orders : CreateOrder(o) \/ HandleOrder(o)
    \/ \E c \in Cancels : ReadForCancel(c) \/ CancelOrder(c)
    \/ \E p \in Requests : Publish(p)
    \/ Crash \/ Shutdown

(* A started handler or goroutine is eventually scheduled; both HTTP       *)
(* clients and the producer give up after a timeout.  Nothing makes a      *)
(* client send a request.                                                  *)
Fairness ==
    /\ \A o \in Orders :
          /\ WF_vars(\E reply \in Quotes \cup {Failed} : MarketAnswers(o, reply))
          /\ WF_vars(\E reply \in Holdings \cup {Failed} : PortfolioAnswers(o, reply))
          /\ WF_vars(FailOrder(o) \/ RejectOrder(o) \/ FillOrder(o))
    /\ \A c \in Cancels : WF_vars(CancelOrder(c))
    /\ \A p \in Requests : WF_vars(Publish(p))

Spec == Init /\ [][Next]_vars /\ Fairness

-----------------------------------------------------------------------------
(* Properties                                                              *)

Sent(type, o) == {i \in DOMAIN topic : topic[i].type = type /\ topic[i].order = o}

(* An order is either rejected or traded, never both, whatever cancels and *)
(* faults come in between: neither its row nor the messages about it       *)
(* (the early returns of CreateOrder after each UpdateOrderStatus).        *)
OneOutcome ==
    \A o \in Orders :
        /\ row[o].reason = "none" \/ row[o].trade = NoTrade
        /\ Sent("ORDER_REJECTED", o) = {} \/ row[o].trade = NoTrade

(* Whoever learns of a trade, the client from its 201 answer or the        *)
(* portfolio from ORDER_FILLED and TRADE_EXECUTED, learns of one that is   *)
(* in the orders table with the same price, even if the order was          *)
(* cancelled since (FillOrder's error is checked before `go publishEvent`).*)
AnnouncedTradesAreStored ==
    /\ \A o \in Orders : answer[o] = "FILLED" => row[o].trade = market[o].price
    /\ \A i \in DOMAIN topic :
          topic[i].type \in {"ORDER_FILLED", "TRADE_EXECUTED"} =>
              row[topic[i].order].trade = topic[i].trade

(* The consumer meets ORDER_FILLED of an order before its TRADE_EXECUTED,  *)
(* retries of the writer included, if it meets it at all (publishEvent     *)
(* sends both from one goroutine).                                         *)
FilledPrecedesTrade ==
    \A o \in Orders :
        \A i \in Sent("ORDER_FILLED", o), j \in Sent("TRADE_EXECUTED", o) : i < j

(* A request that nobody handles any more leaves its order NEW only after  *)
(* a fault, and then the client was not told that it succeeded.            *)
OrphansComeFromFaults ==
    \A o \in Orders :
        row[o].status = "NEW" /\ ~InFlight(o) =>
            \/ answer[o] \in {"INTERNAL_ERROR", "connection lost"}
            \/ answer[o] = "REJECTED" /\ faults["db"] > 0

(* An order whose handler is over, that is not NEW and that no cancel      *)
(* request is about to write.                                              *)
Settled(o) ==
    /\ row[o].status \notin {"absent", "NEW"}
    /\ ~InFlight(o)
    /\ \A c \in Cancels : pc[c] = "write" => target[c] # o

(* A settled order never changes again: a cancel request that arrives      *)
(* later is refused (the status check of CancelOrder); only requests that  *)
(* overlapped the outcome can still overwrite it.                          *)
SettledForever ==
    [][\A o \in Orders : Settled(o) => Settled(o)' /\ row'[o] = row[o]]_vars

(* A trade, once in the orders table, is never lost, replaced or moved to  *)
(* another price: no statement after FillOrder writes the trade columns.   *)
TradeIsForever ==
    [][\A o \in Orders : row[o].trade # NoTrade => row'[o].trade = row[o].trade]_vars

(* The decisions and the topic as a TradeBook: a trade is in the table, a  *)
(* rejection is known to the handler that answered so, whether or not its  *)
(* statement took effect.                                                  *)
Book == INSTANCE TradeBook WITH
    trade <- [o \in Orders |-> row[o].trade],
    reason <- [o \in Orders |-> IF answer[o] = "REJECTED" THEN Verdict(o) ELSE "none"]

(* trading-service keeps the promises of TradeBook, however create and     *)
(* cancel requests overlap and whatever fails: no order is decided twice,  *)
(* and nothing reaches the topic that is not a decision (the order of the  *)
(* statement, the answer and `go publishEvent` in CreateOrder).            *)
ImplementsTradeBook == Book!Spec

(* Every request a handler started on is answered, or its connection is    *)
(* lost with the process (HTTP timeouts, wg.Wait over two goroutines).     *)
RequestsAnswered == \A p \in Requests : InFlight(p) ~> answer[p] # "none"

(* A trade in the table reaches the portfolio's topic, unless it is lost on *)
(* the way or nobody knows of it: its message was dropped, the process was *)
(* stopped before the goroutine sent it, or FillOrder reported an error    *)
(* after it took effect.  Nothing else keeps a trade from being announced. *)
TradesReachTopic ==
    \A o \in Orders :
        row[o].trade # NoTrade ~>
            \/ Sent("TRADE_EXECUTED", o) # {}
            \/ \E k \in {"lost", "crash", "shutdown", "db"} : faults[k] > 0

-----------------------------------------------------------------------------
(* What the documentation says and the code does not do                    *)

(* The arrows between statuses in the diagram of the order's life cycle    *)
(* (docs/obsidian/01 - Сервисы/trading-service.md).                        *)
DocumentedChanges ==
    {"NEW"} \X {"FILLED", "REJECTED", "CANCELLED"}

(* The status of an order changes along an arrow of that diagram: FILLED,  *)
(* REJECTED and CANCELLED are final.                                       *)
StatusFollowsDiagram ==
    [][\A o \in Orders :
          row[o].status \notin {"absent", row'[o].status} =>
              <<row[o].status, row'[o].status>> \in DocumentedChanges]_vars

=============================================================================
