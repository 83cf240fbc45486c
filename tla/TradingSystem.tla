---------------------------- MODULE TradingSystem ----------------------------
(***************************************************************************)
(* trading-service and portfolio-service at work together.  An order asks  *)
(* portfolio-service for the cash or the shares of its owner over HTTP;    *)
(* its outcome comes back to portfolio-service through trading-events,     *)
(* later.  The two services share nothing else: the answer an order is     *)
(* decided on is a balance some statement of portfolio-service returned,   *)
(* and the messages the consumer reads are those the publish goroutines    *)
(* wrote.                                                                  *)
(***************************************************************************)
EXTENDS Integers, Sequences, FiniteSets

CONSTANTS
    Users, Symbols,
    Orders, Cancels,               \* requests to trading-service
    Transfers,                     \* deposits and withdrawals
    Owner, Symbol, Side, Qty,      \* attributes of each order
    Transfer,                      \* the kind, account and amount of each transfer
    Quotes,                        \* answers of market-data-service
    Balances,                      \* the balances and quantities that may occur
    Consumer, Pending, Failed, NoTrade, Absent,
    MaxMessages,
    MaxTradingFaults, MaxPortfolioFaults,  \* bounds on the faults of each kind
    MaxFaults                              \* and on the kinds of faults of a behaviour

Buyers == {o \in Orders : Side[o] = "BUY"}

ASSUME BooksAssumption ==
    /\ Owner \in [Orders -> Users] /\ Symbol \in [Orders -> Symbols]
    /\ Qty \in [Orders -> Nat \ {0}]
    /\ Transfer \in [Transfers -> [kind : {"deposit", "withdraw"}, account : Users, amount : Int]]
    /\ Consumer \notin Orders \cup Transfers
    /\ Absent \notin Int

VARIABLES
    \* trading-service (see OrderLifecycle)
    row, handler, market, portfolio, target, told, publisher, events, tradingFaults,
    \* portfolio-service (see PortfolioService)
    cash, quantity, history, trades, pc, seen, answer, fetched, committed,
    portfolioFaults, handled, cashed, positioned, moved, spent

tradingVars == <<row, handler, market, portfolio, target, told, publisher, events, tradingFaults>>
portfolioVars == <<cash, quantity, history, trades, pc, seen, answer, fetched, committed,
                   portfolioFaults, handled, cashed, positioned, moved, spent>>
vars == <<tradingVars, portfolioVars>>

T == INSTANCE OrderLifecycle WITH
        pc <- handler, answer <- told, topic <- events, faults <- tradingFaults,
        Holdings <- Balances, MaxFaults <- MaxTradingFaults

ASSUME TradingAssumption == T!OrdersAssumption /\ T!AnswersAssumption /\ T!FaultsAssumption

(* models.TradingEvent, decoded from the JSON of domain.TradingEvent: the  *)
(* gross amount is price times quantity, and empty but for a trade.        *)
Decoded(e) == [type  |-> e.type,
               order |-> e.order,
               gross |-> IF e.trade = NoTrade THEN 0 ELSE e.trade * Qty[e.order]]

(* A purchase calls GET /balance/cash on portfolio-service, which makes it *)
(* one of its clients.                                                     *)
P == INSTANCE PortfolioService WITH
        topic   <- [i \in DOMAIN events |-> Decoded(events[i])],
        Clients <- Transfers \cup Buyers,
        Kind    <- [c \in Transfers \cup Buyers |-> IF c \in Buyers THEN "get" ELSE Transfer[c].kind],
        Account <- [c \in Transfers \cup Buyers |-> IF c \in Buyers THEN Owner[c] ELSE Transfer[c].account],
        Amount  <- [c \in Transfers \cup Buyers |-> IF c \in Buyers THEN 0 ELSE Transfer[c].amount],
        Events  <- {Decoded(e) : e \in T!Events},
        faults  <- portfolioFaults,
        MaxFaults <- MaxPortfolioFaults

ASSUME PortfolioAssumption == P!BoundsAssumption

Init == T!Init /\ P!Init

-----------------------------------------------------------------------------
Waiting(o) == handler[o] = "fetch" /\ portfolio[o] = Pending

(* GetCashBalance of the portfolio client reaches the other service.       *)
CallBalance(o) ==
    /\ Waiting(o)
    /\ UNCHANGED tradingVars
    /\ P!Begin(o)

(* The balance read a moment ago is the answer, if anybody still waits.    *)
BalanceArrives(o) ==
    /\ IF Waiting(o) THEN T!PortfolioAnswers(o, seen[o]) ELSE UNCHANGED tradingVars
    /\ P!ReturnBalance(o)

(* GetAssetQuantity of portfolio-service: no position counts as none held. *)
SharesOf(o) ==
    LET held == quantity[<<Owner[o], Symbol[o]>>] IN IF held = Absent THEN 0 ELSE held

(* GetAssetQuantity of the portfolio client: a single SELECT answers it.   *)
SharesArrive(o) ==
    /\ o \notin Buyers /\ Waiting(o)
    /\ T!PortfolioAnswers(o, SharesOf(o))
    /\ UNCHANGED portfolioVars

(* The call returned an error, or it ran into a timeout.                   *)
CallFails(o) == T!PortfolioAnswers(o, Failed) /\ UNCHANGED portfolioVars

(* Steps of trading-service the other one takes no part in.  A shutdown is *)
(* a crash at a moment when no handler runs.                               *)
TradingStep ==
    /\ \/ \E o \in Orders :
             \/ T!CreateOrder(o)
             \/ \E reply \in Quotes \cup {Failed} : T!MarketAnswers(o, reply)
             \/ T!FailOrder(o) \/ T!RejectOrder(o) \/ T!FillOrder(o)
       \/ \E c \in Cancels : T!ReadForCancel(c) \/ T!CancelOrder(c)
       \/ \E p \in Orders \cup Cancels : T!Publish(p)
       \/ T!Crash
    /\ UNCHANGED portfolioVars

(* Steps of portfolio-service the other one takes no part in.              *)
PortfolioStep ==
    /\ UNCHANGED tradingVars
    /\ \/ \E c \in Transfers : P!Begin(c) \/ P!Serve(c)
       \/ \E o \in Buyers : P!CreatePortfolio(o)
       \/ P!Consume
       \/ P!Restart

FaultsSpent ==
    Cardinality({k \in DOMAIN tradingFaults : tradingFaults[k] > 0})
        + Cardinality({k \in DOMAIN portfolioFaults : portfolioFaults[k] > 0})

Step ==
    \/ TradingStep \/ PortfolioStep
    \/ \E o \in Buyers : CallBalance(o) \/ BalanceArrives(o)
    \/ \E o \in Orders : SharesArrive(o) \/ CallFails(o)

Next == Step /\ FaultsSpent' <= MaxFaults

(* Handlers, goroutines and the consumer go on; clients owe nothing.       *)
Fairness ==
    /\ \A o \in Orders :
          /\ WF_vars(\E reply \in Quotes : T!MarketAnswers(o, reply) /\ UNCHANGED portfolioVars)
          /\ WF_vars((T!FailOrder(o) \/ T!RejectOrder(o) \/ T!FillOrder(o)) /\ UNCHANGED portfolioVars)
    /\ \A p \in Orders \cup Cancels : WF_vars(T!Publish(p) /\ UNCHANGED portfolioVars)
    /\ WF_vars(UNCHANGED tradingVars /\ P!Consume)

Spec == Init /\ [][Next]_vars /\ Fairness

-----------------------------------------------------------------------------
(* Properties                                                              *)

(* What portfolio-service booked is a trade of the orders table: across    *)
(* both services no fault, no duplicate and no cancellation makes it move  *)
(* money for a trade that trading-service does not know (FillOrder before  *)
(* publishEvent, InsertTrade before the cash).  The order history it keeps *)
(* speaks of trades only: the UPDATE of ORDER_REJECTED and that of an      *)
(* ORDER_FILLED read too early find no row, and no row is ever REJECTED.   *)
BookedTradesAreStored ==
    \A o \in Orders :
        /\ o \in trades => row[o].trade # NoTrade
        /\ cashed[o] > 0 => row[o].trade # NoTrade
        /\ history[o] # Absent => row[o].trade # NoTrade /\ history[o] # "REJECTED"

(* A trade never arrives before the rows its booking needs: the account of *)
(* a buyer and the position of a seller exist by then, so neither the race *)
(* of two INSERTs into portfolios nor "cannot sell position that doesn't   *)
(* exist" can lose it (the checks of CreateOrder read those very rows).    *)
BookingFindsItsRows ==
    \A i \in DOMAIN events :
        LET o == events[i].order IN
        events[i].type = "TRADE_EXECUTED" =>
            /\ cash[Owner[o]] # Absent
            /\ Side[o] = "SELL" => quantity[<<Owner[o], Symbol[o]>>] # Absent

(* Every trade in the orders table is booked in cash and in the position,  *)
(* whatever transfers run at the same time, unless there is a fault.       *)
TradesAreBooked ==
    \A o \in Orders :
        row[o].trade # NoTrade ~>
            \/ cashed[o] = 1 /\ positioned[o] = 1
            \/ FaultsSpent > 0

(* A trade that is announced on the topic is booked once in cash and in the*)
(* position, whoever else writes the account and whatever fails or comes   *)
(* twice in trading-service, unless portfolio-service meets a fault: a     *)
(* statement, the commit of an offset or the process (handleTradeExecuted  *)
(* gives up without a trace on every error).                               *)
AnnouncedTradesAreBooked ==
    \A o \in Orders :
        (\E i \in DOMAIN events : events[i].type = "TRADE_EXECUTED" /\ events[i].order = o) ~>
            \/ cashed[o] = 1 /\ positioned[o] = 1
            \/ \E k \in P!FaultKinds : portfolioFaults[k] > 0

-----------------------------------------------------------------------------
(* What the documentation says and the code does not do                    *)

(* A purchase the balance does not cover is REJECTED (README of trading-   *)
(* service): buying alone never makes a balance negative.                  *)
PurchasesAreCovered == \A u \in Users : cash[u] # Absent => cash[u] >= 0

=============================================================================
