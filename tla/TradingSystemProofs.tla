------------------------- MODULE TradingSystemProofs -------------------------
(***************************************************************************)
(* Theorems about the two services at work together, for any users,        *)
(* orders, cancel requests and transfers and any number of faults.         *)
(*                                                                         *)
(* The argument: every step of the system is a step of trading-service, as *)
(* OrderLifecycle has it, or leaves trading-service alone; so what is      *)
(* proved there about rows and messages holds here.  On the side of        *)
(* portfolio-service rows are never deleted: whatever an order was decided *)
(* on is still there when its trade is booked.                             *)
(***************************************************************************)
EXTENDS TradingSystem, SequenceTheorems, TLAPS

(* trading-service with what is proved about it.                           *)
TP == INSTANCE OrderLifecycleProofs WITH
        pc <- handler, answer <- told, topic <- events, faults <- tradingFaults,
        Holdings <- Balances, MaxFaults <- MaxTradingFaults

(* portfolio-service with what is proved about it.                         *)
PP == INSTANCE PortfolioProofs WITH
        topic   <- [i \in DOMAIN events |-> Decoded(events[i])],
        Clients <- Transfers \cup Buyers,
        Kind    <- [c \in Transfers \cup Buyers |-> IF c \in Buyers THEN "get" ELSE Transfer[c].kind],
        Account <- [c \in Transfers \cup Buyers |-> IF c \in Buyers THEN Owner[c] ELSE Transfer[c].account],
        Amount  <- [c \in Transfers \cup Buyers |-> IF c \in Buyers THEN 0 ELSE Transfer[c].amount],
        Events  <- {Decoded(e) : e \in T!Events},
        faults  <- portfolioFaults,
        MaxFaults <- MaxPortfolioFaults

-----------------------------------------------------------------------------
(* trading-service                                                         *)

LEMMA SameAssumptions == TP!OrdersAssumption /\ TP!AnswersAssumption /\ TP!FaultsAssumption
  BY TradingAssumption
  DEF T!OrdersAssumption, T!AnswersAssumption, T!FaultsAssumption, T!FaultKinds,
      TP!OrdersAssumption, TP!AnswersAssumption, TP!FaultsAssumption, TP!FaultKinds

LEMMA SameVerdict == \A o \in Orders : T!Verdict(o) = TP!Verdict(o)
  BY DEF T!Verdict, TP!Verdict, T!Covered, TP!Covered

LEMMA SameFetched == \A o \in Orders : T!Fetched(o) = TP!Fetched(o)
  BY DEF T!Fetched, TP!Fetched

LEMMA SameInit == T!Init => TP!Init
  BY DEF T!Init, TP!Init, T!Requests, TP!Requests, T!FaultKinds, TP!FaultKinds

LEMMA SameCreate == ASSUME NEW o \in Orders, T!CreateOrder(o) PROVE TP!CreateOrder(o)
  BY DEF T!CreateOrder, TP!CreateOrder, T!Exec, TP!Exec, T!ExecErr, TP!ExecErr, T!Spend, TP!Spend,
         T!Inserted, TP!Inserted, T!Respond, TP!Respond

LEMMA SameMarket ==
  ASSUME NEW o \in Orders, NEW reply, T!MarketAnswers(o, reply) PROVE TP!MarketAnswers(o, reply)
  BY DEF T!MarketAnswers, TP!MarketAnswers, T!Spend, TP!Spend

LEMMA SamePortfolio ==
  ASSUME NEW o \in Orders, NEW reply, T!PortfolioAnswers(o, reply) PROVE TP!PortfolioAnswers(o, reply)
  BY DEF T!PortfolioAnswers, TP!PortfolioAnswers, T!Spend, TP!Spend

LEMMA SameFail == ASSUME NEW o \in Orders, T!FailOrder(o) PROVE TP!FailOrder(o)
  BY SameVerdict, SameFetched DEF T!FailOrder, TP!FailOrder, T!Respond, TP!Respond

LEMMA SameReject == ASSUME NEW o \in Orders, T!RejectOrder(o) PROVE TP!RejectOrder(o)
  BY SameVerdict, SameFetched
  DEF T!RejectOrder, TP!RejectOrder, T!Reasons, TP!Reasons, T!Rejected, TP!Rejected, T!Exec, TP!Exec,
      T!ExecErr, TP!ExecErr, T!Spend, TP!Spend, T!GoPublish, TP!GoPublish, T!Respond, TP!Respond

LEMMA SameFill == ASSUME NEW o \in Orders, T!FillOrder(o) PROVE TP!FillOrder(o)
  BY SameVerdict, SameFetched
  DEF T!FillOrder, TP!FillOrder, T!Filled, TP!Filled, T!Exec, TP!Exec, T!ExecErr, TP!ExecErr,
      T!Spend, TP!Spend, T!GoPublish, TP!GoPublish, T!Respond, TP!Respond

LEMMA SameCancel ==
  ASSUME NEW c \in Cancels, T!ReadForCancel(c) \/ T!CancelOrder(c)
  PROVE  TP!ReadForCancel(c) \/ TP!CancelOrder(c)
  <1>1. CASE T!ReadForCancel(c)
    BY <1>1 DEF T!ReadForCancel, TP!ReadForCancel, T!Cancellable, TP!Cancellable, T!Spend, TP!Spend,
                T!Respond, TP!Respond
  <1>2. CASE T!CancelOrder(c)
    BY <1>2 DEF T!CancelOrder, TP!CancelOrder, T!Cancelled, TP!Cancelled, T!Exec, TP!Exec,
                T!ExecErr, TP!ExecErr, T!Spend, TP!Spend, T!GoPublish, TP!GoPublish,
                T!Respond, TP!Respond
  <1> QED
    BY <1>1, <1>2

LEMMA SamePublish == ASSUME NEW p \in Orders \cup Cancels, T!Publish(p) PROVE TP!Publish(p)
  <1>1. T!StatusEvent(p) = TP!StatusEvent(p) /\ T!AfterStatus(p) = TP!AfterStatus(p)
    BY DEF T!StatusEvent, TP!StatusEvent, T!AfterStatus, TP!AfterStatus, T!OrderOf, TP!OrderOf,
           T!Verdict, TP!Verdict, T!Covered, TP!Covered
  <1> QED
    BY <1>1 DEF T!Publish, TP!Publish, T!PublishStatus, TP!PublishStatus, T!PublishTrade,
                TP!PublishTrade, T!Produce, TP!Produce, T!Spend, TP!Spend

LEMMA SameCrash == T!Crash => TP!Crash
  BY DEF T!Crash, TP!Crash, T!Spend, TP!Spend, T!InFlight, TP!InFlight, T!Requests, TP!Requests,
         T!DropPublishers, TP!DropPublishers

(* Balances only bounds what a model checker enumerates; the theorems take *)
(* it to be all integers.                                                  *)
AnyBalance == Balances = Int

-----------------------------------------------------------------------------
(* portfolio-service                                                       *)

BookTypes ==
    /\ pc \in [P!Processes -> P!ClientSteps \cup P!ConsumerSteps]
    /\ seen \in [P!Processes -> Int]
    /\ cash \in [Users -> Int \cup {Absent}]
    /\ quantity \in [Users \X Symbols -> Nat \cup {Absent}]
    /\ cashed \in [Orders -> Nat]
    /\ fetched \in Nat /\ committed \in Nat

Booking == {"order", "trade", "get", "create", "cash", "position"}

(* While the consumer books it works on the message of a trade.            *)
TradeAtHand ==
    pc[Consumer] \in Booking =>
        fetched \in DOMAIN events /\ events[fetched].type = "TRADE_EXECUTED"

(* A row that some process has read or written is there.                   *)
AccountsAreThere ==
    /\ \A o \in Buyers : pc[o] = "write" => cash[Owner[o]] # Absent
    /\ pc[Consumer] \in {"cash", "position"} => cash[Owner[events[fetched].order]] # Absent
    /\ \A u \in Users, s \in Symbols : quantity[<<u, s>>] # Absent => cash[u] # Absent

(* The rows the booking of an order needs.                                 *)
FindsItsRows(o) ==
    /\ cash[Owner[o]] # Absent
    /\ Side[o] = "SELL" => quantity[<<Owner[o], Symbol[o]>>] # Absent

(* An answer that lets an order pass was read from those rows, and so was  *)
(* every trade decided on one.                                             *)
AnswersFindRows ==
    \A o \in Orders :
        portfolio[o] \notin {Pending, Failed} /\ (Side[o] = "SELL" => portfolio[o] > 0) =>
            FindsItsRows(o)

TradesFindRows == \A o \in Orders : row[o].trade # NoTrade => FindsItsRows(o)

(* While the consumer updates a status it works on some other message.     *)
StatusAtHand ==
    pc[Consumer] = "status" =>
        fetched \in DOMAIN events /\ events[fetched].type # "TRADE_EXECUTED"

HistoryTyped == history \in [Orders -> P!Statuses \cup {Absent}]

BooksInv ==
    /\ TP!OrderInv
    /\ BookTypes /\ HistoryTyped
    /\ TradeAtHand /\ StatusAtHand
    /\ AccountsAreThere
    /\ BookedTradesAreStored
    /\ AnswersFindRows /\ TradesFindRows

(* Rows of portfolio-service are never deleted.                            *)
RowsStay ==
    /\ \A u \in Users : cash[u] # Absent => cash'[u] # Absent
    /\ \A u \in Users, s \in Symbols : quantity[<<u, s>>] # Absent => quantity'[<<u, s>>] # Absent

LEMMA Types ==
  ASSUME BookTypes
  PROVE  /\ Consumer \in P!Processes /\ Consumer \notin Buyers \cup Transfers
         /\ Buyers \subseteq Orders /\ Buyers \subseteq P!Processes /\ Transfers \subseteq P!Processes
         /\ \A o \in Orders : Owner[o] \in Users /\ Symbol[o] \in Symbols /\ Side[o] \in {"BUY", "SELL"}
  BY BooksAssumption, TradingAssumption DEF P!Processes, Buyers, T!OrdersAssumption

LEMMA MessageTyped ==
  ASSUME BooksInv, pc[Consumer] \in Booking
  PROVE  /\ fetched \in DOMAIN events /\ P!Event = Decoded(events[fetched])
         /\ events[fetched].order \in Orders /\ events[fetched].type = "TRADE_EXECUTED"
         /\ P!Event.order = events[fetched].order /\ P!Event.gross \in Int
         /\ row[events[fetched].order].trade # NoTrade
  <1>1. fetched \in DOMAIN events /\ events[fetched].type = "TRADE_EXECUTED"
    BY DEF BooksInv, TradeAtHand
  <1>2. events[fetched] \in TP!Events
    BY <1>1, SameAssumptions, TP!TopicElement DEF BooksInv, TP!OrderInv
  <1>3. P!Event = Decoded(events[fetched])
    BY <1>1 DEF P!Event
  <1>4. events[fetched].order \in Orders /\ events[fetched].trade \in TP!Prices \cup {NoTrade}
    BY <1>2 DEF TP!Events
  <1>5. TP!Prices \subseteq Nat
    BY SameAssumptions, TP!PricesAreNat
  <1>6. P!Event.order = events[fetched].order /\ P!Event.gross \in Int
    <2>1. events[fetched].trade = NoTrade \/ events[fetched].trade \in Nat
      BY <1>4, <1>5
    <2>2. Qty[events[fetched].order] \in Nat
      BY <1>4, BooksAssumption
    <2>3. ASSUME NEW a \in Nat, NEW b \in Nat PROVE a * b \in Int
      OBVIOUS
    <2> QED
      BY <1>3, <2>1, <2>2, <2>3 DEF Decoded
  <1>7. row[events[fetched].order].trade # NoTrade
    BY <1>1 DEF BooksInv, TP!OrderInv, TP!TopicFollowsRow, TP!Agrees
  <1> QED
    BY <1>1, <1>3, <1>4, <1>6, <1>7

(* The user a client or the consumer works for.                            *)
LEMMA UserOfProcess ==
  ASSUME BooksInv
  PROVE  /\ \A o \in Buyers : P!UserOf(o) = Owner[o]
         /\ \A c \in Transfers \cup Buyers : P!UserOf(c) \in Users
         /\ pc[Consumer] \in Booking => P!UserOf(Consumer) = Owner[events[fetched].order]
                                        /\ P!UserOf(Consumer) \in Users
  <1>1. BookTypes
    BY DEF BooksInv
  <1>2. \A c \in Transfers : Transfer[c].account \in Users
    BY BooksAssumption
  <1>3. \A c \in Transfers \cup Buyers :
           P!UserOf(c) = IF c \in Buyers THEN Owner[c] ELSE Transfer[c].account
    BY <1>1, Types DEF P!UserOf
  <1>4. pc[Consumer] \in Booking => P!UserOf(Consumer) = Owner[events[fetched].order]
    BY MessageTyped DEF P!UserOf
  <1> QED
    BY <1>1, <1>2, <1>3, <1>4, Types, MessageTyped

(* What a step of portfolio-service keeps, whatever trading-service does   *)
(* in the same step.                                                       *)
PortfolioKept ==
    /\ BookTypes' /\ RowsStay
    /\ pc'[Consumer] \in Booking =>
          fetched' \in DOMAIN events /\ events[fetched'].type = "TRADE_EXECUTED"
    /\ \A o \in Buyers : pc'[o] = "write" => cash'[Owner[o]] # Absent
    /\ pc'[Consumer] \in {"cash", "position"} => cash'[Owner[events[fetched'].order]] # Absent
    /\ \A u \in Users, s \in Symbols : quantity'[<<u, s>>] # Absent => cash'[u] # Absent
    /\ \A o \in Orders : o \in trades' \/ cashed'[o] > 0 => row[o].trade # NoTrade

(* A step of one process that leaves positions and trades alone, and at    *)
(* most fills in the balance of its user.                                  *)
LEMMA ProcessKeeps ==
  ASSUME BooksInv, NEW p \in P!Processes, NEW step \in P!ClientSteps \cup P!ConsumerSteps,
         pc' = [pc EXCEPT ![p] = step],
         p # Consumer => step \notin Booking \ {"create"},
         p = Consumer /\ step \in Booking => pc[p] \in Booking,
         seen' \in [P!Processes -> Int],
         cash' \in [Users -> Int \cup {Absent}],
         \A u \in Users : cash[u] # Absent => cash'[u] # Absent,
         p \in Buyers /\ step = "write" => cash'[Owner[p]] # Absent,
         p = Consumer /\ step \in {"cash", "position"} =>
             cash'[Owner[events[fetched].order]] # Absent,
         UNCHANGED <<quantity, trades, cashed, fetched, committed>>
  PROVE  PortfolioKept
  <1>1. BookTypes /\ TradeAtHand /\ AccountsAreThere /\ BookedTradesAreStored
    BY DEF BooksInv
  <1>2. pc \in [P!Processes -> P!ClientSteps \cup P!ConsumerSteps]
    BY <1>1 DEF BookTypes
  <1>3. /\ pc'[p] = step /\ \A q \in P!Processes \ {p} : pc'[q] = pc[q]
        /\ pc' \in [P!Processes -> P!ClientSteps \cup P!ConsumerSteps]
    BY <1>2
  <1>4. BookTypes'
    BY <1>1, <1>3 DEF BookTypes, P!Processes
  <1>5. RowsStay
    BY <1>1 DEF RowsStay
  <1>6. pc'[Consumer] \in Booking =>
          fetched' \in DOMAIN events /\ events[fetched'].type = "TRADE_EXECUTED"
    BY <1>1, <1>3, Types DEF TradeAtHand
  <1>7. \A o \in Buyers : pc'[o] = "write" => cash'[Owner[o]] # Absent
    BY <1>1, <1>3, Types DEF AccountsAreThere
  <1>8. pc'[Consumer] \in {"cash", "position"} => cash'[Owner[events[fetched'].order]] # Absent
    <2>1. ASSUME pc[Consumer] \in {"cash", "position"}
          PROVE  cash'[Owner[events[fetched].order]] # Absent
      BY <1>1, <2>1, Types, MessageTyped DEF AccountsAreThere, Booking
    <2> QED
      BY <1>1, <1>3, <2>1, Types
  <1>9. \A u \in Users, s \in Symbols : quantity'[<<u, s>>] # Absent => cash'[u] # Absent
    BY <1>1 DEF AccountsAreThere
  <1>10. \A o \in Orders : o \in trades' \/ cashed'[o] > 0 => row[o].trade # NoTrade
    BY <1>1 DEF BookedTradesAreStored
  <1> QED
    BY <1>4, <1>5, <1>6, <1>7, <1>8, <1>9, <1>10 DEF PortfolioKept

LEMMA SelectKeeps ==
  ASSUME BooksInv, NEW p \in Transfers \cup Buyers \cup {Consumer}, P!SelectPortfolio(p),
         p = Consumer => pc[p] = "get"
  PROVE  PortfolioKept
  <1>1. /\ BookTypes /\ p \in P!Processes
        /\ cash \in [Users -> Int \cup {Absent}] /\ seen \in [P!Processes -> Int]
    BY Types DEF BooksInv, BookTypes, P!Processes
  <1>2. P!UserOf(p) \in Users
    BY <1>1, Types, UserOfProcess DEF Booking
  <1>3. UNCHANGED <<cash, quantity, trades, cashed, fetched, committed>>
    BY DEF P!SelectPortfolio, P!tables, P!log, P!ghosts
  <1>4. CASE /\ cash[P!UserOf(p)] # Absent /\ seen' = [seen EXCEPT ![p] = cash[P!UserOf(p)]]
             /\ pc' = [pc EXCEPT ![p] = P!AfterGet(p)]
    <2>1. seen' \in [P!Processes -> Int]
      BY <1>1, <1>2, <1>4
    <2>2. P!AfterGet(p) = IF p = Consumer THEN "cash" ELSE "write"
      BY DEF P!AfterGet
    <2>3. /\ P!AfterGet(p) \in P!ClientSteps \cup P!ConsumerSteps
          /\ p # Consumer => P!AfterGet(p) \notin Booking \ {"create"}
      BY <2>2 DEF P!ClientSteps, P!ConsumerSteps, Booking
    <2>4. /\ p \in Buyers => cash[Owner[p]] # Absent
          /\ p = Consumer => cash[Owner[events[fetched].order]] # Absent /\ pc[p] \in Booking
      BY <1>4, UserOfProcess DEF Booking
    <2> QED
      BY <1>1, <1>3, <1>4, <2>1, <2>3, <2>4, ProcessKeeps
  <1>5. CASE UNCHANGED seen /\ \E step \in {"create", "idle", "done"} : pc' = [pc EXCEPT ![p] = step]
    <2>1. PICK step \in {"create", "idle", "done"} : pc' = [pc EXCEPT ![p] = step]
      BY <1>5
    <2>2. step \in P!ClientSteps \cup P!ConsumerSteps
      BY DEF P!ClientSteps, P!ConsumerSteps
    <2> QED
      BY <1>1, <1>3, <1>5, <2>1, <2>2, ProcessKeeps DEF Booking
  <1> QED
    BY <1>4, <1>5 DEF P!SelectPortfolio, P!Goto, P!Abandon, P!Respond

LEMMA CreateKeeps ==
  ASSUME BooksInv, NEW p \in Transfers \cup Buyers \cup {Consumer}, P!CreatePortfolio(p)
  PROVE  PortfolioKept
  <1>1. /\ BookTypes /\ p \in P!Processes /\ pc[p] = "create"
        /\ cash \in [Users -> Int \cup {Absent}] /\ seen \in [P!Processes -> Int]
    BY Types DEF BooksInv, BookTypes, P!Processes, P!CreatePortfolio
  <1>2. P!UserOf(p) \in Users
    BY <1>1, Types, UserOfProcess DEF Booking
  <1>3. UNCHANGED <<quantity, trades, cashed, fetched, committed>>
    BY DEF P!CreatePortfolio, P!log, P!ghosts
  <1>4. cash' = cash \/ cash' = [cash EXCEPT ![P!UserOf(p)] = 0]
    BY DEF P!CreatePortfolio
  <1>5. /\ cash' \in [Users -> Int \cup {Absent}]
        /\ \A u \in Users : cash[u] # Absent => cash'[u] # Absent
    BY <1>1, <1>2, <1>4, BooksAssumption
  <1>6. CASE /\ cash' = [cash EXCEPT ![P!UserOf(p)] = 0] /\ seen' = [seen EXCEPT ![p] = 0]
             /\ pc' = [pc EXCEPT ![p] = P!AfterGet(p)]
    <2>1. seen' \in [P!Processes -> Int]
      BY <1>1, <1>6
    <2>2. P!AfterGet(p) = IF p = Consumer THEN "cash" ELSE "write"
      BY DEF P!AfterGet
    <2>3. /\ P!AfterGet(p) \in P!ClientSteps \cup P!ConsumerSteps
          /\ p # Consumer => P!AfterGet(p) \notin Booking \ {"create"}
      BY <2>2 DEF P!ClientSteps, P!ConsumerSteps, Booking
    <2>4. cash'[P!UserOf(p)] # Absent
      BY <1>1, <1>2, <1>6, BooksAssumption
    <2>5. /\ p \in Buyers => cash'[Owner[p]] # Absent
          /\ p = Consumer => cash'[Owner[events[fetched].order]] # Absent /\ pc[p] \in Booking
      BY <1>1, <2>4, UserOfProcess DEF Booking
    <2> QED
      BY <1>1, <1>3, <1>5, <1>6, <2>1, <2>3, <2>5, ProcessKeeps
  <1>7. CASE UNCHANGED seen /\ \E step \in {"idle", "done"} : pc' = [pc EXCEPT ![p] = step]
    <2>1. PICK step \in {"idle", "done"} : pc' = [pc EXCEPT ![p] = step]
      BY <1>7
    <2>2. step \in P!ClientSteps \cup P!ConsumerSteps
      BY DEF P!ClientSteps, P!ConsumerSteps
    <2> QED
      BY <1>1, <1>3, <1>5, <1>7, <2>1, <2>2, ProcessKeeps DEF Booking
  <1> QED
    BY <1>6, <1>7 DEF P!CreatePortfolio, P!Goto, P!Abandon, P!Respond

(* A client that is told something is over; it may have moved its money.   *)
LEMMA ClientEnds ==
  ASSUME BooksInv, NEW c \in Transfers \cup Buyers, NEW a, P!Respond(c, a),
         UNCHANGED <<seen, quantity, trades, cashed, fetched, committed>>,
         cash' = cash \/ \E b \in Int : cash' = [cash EXCEPT ![P!UserOf(c)] = b]
  PROVE  PortfolioKept
  <1>1. /\ BookTypes /\ c \in P!Processes /\ c # Consumer
        /\ cash \in [Users -> Int \cup {Absent}] /\ seen \in [P!Processes -> Int]
    BY Types DEF BooksInv, BookTypes, P!Processes
  <1>2. P!UserOf(c) \in Users
    BY UserOfProcess
  <1>3. /\ cash' \in [Users -> Int \cup {Absent}]
        /\ \A u \in Users : cash[u] # Absent => cash'[u] # Absent
    BY <1>1, <1>2, BooksAssumption
  <1>4. pc' = [pc EXCEPT ![c] = "done"] /\ "done" \in P!ClientSteps
    BY DEF P!Respond, P!Goto, P!ClientSteps
  <1> QED
    BY <1>1, <1>3, <1>4, ProcessKeeps DEF Booking

LEMMA ClientKeeps ==
  ASSUME BooksInv, NEW c \in Transfers \cup Buyers, P!Begin(c) \/ P!Serve(c)
  PROVE  PortfolioKept
  <1>1. CASE P!SelectPortfolio(c)
    BY <1>1, SelectKeeps, Types DEF BooksInv
  <1>2. CASE P!CreatePortfolio(c)
    BY <1>2, CreateKeeps
  <1>3. CASE P!RefuseAmount(c) \/ P!ReturnBalance(c) \/ P!RefuseWithdrawal(c)
    BY <1>3, ClientEnds
    DEF P!RefuseAmount, P!ReturnBalance, P!RefuseWithdrawal, P!tables, P!log, P!ghosts
  <1>4. CASE P!WriteBalance(c)
    <2>1. c \in Transfers \ Buyers /\ P!UserOf(c) = Transfer[c].account /\ Transfer[c].amount \in Int
      BY <1>4, BooksAssumption DEF P!WriteBalance, P!UserOf
    <2>2. P!NewBalance(c) \in Int
      BY <2>1, Types DEF P!NewBalance, BooksInv, BookTypes
    <2>3. cash' = cash \/ cash' = [cash EXCEPT ![P!UserOf(c)] = P!NewBalance(c)]
      BY <1>4, <2>1 DEF P!WriteBalance
    <2>4. UNCHANGED <<seen, quantity, trades, cashed, fetched, committed>>
      BY <1>4 DEF P!WriteBalance, P!log
    <2>5. P!Respond(c, "ok") \/ P!Respond(c, "INTERNAL_ERROR")
      BY <1>4 DEF P!WriteBalance
    <2> QED
      BY <2>2, <2>3, <2>4, <2>5, ClientEnds
  <1> QED
    BY <1>1, <1>2, <1>3, <1>4 DEF P!Begin, P!Serve

-----------------------------------------------------------------------------
(* The consumer                                                            *)

(* P's topic is as long as the events it decodes.                          *)
LEMMA DecodedTopic ==
  ASSUME BooksInv
  PROVE  LET t == [i \in DOMAIN events |-> Decoded(events[i])]
         IN /\ Len(t) = Len(events) /\ Len(events) \in Nat /\ DOMAIN events = 1..Len(events)
            /\ \A i \in DOMAIN events : t[i].type = events[i].type
  <1> DEFINE t == [i \in DOMAIN events |-> Decoded(events[i])]
  <1>1. Len(events) \in Nat /\ DOMAIN events = 1..Len(events)
    BY LenProperties DEF BooksInv, TP!OrderInv, TP!TypeOK
  <1>2. t \in Seq({Decoded(events[i]) : i \in DOMAIN events}) /\ DOMAIN t = 1..Len(events)
    BY <1>1, IsASeq
  <1>3. Len(t) = Len(events)
    BY <1>1, <1>2, LenProperties
  <1>4. \A i \in DOMAIN events : t[i].type = events[i].type
    BY DEF Decoded
  <1> QED
    BY <1>1, <1>3, <1>4

LEMMA ReadKeeps ==
  ASSUME BooksInv, P!ReadMessage \/ P!CommitFails
  PROVE  PortfolioKept
  <1> DEFINE t == [i \in DOMAIN events |-> Decoded(events[i])]
  <1>1. /\ BookTypes /\ AccountsAreThere /\ BookedTradesAreStored
        /\ pc \in [P!Processes -> P!ClientSteps \cup P!ConsumerSteps] /\ fetched \in Nat
    BY DEF BooksInv, BookTypes
  <1>2. /\ fetched < Len(t) /\ fetched' = fetched + 1
        /\ committed' \in {committed, fetched + 1}
        /\ UNCHANGED <<cash, quantity, trades, seen, cashed>>
    BY DEF P!ReadMessage, P!CommitFails, P!tables, P!ghosts
  <1>3. fetched + 1 \in DOMAIN events /\ t[fetched + 1].type = events[fetched + 1].type
    BY <1>1, <1>2, DecodedTopic
  <1>4. \E step \in {"idle", "order", "status"} :
           /\ pc' = [pc EXCEPT ![Consumer] = step]
           /\ step = "order" => t[fetched + 1].type = "TRADE_EXECUTED"
    <2>1. CASE P!ReadMessage
      BY <2>1 DEF P!ReadMessage, P!Goto
    <2>2. CASE P!CommitFails
      <3>1. pc' = pc /\ pc[Consumer] = "idle"
        BY <2>2 DEF P!CommitFails
      <3> QED
        BY <1>1, <3>1
    <2> QED
      BY <2>1, <2>2
  <1> HIDE DEF t
  <1>5. /\ pc'[Consumer] \in {"idle", "order", "status"}
        /\ pc'[Consumer] = "order" => t[fetched + 1].type = "TRADE_EXECUTED"
        /\ pc' \in [P!Processes -> P!ClientSteps \cup P!ConsumerSteps]
        /\ \A o \in Buyers : pc'[o] = pc[o]
    BY <1>1, <1>4, Types DEF P!ClientSteps, P!ConsumerSteps
  <1>6. BookTypes'
    BY <1>1, <1>2, <1>5 DEF BookTypes, P!Processes
  <1>7. \A o \in Orders : o \in trades' \/ cashed'[o] > 0 => row[o].trade # NoTrade
    BY <1>1, <1>2 DEF BookedTradesAreStored
  <1>8. \A o \in Buyers : pc'[o] = "write" => cash'[Owner[o]] # Absent
    BY <1>1, <1>2, <1>5 DEF AccountsAreThere
  <1>9. \A u \in Users, s \in Symbols : quantity'[<<u, s>>] # Absent => cash'[u] # Absent
    BY <1>1, <1>2 DEF AccountsAreThere
  <1> QED
    BY <1>2, <1>3, <1>5, <1>6, <1>7, <1>8, <1>9 DEF PortfolioKept, RowsStay, Booking

(* The statements of the consumer on tables of its own.                    *)
LEMMA OwnTablesKeep ==
  ASSUME BooksInv, P!UpdateOrderStatus \/ P!InsertOrder \/ P!InsertTrade
  PROVE  PortfolioKept
  <1>1. /\ BookTypes /\ Consumer \in P!Processes
        /\ cash \in [Users -> Int \cup {Absent}] /\ seen \in [P!Processes -> Int]
    BY Types DEF BooksInv, BookTypes
  <1>2. CASE P!UpdateOrderStatus \/ P!InsertOrder
    <2>1. \E step \in {"idle", "trade"} :
             /\ pc' = [pc EXCEPT ![Consumer] = step]
             /\ step = "trade" => pc[Consumer] = "order"
      BY <1>2 DEF P!UpdateOrderStatus, P!InsertOrder, P!Goto
    <2>2. UNCHANGED <<cash, quantity, trades, seen, cashed, fetched, committed>>
      BY <1>2 DEF P!UpdateOrderStatus, P!InsertOrder, P!log, P!ghosts
    <2>3. {"idle", "trade"} \subseteq P!ClientSteps \cup P!ConsumerSteps
      BY DEF P!ClientSteps, P!ConsumerSteps
    <2> QED
      BY <1>1, <2>1, <2>2, <2>3, Types, ProcessKeeps DEF Booking
  <1>3. CASE P!InsertTrade
    <2>1. pc[Consumer] \in Booking /\ pc[Consumer] = "trade"
      BY <1>3 DEF P!InsertTrade, Booking
    <2>2. \E step \in {"idle", "get"} : pc' = [pc EXCEPT ![Consumer] = step]
      BY <1>3 DEF P!InsertTrade, P!Goto, P!Abandon
    <2>3. /\ UNCHANGED <<cash, quantity, seen, cashed, fetched, committed>>
          /\ trades' \in {trades, trades \cup {events[fetched].order}}
      BY <1>3, <2>1, MessageTyped DEF P!InsertTrade, P!log, P!ghosts
    <2>4. /\ pc'[Consumer] \in {"idle", "get"} /\ \A o \in Buyers : pc'[o] = pc[o]
          /\ pc' \in [P!Processes -> P!ClientSteps \cup P!ConsumerSteps]
      BY <1>1, <2>2, Types DEF BookTypes, P!ClientSteps, P!ConsumerSteps
    <2>5. BookTypes'
      BY <1>1, <2>3, <2>4 DEF BookTypes, P!Processes
    <2>6. \A o \in Orders : o \in trades' \/ cashed'[o] > 0 => row[o].trade # NoTrade
      BY <2>1, <2>3, MessageTyped DEF BooksInv, BookedTradesAreStored
    <2>7. fetched \in DOMAIN events /\ events[fetched].type = "TRADE_EXECUTED"
      BY <2>1, MessageTyped
    <2>8. /\ \A o \in Buyers : pc'[o] = "write" => cash'[Owner[o]] # Absent
          /\ \A u \in Users, s \in Symbols : quantity'[<<u, s>>] # Absent => cash'[u] # Absent
      BY <2>3, <2>4 DEF BooksInv, AccountsAreThere
    <2> QED
      BY <2>3, <2>4, <2>5, <2>6, <2>7, <2>8 DEF PortfolioKept, RowsStay
  <1> QED
    BY <1>2, <1>3

LEMMA CashKeeps ==
  ASSUME BooksInv, P!UpdateCash
  PROVE  PortfolioKept
  <1> DEFINE o == events[fetched].order
             new == seen[Consumer] + P!Signed(P!Event)
  <1>1. /\ pc[Consumer] \in Booking /\ pc[Consumer] = "cash"
        /\ BookTypes /\ Consumer \in P!Processes
        /\ pc \in [P!Processes -> P!ClientSteps \cup P!ConsumerSteps]
        /\ cash \in [Users -> Int \cup {Absent}] /\ seen \in [P!Processes -> Int]
        /\ cashed \in [Orders -> Nat]
    BY Types DEF P!UpdateCash, Booking, BooksInv, BookTypes
  <1>2. /\ fetched \in DOMAIN events /\ events[fetched].type = "TRADE_EXECUTED"
        /\ P!Event.order = o /\ o \in Orders /\ Owner[o] \in Users /\ row[o].trade # NoTrade
        /\ P!Event.gross \in Int
    BY <1>1, MessageTyped, Types
  <1>3. new \in Int
    BY <1>1, <1>2 DEF P!Signed
  <1>4. \E step \in {"idle", "position"} : pc' = [pc EXCEPT ![Consumer] = step]
    BY DEF P!UpdateCash, P!Goto, P!Abandon
  <1>5. /\ UNCHANGED <<quantity, trades, seen, fetched, committed>>
        /\ cash' = cash \/ cash' = [cash EXCEPT ![Owner[o]] = new]
        /\ cashed' = cashed \/ cashed' = [cashed EXCEPT ![o] = @ + 1]
    BY <1>2 DEF P!UpdateCash, P!log
  <1> HIDE DEF new, o
  <1>6. /\ cash' \in [Users -> Int \cup {Absent}]
        /\ \A u \in Users : cash[u] # Absent => cash'[u] # Absent
    BY <1>1, <1>2, <1>3, <1>5, BooksAssumption
  <1>7. /\ cashed' \in [Orders -> Nat]
        /\ \A x \in Orders : cashed'[x] > 0 => cashed[x] > 0 \/ x = o
    BY <1>1, <1>2, <1>5
  <1>8. /\ pc'[Consumer] \in {"idle", "position"} /\ \A b \in Buyers : pc'[b] = pc[b]
        /\ pc' \in [P!Processes -> P!ClientSteps \cup P!ConsumerSteps]
    BY <1>1, <1>4, Types DEF P!ClientSteps, P!ConsumerSteps
  <1>9. BookTypes'
    BY <1>1, <1>5, <1>6, <1>7, <1>8 DEF BookTypes, P!Processes
  <1>10. \A x \in Orders : x \in trades' \/ cashed'[x] > 0 => row[x].trade # NoTrade
    BY <1>2, <1>5, <1>7 DEF BooksInv, BookedTradesAreStored
  <1>11. /\ \A b \in Buyers : pc'[b] = "write" => cash'[Owner[b]] # Absent
         /\ \A u \in Users, s \in Symbols : quantity'[<<u, s>>] # Absent => cash'[u] # Absent
    BY <1>1, <1>5, <1>6, <1>8, Types DEF BooksInv, AccountsAreThere
  <1>12. cash'[Owner[events[fetched'].order]] # Absent
    BY <1>1, <1>2, <1>5, <1>6 DEF BooksInv, AccountsAreThere, o
  <1> QED
    BY <1>2, <1>5, <1>6, <1>8, <1>9, <1>10, <1>11, <1>12 DEF PortfolioKept, RowsStay

LEMMA PositionKeeps ==
  ASSUME BooksInv, P!UpdatePosition
  PROVE  PortfolioKept
  <1> DEFINE o == events[fetched].order
             p == <<Owner[o], Symbol[o]>>
  <1>1. /\ pc[Consumer] \in Booking /\ pc[Consumer] = "position"
        /\ BookTypes /\ Consumer \in P!Processes
        /\ pc \in [P!Processes -> P!ClientSteps \cup P!ConsumerSteps]
        /\ quantity \in [Users \X Symbols -> Nat \cup {Absent}]
    BY Types DEF P!UpdatePosition, Booking, BooksInv, BookTypes
  <1>2. /\ P!Event.order = o /\ o \in Orders /\ Owner[o] \in Users /\ Symbol[o] \in Symbols
        /\ Qty[o] \in Nat
    BY <1>1, MessageTyped, Types, BooksAssumption
  <1>3. pc' = [pc EXCEPT ![Consumer] = "idle"]
    BY DEF P!UpdatePosition, P!Goto
  <1>4. UNCHANGED <<cash, trades, seen, cashed, fetched, committed>>
    BY DEF P!UpdatePosition, P!log
  <1>5. \/ quantity' = quantity
        \/ /\ quantity' = [quantity EXCEPT ![p] = P!Positioned(quantity[p], o)]
           /\ Side[o] = "BUY" \/ quantity[p] # Absent
    BY <1>2 DEF P!UpdatePosition
  <1>6. cash[Owner[o]] # Absent
    BY <1>1 DEF BooksInv, AccountsAreThere
  <1> HIDE DEF o
  <1>7. Side[o] = "BUY" \/ quantity[p] # Absent => P!Positioned(quantity[p], o) \in Nat
    BY <1>1, <1>2, BooksAssumption DEF P!Positioned
  <1>8. /\ quantity' \in [Users \X Symbols -> Nat \cup {Absent}]
        /\ \A q \in Users \X Symbols :
              /\ quantity[q] # Absent => quantity'[q] # Absent
              /\ quantity'[q] # Absent => quantity[q] # Absent \/ q = p
    BY <1>1, <1>2, <1>5, <1>7, BooksAssumption
  <1>9. /\ pc'[Consumer] = "idle" /\ \A b \in Buyers : pc'[b] = pc[b]
        /\ pc' \in [P!Processes -> P!ClientSteps \cup P!ConsumerSteps]
    BY <1>1, <1>3, Types DEF P!ClientSteps, P!ConsumerSteps
  <1>10. BookTypes'
    BY <1>1, <1>4, <1>8, <1>9 DEF BookTypes, P!Processes
  <1>11. \A x \in Orders : x \in trades' \/ cashed'[x] > 0 => row[x].trade # NoTrade
    BY <1>4 DEF BooksInv, BookedTradesAreStored
  <1>12. /\ \A b \in Buyers : pc'[b] = "write" => cash'[Owner[b]] # Absent
         /\ \A u \in Users, s \in Symbols : quantity'[<<u, s>>] # Absent => cash'[u] # Absent
    BY <1>4, <1>6, <1>8, <1>9 DEF BooksInv, AccountsAreThere
  <1> QED
    BY <1>4, <1>8, <1>9, <1>10, <1>11, <1>12 DEF PortfolioKept, RowsStay, Booking

LEMMA RestartKeeps ==
  ASSUME BooksInv, P!Restart
  PROVE  PortfolioKept
  <1>1. /\ BookTypes /\ Consumer \in P!Processes
        /\ pc \in [P!Processes -> P!ClientSteps \cup P!ConsumerSteps]
    BY Types DEF BooksInv, BookTypes
  <1>2. /\ UNCHANGED <<cash, quantity, trades, seen, cashed, committed>> /\ fetched' = committed
        /\ pc'[Consumer] = "idle"
        /\ \A q \in P!Processes : pc'[q] \in {"idle", "done", pc[q]}
        /\ DOMAIN pc' = P!Processes /\ pc' = [q \in P!Processes |-> pc'[q]]
    BY <1>1 DEF P!Restart, P!tables, P!ghosts
  <1>3. pc' \in [P!Processes -> P!ClientSteps \cup P!ConsumerSteps]
    BY <1>1, <1>2 DEF P!ClientSteps, P!ConsumerSteps
  <1>4. BookTypes'
    BY <1>1, <1>2, <1>3 DEF BookTypes, P!Processes
  <1>5. \A x \in Orders : x \in trades' \/ cashed'[x] > 0 => row[x].trade # NoTrade
    BY <1>2 DEF BooksInv, BookedTradesAreStored
  <1>6. /\ \A b \in Buyers : pc'[b] = "write" => cash'[Owner[b]] # Absent
        /\ \A u \in Users, s \in Symbols : quantity'[<<u, s>>] # Absent => cash'[u] # Absent
    BY <1>1, <1>2, Types DEF BooksInv, AccountsAreThere
  <1> QED
    BY <1>2, <1>4, <1>5, <1>6 DEF PortfolioKept, RowsStay, Booking

(* Every step of portfolio-service.                                        *)
LEMMA PortfolioKeeps ==
  ASSUME BooksInv,
         \/ \E c \in Transfers \cup Buyers : P!Begin(c) \/ P!Serve(c)
         \/ P!Consume \/ P!Restart \/ UNCHANGED portfolioVars
  PROVE  PortfolioKept
  <1>1. CASE P!GetTrader
    BY <1>1, SelectKeeps DEF P!GetTrader
  <1>2. CASE UNCHANGED portfolioVars
    BY <1>2 DEF portfolioVars, BooksInv, BookTypes, TradeAtHand, AccountsAreThere,
                BookedTradesAreStored, PortfolioKept, RowsStay, P!Processes
  <1> QED
    BY <1>1, <1>2, ClientKeeps, CreateKeeps, ReadKeeps, OwnTablesKeep, CashKeeps, PositionKeeps,
       RestartKeeps
    DEF P!Consume

-----------------------------------------------------------------------------
(* The order history                                                       *)

(* What every step keeps of it, whatever trading-service does in the same  *)
(* step.                                                                   *)
HistoryKept ==
    /\ HistoryTyped'
    /\ pc'[Consumer] = "status" =>
          fetched' \in DOMAIN events /\ events[fetched'].type # "TRADE_EXECUTED"
    /\ \A o \in Orders :
          history'[o] # Absent => row[o].trade # NoTrade /\ history'[o] # "REJECTED"

(* The consumer turns to a message that is not a trade.                    *)
LEMMA ReadKeepsHistory ==
  ASSUME BooksInv, P!ReadMessage
  PROVE  HistoryKept
  <1> DEFINE t == [i \in DOMAIN events |-> Decoded(events[i])]
  <1>1. /\ pc \in [P!Processes -> P!ClientSteps \cup P!ConsumerSteps] /\ fetched \in Nat
        /\ Consumer \in P!Processes
    BY Types DEF BooksInv, BookTypes
  <1>2. /\ fetched < Len(t) /\ fetched' = fetched + 1 /\ history' = history
        /\ pc' = [pc EXCEPT ![Consumer] =
                     IF t[fetched + 1].type = "TRADE_EXECUTED" THEN "order" ELSE "status"]
    BY DEF P!ReadMessage, P!tables, P!Goto
  <1>3. fetched + 1 \in DOMAIN events /\ t[fetched + 1].type = events[fetched + 1].type
    BY <1>1, <1>2, DecodedTopic
  <1> HIDE DEF t
  <1>4. pc'[Consumer] = "status" => events[fetched + 1].type # "TRADE_EXECUTED"
    BY <1>1, <1>2, <1>3
  <1> QED
    BY <1>2, <1>3, <1>4 DEF HistoryKept, HistoryTyped, BooksInv, BookedTradesAreStored

(* The row of a trade is there before its order enters the history.        *)
LEMMA InsertKeepsHistory ==
  ASSUME BooksInv, P!InsertOrder
  PROVE  HistoryKept
  <1> DEFINE o == events[fetched].order
  <1>1. /\ pc[Consumer] \in Booking /\ pc' = [pc EXCEPT ![Consumer] = "trade"]
        /\ pc \in [P!Processes -> P!ClientSteps \cup P!ConsumerSteps]
        /\ history \in [Orders -> P!Statuses \cup {Absent}] /\ Consumer \in P!Processes
    BY Types DEF P!InsertOrder, P!Goto, Booking, BooksInv, BookTypes, HistoryTyped
  <1>2. P!Event.order = o /\ o \in Orders /\ row[o].trade # NoTrade
    BY <1>1, MessageTyped
  <1>3. \/ history' = history
        \/ history' = [history EXCEPT ![o] = IF @ = Absent THEN "FILLED" ELSE @]
    BY <1>2 DEF P!InsertOrder
  <1> HIDE DEF o
  <1>4. /\ HistoryTyped'
        /\ \A x \in Orders : history'[x] = history[x] \/ (x = o /\ history'[x] = "FILLED")
    BY <1>1, <1>2, <1>3 DEF HistoryTyped, P!Statuses
  <1>5. pc'[Consumer] # "status"
    BY <1>1
  <1> QED
    BY <1>2, <1>4, <1>5, BooksAssumption
    DEF HistoryKept, BooksInv, BookedTradesAreStored

(* A rejected order was not traded, so it has no row to become REJECTED.   *)
LEMMA StatusKeepsHistory ==
  ASSUME BooksInv, P!UpdateOrderStatus
  PROVE  HistoryKept
  <1> DEFINE e == events[fetched]
  <1>1. /\ pc[Consumer] = "status" /\ pc' = [pc EXCEPT ![Consumer] = "idle"]
        /\ pc \in [P!Processes -> P!ClientSteps \cup P!ConsumerSteps]
        /\ history \in [Orders -> P!Statuses \cup {Absent}] /\ Consumer \in P!Processes
    BY Types DEF P!UpdateOrderStatus, P!Goto, BooksInv, BookTypes, HistoryTyped
  <1>2. fetched \in DOMAIN events /\ e.type # "TRADE_EXECUTED"
    BY <1>1 DEF BooksInv, StatusAtHand
  <1>3. e \in TP!Events
    BY <1>2, SameAssumptions, TP!TopicElement DEF BooksInv, TP!OrderInv
  <1>4. P!Event.order = e.order /\ P!Event.type = e.type
    BY <1>2 DEF P!Event, Decoded
  <1>5. /\ e.order \in Orders
        /\ e.type \in {"ORDER_FILLED", "ORDER_REJECTED", "ORDER_CANCELLED"}
    BY <1>2, <1>3 DEF TP!Events
  <1>6. e.type = "ORDER_REJECTED" => history[e.order] = Absent
    <2> SUFFICES ASSUME e.type = "ORDER_REJECTED" PROVE history[e.order] = Absent
      OBVIOUS
    <2>1. TP!Verdict(e.order) \in TP!Reasons
      BY <1>2 DEF BooksInv, TP!OrderInv, TP!TopicFollowsRow, TP!Agrees
    <2>2. row[e.order].trade = NoTrade
      BY <1>5, <2>1 DEF BooksInv, TP!OrderInv, TP!RowFollowsVerdict, TP!Reasons
    <2> QED
      BY <1>5, <2>2 DEF BooksInv, BookedTradesAreStored
  <1>7. \/ history' = history
        \/ history' = [history EXCEPT ![e.order] =
                          IF @ = Absent THEN Absent ELSE P!StatusOf(e.type)]
    BY <1>4 DEF P!UpdateOrderStatus
  <1>8. /\ P!StatusOf(e.type) \in P!Statuses
        /\ e.type # "ORDER_REJECTED" => P!StatusOf(e.type) # "REJECTED"
    BY <1>5 DEF P!StatusOf, P!Statuses
  <1> HIDE DEF e
  <1>9. /\ HistoryTyped'
        /\ \A x \in Orders :
              \/ history'[x] = history[x]
              \/ history[x] # Absent /\ history'[x] # "REJECTED"
    BY <1>1, <1>5, <1>6, <1>7, <1>8 DEF HistoryTyped
  <1>10. pc'[Consumer] # "status"
    BY <1>1
  <1> QED
    BY <1>9, <1>10 DEF HistoryKept, BooksInv, BookedTradesAreStored

LEMMA StepKeepsHistory ==
  ASSUME BooksInv, [Next]_vars
  PROVE  HistoryKept
  <1>1. /\ pc \in [P!Processes -> P!ClientSteps \cup P!ConsumerSteps]
        /\ Consumer \in P!Processes /\ Consumer \notin Buyers \cup Transfers
    BY Types DEF BooksInv, BookTypes
  <1>2. ASSUME history' = history,
               pc'[Consumer] = "status" => pc[Consumer] = "status" /\ fetched' = fetched
        PROVE  HistoryKept
    BY <1>2 DEF HistoryKept, BooksInv, HistoryTyped, StatusAtHand, BookedTradesAreStored
  <1>3. ASSUME NEW c \in Transfers \cup Buyers, P!Begin(c) \/ P!Serve(c) PROVE HistoryKept
    <2>1. UNCHANGED <<history, fetched>>
      BY <1>3 DEF P!Begin, P!Serve, P!RefuseAmount, P!SelectPortfolio, P!CreatePortfolio,
                  P!ReturnBalance, P!RefuseWithdrawal, P!WriteBalance, P!tables, P!log
    <2>2. \E step : pc' = [pc EXCEPT ![c] = step]
      BY <1>1, <1>3
      DEF P!Begin, P!Serve, P!RefuseAmount, P!SelectPortfolio, P!CreatePortfolio, P!ReturnBalance,
          P!RefuseWithdrawal, P!WriteBalance, P!Respond, P!Goto, P!Abandon
    <2>3. pc'[Consumer] = pc[Consumer]
      BY <1>1, <2>2
    <2> QED
      BY <1>2, <2>1, <2>3
  <1>4. CASE P!CommitFails
    BY <1>2, <1>4 DEF P!CommitFails, P!tables
  <1>5. CASE P!InsertTrade \/ P!GetTrader \/ P!CreatePortfolio(Consumer)
    <2>1. history' = history
      BY <1>5 DEF P!InsertTrade, P!GetTrader, P!SelectPortfolio, P!CreatePortfolio, P!tables
    <2>2. \E step \in {"idle", "get", "create", "cash"} : pc' = [pc EXCEPT ![Consumer] = step]
      BY <1>5 DEF P!InsertTrade, P!GetTrader, P!SelectPortfolio, P!CreatePortfolio, P!Goto,
                  P!Abandon, P!AfterGet
    <2> QED
      BY <1>1, <1>2, <2>1, <2>2
  <1>6. CASE P!UpdateCash \/ P!UpdatePosition
    <2>1. history' = history
      BY <1>6 DEF P!UpdateCash, P!UpdatePosition
    <2>2. \E step \in {"idle", "position"} : pc' = [pc EXCEPT ![Consumer] = step]
      BY <1>6 DEF P!UpdateCash, P!UpdatePosition, P!Goto, P!Abandon
    <2> QED
      BY <1>1, <1>2, <2>1, <2>2
  <1>7. CASE P!Restart
    BY <1>1, <1>2, <1>7 DEF P!Restart, P!tables
  <1>8. CASE P!Consume
    BY <1>4, <1>5, <1>6, <1>8, ReadKeepsHistory, InsertKeepsHistory, StatusKeepsHistory
    DEF P!Consume
  <1>9. CASE UNCHANGED portfolioVars
    BY <1>2, <1>9 DEF portfolioVars
  <1> QED
    BY <1>3, <1>7, <1>8, <1>9
    DEF Next, Step, TradingStep, PortfolioStep, CallBalance, BalanceArrives, SharesArrive, CallFails,
        P!Serve, vars, portfolioVars

-----------------------------------------------------------------------------
(* The two together                                                        *)

(* The answer of portfolio-service is one trading-service reckons with.    *)
LEMMA AnswerIsTrading ==
  ASSUME AnyBalance, NEW o \in Orders, NEW reply \in Int, T!PortfolioAnswers(o, reply)
  PROVE  TP!Next
  BY SamePortfolio DEF AnyBalance, TP!Next, TP!HandleOrder

LEMMA StepIsTrading ==
  ASSUME AnyBalance, BooksInv, [Next]_vars
  PROVE  [TP!Next]_(TP!vars)
  <1> USE DEF TP!Next, TP!HandleOrder, TP!Requests
  <1>1. CASE UNCHANGED tradingVars
    BY <1>1 DEF tradingVars, TP!vars
  <1>2. CASE TradingStep
    BY <1>2, SameCreate, SameMarket, SameFail, SameReject, SameFill, SameCancel, SamePublish, SameCrash
    DEF TradingStep
  <1>3. ASSUME NEW o \in Orders, CallFails(o) PROVE TP!Next
    BY <1>3, SamePortfolio DEF CallFails
  <1>4. ASSUME NEW o \in Orders, SharesArrive(o) PROVE TP!Next
    <2>1. SharesOf(o) \in Int
      BY Types DEF SharesOf, BooksInv, BookTypes
    <2>2. \E reply \in Int : T!PortfolioAnswers(o, reply)
      BY <1>4, <2>1 DEF SharesArrive, T!PortfolioAnswers
    <2> QED
      BY <2>2, AnswerIsTrading
  <1>5. ASSUME NEW o \in Buyers, BalanceArrives(o) PROVE TP!Next \/ UNCHANGED tradingVars
    <2>1. seen[o] \in Int /\ o \in Orders
      BY Types DEF BooksInv, BookTypes
    <2>2. CASE Waiting(o)
      <3>1. \E reply \in Int : T!PortfolioAnswers(o, reply)
        BY <1>5, <2>1, <2>2 DEF BalanceArrives, T!PortfolioAnswers
      <3> QED
        BY <2>1, <3>1, AnswerIsTrading
    <2> QED
      BY <1>5, <2>2 DEF BalanceArrives
  <1> QED
    BY <1>1, <1>2, <1>3, <1>4, <1>5 DEF Next, Step, PortfolioStep, CallBalance, vars, tradingVars

LEMMA StepIsPortfolio ==
  ASSUME BooksInv, [Next]_vars
  PROVE  PortfolioKept
  BY PortfolioKeeps
  DEF Next, Step, TradingStep, PortfolioStep, CallBalance, BalanceArrives, SharesArrive, CallFails,
      P!Serve, vars, portfolioVars

(* Where the answer an order waits for may come from.                      *)
LEMMA AnswerComes ==
  ASSUME BooksInv, [Next]_vars, NEW o \in Orders, portfolio'[o] # portfolio[o]
  PROVE  \/ portfolio'[o] = Failed
         \/ o \in Buyers /\ pc[o] = "write" /\ portfolio'[o] = seen[o] /\ UNCHANGED cash
         \/ o \notin Buyers /\ portfolio'[o] = SharesOf(o)
  <1>0. portfolio' # portfolio /\ portfolio = [x \in Orders |-> portfolio[x]]
    BY DEF BooksInv, TP!OrderInv, TP!TypeOK
  <1>1. ASSUME NEW x \in Orders, NEW reply, portfolio' = [portfolio EXCEPT ![x] = reply]
        PROVE  x = o /\ portfolio'[o] = reply
    BY <1>0, <1>1
  <1>2. ASSUME NEW x \in Orders, CallFails(x) PROVE portfolio'[o] = Failed
    BY <1>1, <1>2 DEF CallFails, T!PortfolioAnswers
  <1>3. ASSUME NEW x \in Orders, SharesArrive(x)
        PROVE  o \notin Buyers /\ portfolio'[o] = SharesOf(o)
    <2>1. x = o /\ x \notin Buyers
      BY <1>0, <1>3 DEF SharesArrive, T!PortfolioAnswers
    <2> QED
      BY <1>0, <1>3, <2>1 DEF SharesArrive, T!PortfolioAnswers
  <1>4. ASSUME NEW x \in Buyers, BalanceArrives(x)
        PROVE  o \in Buyers /\ pc[o] = "write" /\ portfolio'[o] = seen[o] /\ UNCHANGED cash
    <2>1. pc[x] = "write" /\ x \in Orders /\ UNCHANGED cash
      BY <1>4 DEF BalanceArrives, P!ReturnBalance, P!tables, Buyers
    <2>2. portfolio' = [portfolio EXCEPT ![x] = seen[x]]
      BY <1>0, <1>4, <2>1 DEF BalanceArrives, T!PortfolioAnswers, tradingVars
    <2>3. x = o /\ portfolio'[o] = seen[x]
      BY <1>1, <2>1, <2>2
    <2> QED
      BY <1>4, <2>1, <2>3
  <1>5. CASE TradingStep
    BY <1>0, <1>5 DEF TradingStep, T!CreateOrder, T!MarketAnswers, T!FailOrder, T!RejectOrder,
                      T!FillOrder, T!ReadForCancel, T!CancelOrder, T!Publish, T!PublishStatus,
                      T!PublishTrade, T!Crash
  <1> QED
    BY <1>0, <1>2, <1>3, <1>4, <1>5
    DEF Next, Step, PortfolioStep, CallBalance, vars, tradingVars

LEMMA BooksStep ==
  ASSUME AnyBalance, BooksInv, [Next]_vars
  PROVE  BooksInv'
  <1>1. TP!OrderInv /\ TP!TypeOK /\ [TP!Next]_(TP!vars)
    BY StepIsTrading DEF BooksInv, TP!OrderInv
  <1>2. TP!OrderInv' /\ TP!Kept
    BY <1>1, SameAssumptions, TP!NextStep
  <1>3. /\ \A o \in Orders : row[o].trade # NoTrade => row'[o].trade # NoTrade
        /\ \A i \in DOMAIN events : i \in DOMAIN events' /\ events'[i] = events[i]
    BY <1>1, <1>2, SameAssumptions, TP!TopicGrows DEF TP!Kept
  <1>4. PortfolioKept
    BY StepIsPortfolio
  <1>5. BookTypes' /\ TradeAtHand'
    BY <1>3, <1>4 DEF PortfolioKept, TradeAtHand
  <1>h1. HistoryKept
    BY StepKeepsHistory
  <1>h2. HistoryTyped' /\ StatusAtHand'
    BY <1>3, <1>h1 DEF HistoryKept, StatusAtHand
  <1>6. AccountsAreThere'
    BY <1>3, <1>4 DEF PortfolioKept, AccountsAreThere, Booking
  <1>7. BookedTradesAreStored'
    BY <1>3, <1>4, <1>h1 DEF PortfolioKept, HistoryKept, BookedTradesAreStored
  <1>8. \A o \in Orders : FindsItsRows(o) => FindsItsRows(o)'
    BY <1>4, Types DEF PortfolioKept, RowsStay, FindsItsRows, BooksInv
  <1>9. ASSUME NEW o \in Orders, portfolio'[o] \notin {Pending, Failed},
               Side[o] = "SELL" => portfolio'[o] > 0
        PROVE  FindsItsRows(o)'
    <2>1. CASE portfolio'[o] = portfolio[o]
      BY <1>8, <1>9, <2>1 DEF BooksInv, AnswersFindRows
    <2>2. CASE o \in Buyers /\ pc[o] = "write"
      BY <1>8, <2>2 DEF BooksInv, AccountsAreThere, FindsItsRows, Buyers
    <2>3. CASE o \notin Buyers /\ portfolio'[o] = SharesOf(o)
      <3>1. Side[o] = "SELL" /\ SharesOf(o) > 0
        BY <1>9, <2>3, Types DEF Buyers, BooksInv
      <3>2. quantity[<<Owner[o], Symbol[o]>>] # Absent
        BY <3>1 DEF SharesOf
      <3>3. cash[Owner[o]] # Absent
        BY <3>2, Types DEF BooksInv, AccountsAreThere
      <3> QED
        BY <1>8, <3>2, <3>3 DEF FindsItsRows
    <2> QED
      BY <1>9, <2>1, <2>2, <2>3, AnswerComes
  <1>10. ASSUME NEW o \in Orders, row'[o].trade # NoTrade PROVE FindsItsRows(o)'
    <2>1. CASE row[o].trade # NoTrade
      BY <1>8, <2>1 DEF BooksInv, TradesFindRows
    <2>2. CASE row[o].trade = NoTrade
      <3>1. TP!FillOrder(o)
        BY <1>1, <1>10, <2>2, SameAssumptions, TP!OnlyFillsTrade
      <3>2. portfolio[o] \notin {Pending, Failed} /\ TP!Covered(o)
        BY <1>1, <3>1, SameAssumptions, TP!FillIsCovered
      <3>3. Side[o] = "SELL" => portfolio[o] > 0
        <4>1. Side[o] = "SELL" => portfolio[o] >= Qty[o]
          BY <3>2 DEF TP!Covered
        <4>2. portfolio[o] \in Int /\ Qty[o] \in Nat \ {0}
          BY <1>1, <3>2, BooksAssumption DEF TP!TypeOK, AnyBalance
        <4> QED
          BY <4>1, <4>2
      <3> QED
        BY <1>8, <3>2, <3>3 DEF BooksInv, AnswersFindRows
    <2> QED
      BY <2>1, <2>2
  <1> QED
    BY <1>2, <1>5, <1>h2, <1>6, <1>7, <1>9, <1>10 DEF BooksInv, AnswersFindRows, TradesFindRows

LEMMA InitEstablishes == Init => BooksInv
  <1> SUFFICES ASSUME Init PROVE BooksInv
    OBVIOUS
  <1>1. TP!OrderInv
    BY SameInit, SameAssumptions, TP!InitEstablishes DEF Init
  <1>2. BookTypes
    BY BooksAssumption DEF Init, P!Init, BookTypes, P!ClientSteps
  <1>3. TradeAtHand /\ StatusAtHand /\ HistoryTyped /\ AccountsAreThere /\ BookedTradesAreStored
    BY BooksAssumption, Types, <1>2
    DEF Init, P!Init, TradeAtHand, StatusAtHand, HistoryTyped, AccountsAreThere, BookedTradesAreStored, Booking
  <1>4. AnswersFindRows /\ TradesFindRows
    BY DEF Init, T!Init, AnswersFindRows, TradesFindRows
  <1> QED
    BY <1>1, <1>2, <1>3, <1>4 DEF BooksInv

(* The inductive invariant holds in every state.                           *)
THEOREM Invariance == ASSUME AnyBalance PROVE Spec => []BooksInv
  <1>1. BooksInv /\ [Next]_vars => BooksInv'
    BY BooksStep
  <1> QED
    BY <1>1, InitEstablishes, PTL DEF Spec

(* portfolio-service books no trade that trading-service does not know:    *)
(* BookedTradesAreStored.                                                  *)
THEOREM BookedTradesHold == ASSUME AnyBalance PROVE Spec => []BookedTradesAreStored
  <1>1. BooksInv => BookedTradesAreStored
    BY DEF BooksInv
  <1> QED
    BY <1>1, Invariance, PTL

(* The rows a booking needs are there when its message is sent:            *)
(* BookingFindsItsRows.                                                    *)
THEOREM BookingsFindRows == ASSUME AnyBalance PROVE Spec => []BookingFindsItsRows
  <1>1. BooksInv => BookingFindsItsRows
    <2> SUFFICES ASSUME BooksInv, NEW i \in DOMAIN events, events[i].type = "TRADE_EXECUTED"
                 PROVE  FindsItsRows(events[i].order)
      BY DEF BookingFindsItsRows, FindsItsRows
    <2>1. events[i].order \in Orders
      BY SameAssumptions, TP!TopicElement DEF BooksInv, TP!OrderInv
    <2>2. row[events[i].order].trade # NoTrade
      BY DEF BooksInv, TP!OrderInv, TP!TopicFollowsRow, TP!Agrees
    <2> QED
      BY <2>1, <2>2 DEF BooksInv, TradesFindRows
  <1> QED
    BY <1>1, Invariance, PTL

-----------------------------------------------------------------------------
(* Each service is itself                                                  *)

(* What trading-service sends is what portfolio-service expects.           *)
LEMMA DecodedTyped ==
  ASSUME NEW e \in TP!Events
  PROVE  Decoded(e) \in [type : PP!EventTypes, order : Orders, gross : Nat]
  <1>1. /\ e.type \in PP!EventTypes /\ e.order \in Orders
        /\ e.trade \in TP!Prices \cup {NoTrade}
    BY DEF TP!Events, PP!EventTypes
  <1>2. e.trade = NoTrade \/ e.trade \in Nat
    BY <1>1, SameAssumptions, TP!PricesAreNat
  <1>3. Qty[e.order] \in Nat
    BY <1>1, BooksAssumption
  <1>4. \A a, b \in Nat : a * b \in Nat
    OBVIOUS
  <1>5. (IF e.trade = NoTrade THEN 0 ELSE e.trade * Qty[e.order]) \in Nat
    BY <1>2, <1>3, <1>4
  <1> QED
    BY <1>1, <1>5 DEF Decoded

LEMMA SameEvents == T!Events = TP!Events
  BY DEF T!Events, TP!Events, T!Reasons, TP!Reasons, T!Prices, TP!Prices

LEMMA SamePortfolioAssumptions ==
  PP!OrdersAssumption /\ PP!ClientsAssumption /\ PP!BoundsAssumption
  <1>1. {Decoded(e) : e \in T!Events} \subseteq [type : PP!EventTypes, order : Orders, gross : Nat]
    BY SameEvents, DecodedTyped
  <1>2. PP!OrdersAssumption
    BY <1>1, BooksAssumption, TradingAssumption DEF PP!OrdersAssumption, T!OrdersAssumption
  <1>3. PP!ClientsAssumption
    BY BooksAssumption DEF PP!ClientsAssumption, Buyers
  <1>4. PP!BoundsAssumption
    BY PortfolioAssumption DEF P!BoundsAssumption, PP!BoundsAssumption, P!FaultKinds, PP!FaultKinds
  <1> QED
    BY <1>2, <1>3, <1>4

LEMMA SamePortfolioInit == P!Init => PP!Init
  BY DEF P!Init, PP!Init, P!Processes, PP!Processes, P!FaultKinds, PP!FaultKinds

LEMMA SameSelect ==
  ASSUME NEW p \in P!Processes, P!SelectPortfolio(p) PROVE PP!SelectPortfolio(p)
  BY DEF P!SelectPortfolio, PP!SelectPortfolio, P!UserOf, PP!UserOf, P!Event, PP!Event,
         P!AfterGet, PP!AfterGet, P!Goto, PP!Goto, P!Abandon, PP!Abandon, P!Respond, PP!Respond,
         P!Spend, PP!Spend, P!tables, PP!tables, P!log, PP!log, P!ghosts, PP!ghosts

LEMMA SameCreatePortfolio ==
  ASSUME NEW p \in P!Processes, P!CreatePortfolio(p) PROVE PP!CreatePortfolio(p)
  BY DEF P!CreatePortfolio, PP!CreatePortfolio, P!Taken, PP!Taken, P!UserOf, PP!UserOf, P!Event,
         PP!Event, P!AfterGet, PP!AfterGet, P!Goto, PP!Goto, P!Abandon, PP!Abandon, P!Respond,
         PP!Respond, P!Spend, PP!Spend, P!log, PP!log, P!ghosts, PP!ghosts

LEMMA SameBegin == ASSUME NEW c \in Transfers \cup Buyers, P!Begin(c) PROVE PP!Begin(c)
  <1>1. CASE P!SelectPortfolio(c)
    BY <1>1, SameSelect DEF P!Begin, PP!Begin, P!Processes, P!RefuseAmount, PP!RefuseAmount,
       P!Respond, PP!Respond, P!Goto, PP!Goto, P!tables, PP!tables, P!log, PP!log, P!ghosts, PP!ghosts
  <1>2. CASE ~ P!SelectPortfolio(c)
    BY <1>2 DEF P!Begin, PP!Begin, P!RefuseAmount, PP!RefuseAmount, P!Respond, PP!Respond,
                P!Goto, PP!Goto, P!tables, PP!tables, P!log, PP!log, P!ghosts, PP!ghosts
  <1> QED
    BY <1>1, <1>2

LEMMA SameServe == ASSUME NEW c \in Transfers \cup Buyers, P!Serve(c) PROVE PP!Serve(c)
  <1>1. CASE P!CreatePortfolio(c)
    BY <1>1, SameCreatePortfolio DEF PP!Serve, P!Processes
  <1>2. CASE P!ReturnBalance(c) \/ P!RefuseWithdrawal(c)
    BY <1>2 DEF PP!Serve, P!ReturnBalance, PP!ReturnBalance, P!RefuseWithdrawal, PP!RefuseWithdrawal,
                P!Overdrawn, PP!Overdrawn, P!Respond, PP!Respond, P!Goto, PP!Goto,
                P!tables, PP!tables, P!log, PP!log, P!ghosts, PP!ghosts
  <1>3. CASE P!WriteBalance(c)
    BY <1>3 DEF PP!Serve, P!WriteBalance, PP!WriteBalance, P!NewBalance, PP!NewBalance,
                P!Overdrawn, PP!Overdrawn, P!Respond, PP!Respond, P!Goto, PP!Goto,
                P!Spend, PP!Spend, P!log, PP!log
  <1> QED
    BY <1>1, <1>2, <1>3 DEF P!Serve

LEMMA SameConsume == P!Consume => PP!Consume
  <1> USE DEF PP!Consume, P!Event, PP!Event, P!Goto, PP!Goto, P!Abandon, PP!Abandon,
              P!Respond, PP!Respond, P!Spend, PP!Spend, P!tables, PP!tables, P!log, PP!log,
              P!ghosts, PP!ghosts
  <1>1. CASE P!ReadMessage
    BY <1>1 DEF P!ReadMessage, PP!ReadMessage
  <1>2. CASE P!CommitFails
    BY <1>2 DEF P!CommitFails, PP!CommitFails
  <1>3. CASE P!UpdateOrderStatus
    BY <1>3 DEF P!UpdateOrderStatus, PP!UpdateOrderStatus, P!StatusOf, PP!StatusOf
  <1>4. CASE P!InsertOrder
    BY <1>4 DEF P!InsertOrder, PP!InsertOrder
  <1>5. CASE P!InsertTrade
    BY <1>5 DEF P!InsertTrade, PP!InsertTrade, P!Duplicate, PP!Duplicate
  <1>6. CASE P!GetTrader
    BY <1>6, SameSelect DEF P!GetTrader, PP!GetTrader, P!Processes
  <1>7. CASE P!CreatePortfolio(Consumer)
    BY <1>7, SameCreatePortfolio DEF P!Processes
  <1>8. CASE P!UpdateCash
    BY <1>8 DEF P!UpdateCash, PP!UpdateCash, P!Signed, PP!Signed
  <1>9. CASE P!UpdatePosition
    BY <1>9 DEF P!UpdatePosition, PP!UpdatePosition, P!Positioned, PP!Positioned
  <1> QED
    BY <1>1, <1>2, <1>3, <1>4, <1>5, <1>6, <1>7, <1>8, <1>9 DEF P!Consume

LEMMA SameRestart == P!Restart => PP!Restart
  BY DEF P!Restart, PP!Restart, P!InFlight, PP!InFlight, P!Processes, PP!Processes, P!Spend,
         PP!Spend, P!tables, PP!tables, P!ghosts, PP!ghosts

(* What portfolio-service reads of the topic.                              *)
DecodedEvents == [i \in DOMAIN events |-> Decoded(events[i])]

LEMMA MessageArrives ==
  ASSUME events \in Seq(TP!Events), NEW e \in TP!Events, events' = Append(events, e)
  PROVE  /\ DecodedEvents' = Append(DecodedEvents, Decoded(e))
         /\ Len(DecodedEvents) = Len(events) /\ Len(events') = Len(events) + 1
         /\ Len(events) \in Nat
  <1>1. /\ Len(events) \in Nat /\ DOMAIN events = 1..Len(events)
        /\ Len(events') = Len(events) + 1 /\ DOMAIN events' = 1..(Len(events) + 1)
        /\ events'[Len(events) + 1] = e
        /\ \A i \in 1..Len(events) : events'[i] = events[i]
    BY AppendProperties, LenProperties
  <1>2. /\ DecodedEvents \in Seq({Decoded(events[i]) : i \in DOMAIN events})
        /\ DOMAIN DecodedEvents = 1..Len(events)
    BY <1>1, IsASeq DEF DecodedEvents
  <1>3. Len(DecodedEvents) = Len(events)
    BY <1>1, <1>2, LenProperties
  <1> DEFINE S == {Decoded(events[i]) : i \in DOMAIN events} \cup {Decoded(e)}
             more == Append(DecodedEvents, Decoded(e))
  <1>4. DecodedEvents \in Seq(S) /\ Decoded(e) \in S
    BY <1>1, IsASeq DEF DecodedEvents
  <1>5. /\ more \in Seq(S) /\ Len(more) = Len(events) + 1 /\ more[Len(events) + 1] = Decoded(e)
        /\ \A i \in 1..Len(events) : more[i] = DecodedEvents[i]
    BY <1>3, <1>4, AppendProperties
  <1>6. DOMAIN more = 1..(Len(events) + 1) /\ more = [i \in DOMAIN more |-> more[i]]
    BY <1>1, <1>5, LenProperties
  <1> HIDE DEF more
  <1>7. \A i \in 1..(Len(events) + 1) : more[i] = Decoded(events'[i])
    <2> SUFFICES ASSUME NEW i \in 1..(Len(events) + 1) PROVE more[i] = Decoded(events'[i])
      OBVIOUS
    <2>1. CASE i = Len(events) + 1
      BY <1>1, <1>5, <2>1
    <2>2. CASE i \in 1..Len(events)
      BY <1>1, <1>5, <2>2 DEF DecodedEvents
    <2> QED
      BY <1>1, <2>1, <2>2
  <1>8. DecodedEvents' = [i \in 1..(Len(events) + 1) |-> Decoded(events'[i])]
    BY <1>1 DEF DecodedEvents
  <1>9. DecodedEvents' = more
    BY <1>6, <1>7, <1>8
  <1> QED
    BY <1>1, <1>3, <1>9 DEF more

(* A step of the system is a step of portfolio-service: one of its own, or *)
(* the arrival of a message.                                               *)
LEMMA StepIsPortfolioService ==
  ASSUME AnyBalance, BooksInv, [Next]_vars, Len(events') <= MaxMessages
  PROVE  [PP!Next]_(PP!vars)
  <1> USE DEF PP!vars, PP!tables, PP!log, PP!ghosts
  <1>1. ASSUME UNCHANGED portfolioVars PROVE [PP!Next]_(PP!vars)
    <2>1. CASE UNCHANGED events
      BY <1>1, <2>1 DEF portfolioVars
    <2>2. CASE \E e \in TP!Events : events' = Append(events, e)
      <3>1. PICK e \in TP!Events : events' = Append(events, e)
        BY <2>2
      <3>2. /\ DecodedEvents' = Append(DecodedEvents, Decoded(e))
            /\ Len(DecodedEvents) < MaxMessages
        <4>1. events \in Seq(TP!Events)
          BY DEF BooksInv, TP!OrderInv, TP!TypeOK
        <4>2. MaxMessages \in Nat
          BY SamePortfolioAssumptions DEF PP!BoundsAssumption
        <4> QED
          BY <3>1, <4>1, <4>2, MessageArrives
      <3>3. PP!Publish(Decoded(e))
        BY <1>1, <3>2 DEF PP!Publish, DecodedEvents, portfolioVars
      <3>4. Decoded(e) \in {Decoded(x) : x \in T!Events}
        BY SameEvents
      <3> QED
        BY <3>3, <3>4 DEF PP!Next
    <2> QED
      BY <2>1, <2>2, StepIsTrading, SameAssumptions, TP!TopicAppends DEF BooksInv
  <1>2. ASSUME NEW c \in Transfers \cup Buyers, P!Begin(c) \/ P!Serve(c) PROVE PP!Next
    BY <1>2, SameBegin, SameServe DEF PP!Next
  <1> QED
    BY <1>1, <1>2, SameConsume, SameRestart
    DEF Next, Step, TradingStep, PortfolioStep, CallBalance, BalanceArrives, SharesArrive,
        CallFails, P!Serve, PP!Next, vars

(* The topic has not outgrown the bound of the model, whatever it is.      *)
TopicBounded == Len(events) <= MaxMessages

(* Side by side each service behaves as its own module says, so all that   *)
(* was proved about one alone holds of the two together: trading-service   *)
(* needs nothing of portfolio-service but its answers, and publishes only  *)
(* what the consumer expects (TradingEvent on both sides of the topic).    *)
THEOREM EachServiceIsItself ==
  ASSUME AnyBalance
  PROVE  Spec /\ []TopicBounded =>
            /\ TP!Init /\ [][TP!Next]_(TP!vars) /\ []TP!OrderInv
            /\ PP!Init /\ [][PP!Next]_(PP!vars) /\ []PP!PortfolioInv
  <1>1. Init => TP!Init /\ PP!Init /\ PP!PortfolioInv
    BY SameInit, SamePortfolioInit, SamePortfolioAssumptions, PP!InitEstablishes DEF Init
  <1>2. BooksInv /\ [Next]_vars => [TP!Next]_(TP!vars)
    BY StepIsTrading
  <1>3. BooksInv /\ [Next]_vars /\ TopicBounded' => [PP!Next]_(PP!vars)
    BY StepIsPortfolioService DEF TopicBounded
  <1>4. PP!PortfolioInv /\ [PP!Next]_(PP!vars) => PP!PortfolioInv'
    BY SamePortfolioAssumptions, PP!StepPreserves
  <1>5. BooksInv => TP!OrderInv
    BY DEF BooksInv
  <1> QED
    BY <1>1, <1>2, <1>3, <1>4, <1>5, Invariance, PTL DEF Spec

-----------------------------------------------------------------------------
(* At which price a trade is booked                                        *)

(* The gross amount of the message is what the orders table says.          *)
LEMMA GrossOfTrade ==
  ASSUME BooksInv, pc[Consumer] \in Booking
  PROVE  LET o == events[fetched].order
         IN row[o].trade \in Nat /\ P!Event.gross = row[o].trade * Qty[o]
  <1> DEFINE e == events[fetched]
  <1>1. fetched \in DOMAIN events /\ e.type = "TRADE_EXECUTED" /\ P!Event = Decoded(e)
    BY MessageTyped
  <1>2. e.trade # NoTrade /\ row[e.order].trade = e.trade
    BY <1>1 DEF BooksInv, TP!OrderInv, TP!TopicFollowsRow, TP!Agrees
  <1>3. e \in TP!Events
    BY <1>1, SameAssumptions, TP!TopicElement DEF BooksInv, TP!OrderInv
  <1>4. e.trade \in TP!Prices
    BY <1>2, <1>3 DEF TP!Events
  <1>5. e.trade \in Nat
    BY <1>4, SameAssumptions, TP!PricesAreNat
  <1> QED
    BY <1>1, <1>2, <1>5 DEF Decoded

(* What moves for a trade is its price in the orders table times its       *)
(* quantity, in the direction of its side and in the account of its owner, *)
(* although it went through a message that may be late or repeated         *)
(* (FillOrder, publishEvent, handleTradeExecuted).                         *)
BookedAtItsPrice ==
    [][\A o \in Orders : cashed'[o] # cashed[o] =>
          LET gross == row[o].trade * Qty[o] IN
          cash' = [cash EXCEPT ![Owner[o]] =
                      IF Side[o] = "BUY" THEN seen[Consumer] - gross ELSE seen[Consumer] + gross]]_vars

LEMMA BookingPrice ==
  ASSUME BooksInv, P!UpdateCash, NEW o \in Orders, cashed'[o] # cashed[o]
  PROVE  /\ o = events[fetched].order
         /\ cash' = [cash EXCEPT ![Owner[o]] =
                        IF Side[o] = "BUY" THEN seen[Consumer] - row[o].trade * Qty[o]
                        ELSE seen[Consumer] + row[o].trade * Qty[o]]
  <1>1. pc[Consumer] \in Booking /\ seen[Consumer] \in Int /\ cashed \in [Orders -> Nat]
    BY Types DEF P!UpdateCash, Booking, BooksInv, BookTypes
  <1>2. P!Event.order = events[fetched].order /\ events[fetched].order \in Orders
    BY <1>1, MessageTyped
  <1>3. /\ cashed' = [cashed EXCEPT ![P!Event.order] = @ + 1]
        /\ cash' = [cash EXCEPT ![Owner[P!Event.order]] = seen[Consumer] + P!Signed(P!Event)]
    BY DEF P!UpdateCash
  <1>4. o = events[fetched].order
    BY <1>1, <1>2, <1>3
  <1>5. P!Event.gross = row[o].trade * Qty[o] /\ row[o].trade \in Nat /\ Qty[o] \in Nat
    BY <1>1, <1>4, GrossOfTrade, BooksAssumption
  <1>6. row[o].trade * Qty[o] \in Int
    BY <1>5
  <1> DEFINE g == row[o].trade * Qty[o]
  <1>7. P!Signed(P!Event) = IF Side[o] = "BUY" THEN 0 - g ELSE g
    BY <1>2, <1>4, <1>5 DEF P!Signed
  <1> HIDE DEF g
  <1>8. seen[Consumer] + P!Signed(P!Event)
          = IF Side[o] = "BUY" THEN seen[Consumer] - g ELSE seen[Consumer] + g
    BY <1>1, <1>6, <1>7 DEF g
  <1> QED
    BY <1>2, <1>3, <1>4, <1>8 DEF g

(* Only one statement counts a trade as booked.                            *)
LEMMA OnlyUpdateCashBooks ==
  ASSUME BooksInv, [Next]_vars
  PROVE  UNCHANGED cashed \/ P!UpdateCash
  <1>1. ASSUME NEW c \in Transfers \cup Buyers, P!Begin(c) \/ P!Serve(c) PROVE UNCHANGED cashed
    BY <1>1 DEF P!Begin, P!Serve, P!RefuseAmount, P!SelectPortfolio, P!CreatePortfolio,
                P!ReturnBalance, P!RefuseWithdrawal, P!WriteBalance, P!ghosts
  <1>2. CASE P!Consume
    BY <1>2
    DEF P!Consume, P!ReadMessage, P!CommitFails, P!UpdateOrderStatus, P!InsertOrder, P!InsertTrade,
        P!GetTrader, P!SelectPortfolio, P!CreatePortfolio, P!UpdatePosition, P!ghosts
  <1>3. CASE P!Restart
    BY <1>3 DEF P!Restart, P!ghosts
  <1> QED
    BY <1>1, <1>2, <1>3
    DEF Next, Step, TradingStep, PortfolioStep, CallBalance, BalanceArrives, SharesArrive, CallFails,
        P!Serve, vars, portfolioVars

(* BookedAtItsPrice, for any prices, quantities, faults and interleavings. *)
THEOREM BookedAtItsPriceHolds == ASSUME AnyBalance PROVE Spec => BookedAtItsPrice
  <1> DEFINE Priced ==
        \A o \in Orders : cashed'[o] # cashed[o] =>
          LET gross == row[o].trade * Qty[o] IN
          cash' = [cash EXCEPT ![Owner[o]] =
                      IF Side[o] = "BUY" THEN seen[Consumer] - gross ELSE seen[Consumer] + gross]
  <1>1. BooksInv /\ [Next]_vars => [Priced]_vars
    BY OnlyUpdateCashBooks, BookingPrice
  <1> QED
    BY <1>1, Invariance, PTL DEF Spec, BookedAtItsPrice

-----------------------------------------------------------------------------
(* When the balance does cover a purchase                                  *)

(* A purchase somebody relies on: it is being decided, or it was filled    *)
(* and is not booked.                                                      *)
Engaged(o) == handler[o] = "fetch" \/ (row[o].trade # NoTrade /\ cashed[o] = 0)

(* Nobody buys or withdraws while a purchase from the same account is      *)
(* engaged, and the writers of an account take turns.                      *)
PurchasesTakeTurns ==
    /\ \A o \in Buyers : Engaged(o) =>
          /\ \A x \in Buyers \ {o} : Owner[x] = Owner[o] => ~Engaged(x)
          /\ \A c \in Transfers :
                Transfer[c].kind = "withdraw" /\ Transfer[c].account = Owner[o] => pc[c] # "write"
    /\ PP!TurnsTaken

(* The balance an engaged purchase was answered, or its price, is there.   *)
PurchaseCovered(o) ==
    /\ handler[o] = "idle" => portfolio[o] = Pending
    /\ handler[o] = "fetch" /\ portfolio[o] \notin {Pending, Failed} =>
          cash[Owner[o]] >= portfolio[o]
    /\ row[o].trade # NoTrade /\ cashed[o] = 0 => cash[Owner[o]] >= row[o].trade * Qty[o]

CoverInv == PurchasesAreCovered /\ \A o \in Buyers : PurchaseCovered(o)

(* What both services are known to keep.                                   *)
Kept == AnyBalance /\ BooksInv /\ PP!PortfolioInv /\ PP!ReadingsAreCurrent

(* The ways in which the balance of u changes.                             *)
Rises(u) == cash[u] # Absent /\ cash'[u] >= cash[u]
Opens(u) == cash[u] = Absent /\ cash'[u] = 0
Withdrawn(u) ==
    /\ cash'[u] >= 0
    /\ \E c \in Transfers :
          Transfer[c].kind = "withdraw" /\ Transfer[c].account = u /\ pc[c] = "write"
PaidFor(u, o) ==
    /\ Owner[o] = u /\ row[o].trade # NoTrade /\ cashed[o] = 0 /\ cashed'[o] # 0
    /\ cash[u] \in Int /\ cash'[u] = cash[u] - row[o].trade * Qty[o]

BalanceMoves(u) ==
    \/ cash'[u] = cash[u] \/ Rises(u) \/ Opens(u) \/ Withdrawn(u)
    \/ \E o \in Buyers : PaidFor(u, o)

LEMMA TransferMoves ==
  ASSUME Kept, NEW c \in Transfers \cup Buyers, P!WriteBalance(c), NEW u \in Users
  PROVE  BalanceMoves(u)
  <1>1. /\ c \in Transfers \ Buyers /\ pc[c] = "write" /\ P!UserOf(c) = Transfer[c].account
        /\ PP!UserOf(c) = Transfer[c].account
        /\ Transfer[c].amount \in Int /\ Transfer[c].kind \in {"deposit", "withdraw"}
        /\ Transfer[c].account \in Users /\ c # Consumer /\ c \in PP!Processes
    BY BooksAssumption DEF P!WriteBalance, P!UserOf, PP!UserOf, PP!Processes
  <1>2. seen[c] = cash[Transfer[c].account]
    BY <1>1 DEF Kept, PP!ReadingsAreCurrent, PP!UpToDate, PP!AfterGet
  <1>3. Transfer[c].amount > 0
    BY <1>1 DEF Kept, PP!PortfolioInv, PP!TransfersAreSound
  <1>4. seen[c] \in Int /\ cash \in [Users -> Int \cup {Absent}]
    BY <1>1 DEF Kept, BooksInv, BookTypes, PP!PortfolioInv, PP!TypeOK
  <1>5. cash' = cash \/ cash' = [cash EXCEPT ![Transfer[c].account] = P!NewBalance(c)]
    BY <1>1 DEF P!WriteBalance
  <1>6. CASE u # Transfer[c].account \/ cash' = cash
    BY <1>4, <1>5, <1>6 DEF BalanceMoves
  <1>7. CASE u = Transfer[c].account /\ cash'[u] = P!NewBalance(c)
    <2>1. CASE Transfer[c].kind = "deposit"
      <3>1. P!NewBalance(c) = seen[c] + Transfer[c].amount
        BY <1>1, <2>1 DEF P!NewBalance
      <3>2. cash'[u] = cash[u] + Transfer[c].amount /\ cash[u] \in Int
        BY <1>2, <1>4, <1>7, <3>1
      <3> QED
        BY <1>1, <1>3, <3>2, BooksAssumption DEF BalanceMoves, Rises
    <2>2. CASE Transfer[c].kind = "withdraw"
      <3>1. P!NewBalance(c) = seen[c] - Transfer[c].amount /\ ~ (seen[c] < Transfer[c].amount)
        BY <1>1, <2>2 DEF P!NewBalance, P!WriteBalance, P!Overdrawn
      <3>2. cash'[u] >= 0
        BY <1>1, <1>4, <1>7, <3>1
      <3> QED
        BY <1>1, <1>7, <2>2, <3>2 DEF BalanceMoves, Withdrawn
    <2> QED
      BY <1>1, <2>1, <2>2
  <1> QED
    BY <1>1, <1>4, <1>5, <1>6, <1>7

LEMMA BookingMoves ==
  ASSUME Kept, P!UpdateCash, NEW u \in Users
  PROVE  BalanceMoves(u)
  <1> DEFINE o == events[fetched].order
             g == row[o].trade * Qty[o]
  <1>1. /\ pc[Consumer] = "cash" /\ pc[Consumer] \in Booking /\ Consumer \in PP!Processes
        /\ cash \in [Users -> Int \cup {Absent}] /\ cashed \in [Orders -> Nat]
    BY DEF P!UpdateCash, Booking, Kept, BooksInv, BookTypes, PP!Processes
  <1>2. /\ o \in Orders /\ P!Event.order = o /\ Owner[o] \in Users /\ Side[o] \in {"BUY", "SELL"}
        /\ row[o].trade # NoTrade
    BY <1>1, MessageTyped, Types DEF Kept, BooksInv
  <1>3. g \in Nat
    <2>1. row[o].trade \in Nat /\ Qty[o] \in Nat
      BY <1>1, <1>2, GrossOfTrade, BooksAssumption DEF Kept
    <2>2. \A a, b \in Nat : a * b \in Nat
      OBVIOUS
    <2> QED
      BY <2>1, <2>2
  <1>4. PP!Event = P!Event
    BY DEF PP!Event, P!Event
  <1>5. cashed[o] = 0
    BY <1>1, <1>2, <1>4 DEF Kept, PP!PortfolioInv, PP!BookingInStep
  <1>6. seen[Consumer] = cash[Owner[o]]
    BY <1>1, <1>2, <1>4 DEF Kept, PP!ReadingsAreCurrent, PP!UpToDate, PP!AfterGet, PP!UserOf
  <1>7. seen[Consumer] \in Int
    BY <1>1 DEF Kept, PP!PortfolioInv, PP!TypeOK
  <1>8. \/ UNCHANGED cash
        \/ cashed' = [cashed EXCEPT ![o] = @ + 1]
    BY <1>2 DEF P!UpdateCash
  <1>9. CASE UNCHANGED cash
    BY <1>9 DEF BalanceMoves
  <1>10. CASE cashed' = [cashed EXCEPT ![o] = @ + 1]
    <2>1. cashed'[o] # cashed[o] /\ cashed'[o] # 0
      BY <1>1, <1>2, <1>10
    <2>2. cash' = [cash EXCEPT ![Owner[o]] =
                     IF Side[o] = "BUY" THEN seen[Consumer] - g ELSE seen[Consumer] + g]
      BY <1>2, <2>1, BookingPrice DEF Kept
    <2> HIDE DEF g
    <2>3. CASE u # Owner[o]
      BY <1>1, <2>2, <2>3 DEF BalanceMoves
    <2>4. CASE u = Owner[o] /\ Side[o] = "SELL"
      <3>1. cash'[u] = cash[u] + g /\ cash[u] \in Int
        BY <1>1, <1>6, <1>7, <2>2, <2>4
      <3> QED
        BY <1>3, <3>1, BooksAssumption DEF BalanceMoves, Rises
    <2>5. CASE u = Owner[o] /\ Side[o] = "BUY"
      <3>1. cash'[u] = cash[u] - g /\ cash[u] \in Int /\ o \in Buyers
        BY <1>1, <1>2, <1>6, <1>7, <2>2, <2>5 DEF Buyers
      <3> QED
        BY <1>2, <1>5, <2>1, <2>5, <3>1 DEF BalanceMoves, PaidFor, g
    <2> QED
      BY <1>2, <2>3, <2>4, <2>5
  <1> QED
    BY <1>8, <1>9, <1>10

LEMMA StepMoves ==
  ASSUME Kept, [Next]_vars, NEW u \in Users
  PROVE  BalanceMoves(u)
  <1>1. ASSUME UNCHANGED cash PROVE BalanceMoves(u)
    BY <1>1 DEF BalanceMoves
  <1>2. ASSUME NEW p \in P!Processes, P!CreatePortfolio(p) PROVE BalanceMoves(u)
    <2>1. cash \in [Users -> Int \cup {Absent}]
      BY DEF Kept, BooksInv, BookTypes
    <2>2. cash'[u] = cash[u] \/ Opens(u)
      BY <1>2, <2>1 DEF P!CreatePortfolio, P!Taken, Opens
    <2> QED
      BY <2>2 DEF BalanceMoves
  <1>3. ASSUME NEW c \in Transfers \cup Buyers, P!Begin(c) \/ P!Serve(c) PROVE BalanceMoves(u)
    BY <1>1, <1>2, <1>3, TransferMoves
    DEF P!Begin, P!Serve, P!RefuseAmount, P!SelectPortfolio, P!ReturnBalance, P!RefuseWithdrawal,
        P!Processes, P!tables
  <1>4. CASE P!Consume
    BY <1>1, <1>2, <1>4, BookingMoves
    DEF P!Consume, P!ReadMessage, P!CommitFails, P!UpdateOrderStatus, P!InsertOrder, P!InsertTrade,
        P!GetTrader, P!SelectPortfolio, P!UpdatePosition, P!Processes, P!tables
  <1>5. CASE P!Restart
    BY <1>1, <1>5 DEF P!Restart, P!tables
  <1>6. CASE UNCHANGED portfolioVars
    BY <1>1, <1>6 DEF portfolioVars
  <1> QED
    BY <1>3, <1>4, <1>5, <1>6
    DEF Next, Step, TradingStep, PortfolioStep, CallBalance, BalanceArrives, SharesArrive, CallFails,
        P!Serve, vars

(* How a purchase becomes engaged, and what moves the balance meanwhile.   *)
LEMMA TradingMoves ==
  ASSUME Kept, [Next]_vars, NEW o \in Buyers
  PROVE  /\ handler'[o] = "idle" => handler[o] = "idle" /\ portfolio'[o] = portfolio[o]
         /\ handler'[o] = "fetch" => \/ handler[o] = "fetch"
                                     \/ handler[o] = "idle" /\ portfolio'[o] = portfolio[o]
         /\ row'[o].trade # NoTrade =>
               \/ row[o].trade # NoTrade /\ row'[o].trade = row[o].trade
               \/ /\ handler[o] = "fetch" /\ portfolio[o] \notin {Pending, Failed}
                  /\ portfolio[o] >= row'[o].trade * Qty[o] /\ UNCHANGED <<cash, cashed>>
  <1>0. /\ TP!OrderInv /\ TP!TypeOK /\ [TP!Next]_(TP!vars) /\ o \in Orders /\ Side[o] = "BUY"
    BY StepIsTrading DEF Kept, BooksInv, TP!OrderInv, Buyers
  <1>1. /\ handler'[o] = "idle" => handler[o] = "idle"
        /\ handler'[o] = "fetch" => handler[o] \in {"idle", "fetch"}
        /\ portfolio'[o] # portfolio[o] => handler[o] = "fetch" /\ handler'[o] = "fetch"
    BY <1>0, SameAssumptions, TP!HandlersGoOn
  <1>3. ASSUME row'[o].trade # NoTrade, row[o].trade = NoTrade
        PROVE  /\ handler[o] = "fetch" /\ portfolio[o] \notin {Pending, Failed}
               /\ portfolio[o] >= row'[o].trade * Qty[o] /\ UNCHANGED <<cash, cashed>>
    <2>1. TP!FillOrder(o)
      BY <1>0, <1>3, SameAssumptions, TP!OnlyFillsTrade
    <2>2. handler[o] = "fetch" /\ portfolio[o] \notin {Pending, Failed} /\ TP!Covered(o)
      BY <1>0, <2>1, SameAssumptions, TP!FillIsCovered DEF TP!FillOrder, TP!Fetched
    <2>3. row'[o].trade = market[o].price
      BY <1>0, <1>3, <2>1, SameAssumptions, TP!FillTakesQuote
    <2>4. UNCHANGED portfolioVars
      BY <1>3 DEF Next, Step, PortfolioStep, TradingStep, CallBalance, BalanceArrives, SharesArrive,
                  CallFails, T!PortfolioAnswers, tradingVars, vars
    <2> QED
      BY <1>0, <2>2, <2>3, <2>4 DEF TP!Covered, portfolioVars
  <1>4. row[o].trade # NoTrade => row'[o].trade = row[o].trade
    BY <1>0, SameAssumptions, TP!NextStep DEF TP!Kept
  <1> QED
    BY <1>1, <1>3, <1>4

(* What a trade costs.                                                     *)
LEMMA PriceTyped ==
  ASSUME BooksInv, NEW o \in Orders, row[o].trade # NoTrade
  PROVE  row[o].trade * Qty[o] \in Int
  <1>1. row[o].trade \in TP!Prices
    BY DEF BooksInv, TP!OrderInv, TP!TypeOK, TP!Rows
  <1>2. row[o].trade \in Nat /\ Qty[o] \in Nat
    BY <1>1, SameAssumptions, TP!PricesAreNat, BooksAssumption
  <1>3. \A a, b \in Nat : a * b \in Int
    OBVIOUS
  <1> QED
    BY <1>2, <1>3

LEMMA PriceTypedNext ==
  ASSUME AnyBalance, BooksInv, [Next]_vars, NEW o \in Orders, row'[o].trade # NoTrade
  PROVE  row'[o].trade * Qty[o] \in Int
  <1>1. row'[o].trade \in TP!Prices
    BY BooksStep DEF BooksInv, TP!OrderInv, TP!TypeOK, TP!Rows
  <1>2. row'[o].trade \in Nat /\ Qty[o] \in Nat
    BY <1>1, SameAssumptions, TP!PricesAreNat, BooksAssumption
  <1>3. \A a, b \in Nat : a * b \in Int
    OBVIOUS
  <1> QED
    BY <1>2, <1>3

(* The account of an engaged purchase does not fall below what the         *)
(* purchase relies on, until it is booked itself.                          *)
LEMMA EngagedKeepsBalance ==
  ASSUME Kept, PurchasesTakeTurns, [Next]_vars, NEW o \in Buyers, Engaged(o),
         cash[Owner[o]] \in Int,
         ~ (row[o].trade # NoTrade /\ cashed[o] = 0 /\ cashed'[o] # 0)
  PROVE  cash'[Owner[o]] >= cash[Owner[o]]
  <1>1. Owner[o] \in Users /\ cash[Owner[o]] # Absent
    BY BooksAssumption DEF Buyers
  <1>2. CASE Withdrawn(Owner[o])
    BY <1>2 DEF Withdrawn, PurchasesTakeTurns
  <1>3. ASSUME NEW x \in Buyers, PaidFor(Owner[o], x) PROVE FALSE
    <2>1. Engaged(x) /\ Owner[x] = Owner[o]
      BY <1>3 DEF PaidFor, Engaged
    <2>2. x = o
      BY <2>1 DEF PurchasesTakeTurns
    <2> QED
      BY <1>3, <2>2 DEF PaidFor
  <1> QED
    BY <1>1, <1>2, <1>3, StepMoves DEF BalanceMoves, Rises, Opens

LEMMA CoverStep ==
  ASSUME Kept, PurchasesTakeTurns, CoverInv, [Next]_vars
  PROVE  CoverInv'
  <1>0. /\ BooksInv /\ BookTypes /\ cash \in [Users -> Int \cup {Absent}]
        /\ cash' \in [Users -> Int \cup {Absent}]
        /\ cashed \in [Orders -> Nat] /\ seen \in [P!Processes -> Int]
        /\ portfolio \in [Orders -> Int \cup {Pending, Failed}]
        /\ Pending \notin Int /\ Failed \notin Int
    <2>1. BooksInv' /\ BooksInv
      BY BooksStep DEF Kept
    <2> QED
      BY <2>1, SameAssumptions
      DEF Kept, BooksInv, BookTypes, AnyBalance, TP!OrderInv, TP!TypeOK, TP!AnswersAssumption
  <1>1. ASSUME NEW o \in Buyers
        PROVE  o \in Orders /\ Owner[o] \in Users /\ Side[o] = "BUY" /\ Qty[o] \in Nat
    BY BooksAssumption DEF Buyers
  <1>2. \A o \in Orders : cashed'[o] = 0 => cashed[o] = 0
    <2>1. \A o \in Orders : cashed'[o] = cashed[o] \/ cashed'[o] > cashed[o]
      <3>1. CASE P!UpdateCash
        BY <1>0, <3>1 DEF P!UpdateCash
      <3> QED
        BY <1>0, <3>1, OnlyUpdateCashBooks
    <2> QED
      BY <1>0, <2>1
  <1>3. ASSUME NEW o \in Buyers PROVE PurchaseCovered(o)'
    <2>0. /\ o \in Orders /\ Owner[o] \in Users /\ Qty[o] \in Nat /\ PurchaseCovered(o)
          /\ cash[Owner[o]] \in Int \cup {Absent} /\ cash'[Owner[o]] \in Int \cup {Absent}
          /\ portfolio[o] \in Int \cup {Pending, Failed}
      BY <1>0, <1>1, <1>3 DEF CoverInv
    <2>1. handler'[o] = "idle" => portfolio'[o] = Pending
      BY <2>0, TradingMoves DEF PurchaseCovered
    <2>2. ASSUME handler'[o] = "fetch", portfolio'[o] \notin {Pending, Failed}
          PROVE  cash'[Owner[o]] >= portfolio'[o]
      <3>1. CASE portfolio'[o] # portfolio[o]
        <4>1. pc[o] = "write" /\ portfolio'[o] = seen[o] /\ UNCHANGED cash
          BY <1>0, <1>3, <2>0, <2>2, <3>1, AnswerComes
        <4>2. seen[o] = cash[Owner[o]]
          <5>1. o \in PP!Processes /\ o # Consumer
            BY <1>3, <2>0, BooksAssumption DEF PP!Processes
          <5>2. PP!UserOf(o) = Owner[o]
            BY <1>3, <5>1 DEF PP!UserOf
          <5> QED
            BY <4>1, <5>1, <5>2 DEF Kept, PP!ReadingsAreCurrent, PP!UpToDate, PP!AfterGet
        <4>3. seen[o] \in Int
          BY <1>0, <1>3, Types
        <4> QED
          BY <4>1, <4>2, <4>3
      <3>2. CASE portfolio'[o] = portfolio[o]
        <4>1. handler[o] = "fetch"
          BY <1>3, <2>0, <2>2, <3>2, TradingMoves DEF PurchaseCovered
        <4>2. cash[Owner[o]] >= portfolio[o] /\ portfolio[o] \in Int
          BY <2>0, <2>2, <3>2, <4>1 DEF PurchaseCovered
        <4>3. cash[Owner[o]] \in Int
          BY <1>0, <1>1, <1>3, <2>0, <2>2, <3>2 DEF BooksInv, AnswersFindRows, FindsItsRows
        <4>4. row[o].trade = NoTrade
          BY <1>0, <2>0, <4>1 DEF BooksInv, TP!OrderInv, TP!RowFollowsVerdict
        <4>5. cash'[Owner[o]] >= cash[Owner[o]]
          BY <1>3, <4>1, <4>3, <4>4, EngagedKeepsBalance DEF Engaged
        <4>6. Owner[o] \in Users /\ cash'[Owner[o]] \in Int
          <5>1. FindsItsRows(o)
            BY <1>0, <1>1, <1>3, <2>0, <2>2, <3>2 DEF BooksInv, AnswersFindRows
          <5>2. RowsStay
            BY StepIsPortfolio DEF Kept, PortfolioKept
          <5> QED
            BY <2>0, <5>1, <5>2 DEF FindsItsRows, RowsStay
        <4> QED
          BY <3>2, <4>2, <4>3, <4>5, <4>6
      <3> QED
        BY <3>1, <3>2
    <2>3. ASSUME row'[o].trade # NoTrade, cashed'[o] = 0
          PROVE  cash'[Owner[o]] >= row'[o].trade * Qty[o]
      <3>1. CASE row[o].trade # NoTrade /\ row'[o].trade = row[o].trade
        <4>1. cashed[o] = 0 /\ cash[Owner[o]] >= row[o].trade * Qty[o]
          BY <1>2, <2>0, <2>3, <3>1 DEF PurchaseCovered
        <4>2. FindsItsRows(o)
          BY <1>0, <2>0, <3>1 DEF BooksInv, TradesFindRows
        <4>3. cash[Owner[o]] \in Int
          BY <2>0, <4>2 DEF FindsItsRows
        <4>4. cash'[Owner[o]] >= cash[Owner[o]]
          BY <1>3, <2>3, <3>1, <4>1, <4>3, EngagedKeepsBalance DEF Engaged
        <4>5. cash'[Owner[o]] \in Int
          <5>1. RowsStay
            BY StepIsPortfolio DEF Kept, PortfolioKept
          <5> QED
            BY <2>0, <4>2, <5>1 DEF FindsItsRows, RowsStay
        <4>6. row[o].trade * Qty[o] \in Int
          BY <1>0, <2>0, <3>1, PriceTyped
        <4> QED
          BY <3>1, <4>1, <4>3, <4>4, <4>5, <4>6
      <3>2. CASE /\ handler[o] = "fetch" /\ portfolio[o] \notin {Pending, Failed}
                 /\ portfolio[o] >= row'[o].trade * Qty[o] /\ UNCHANGED <<cash, cashed>>
        <4>1. cash[Owner[o]] >= portfolio[o] /\ portfolio[o] \in Int
          BY <2>0, <3>2 DEF PurchaseCovered
        <4>2. cash[Owner[o]] \in Int
          BY <1>0, <1>1, <1>3, <2>0, <3>2 DEF BooksInv, AnswersFindRows, FindsItsRows
        <4>3. row'[o].trade * Qty[o] \in Int
          BY <2>0, <2>3, PriceTypedNext DEF Kept
        <4> QED
          BY <3>2, <4>1, <4>2, <4>3
      <3> QED
        BY <1>3, <2>3, <3>1, <3>2, TradingMoves
    <2> QED
      BY <2>1, <2>2, <2>3 DEF PurchaseCovered
  <1>4. ASSUME NEW u \in Users, cash'[u] # Absent PROVE cash'[u] >= 0
    <2>0. cash[u] \in Int \cup {Absent} /\ cash'[u] \in Int /\ (cash[u] # Absent => cash[u] >= 0)
      BY <1>0, <1>4 DEF CoverInv, PurchasesAreCovered
    <2>1. ASSUME NEW o \in Buyers, PaidFor(u, o) PROVE cash'[u] >= 0
      <3>1. cash[u] >= row[o].trade * Qty[o] /\ o \in Orders /\ Qty[o] \in Nat
        BY <1>1, <2>1 DEF CoverInv, PurchaseCovered, PaidFor
      <3>2. row[o].trade * Qty[o] \in Int
        BY <1>0, <2>1, <3>1, PriceTyped DEF PaidFor
      <3> QED
        BY <2>1, <3>1, <3>2 DEF PaidFor
    <2> QED
      BY <1>4, <2>0, <2>1, StepMoves, BooksAssumption DEF BalanceMoves, Rises, Opens, Withdrawn
  <1> QED
    BY <1>3, <1>4 DEF CoverInv, PurchasesAreCovered

(* The balance covers every purchase, as trading-service is documented to  *)
(* make sure, as long as nobody buys or withdraws while a purchase from    *)
(* the same account is engaged: then, whatever fails or comes twice, no    *)
(* balance becomes negative.  So the check of CreateOrder against          *)
(* GetCashBalance lacks a reservation and nothing else.                    *)
THEOREM PurchasesInTurnAreCovered ==
  ASSUME AnyBalance
  PROVE  Spec /\ []TopicBounded /\ []PurchasesTakeTurns => []PurchasesAreCovered
  <1>1. Init => CoverInv /\ PP!ReadingsAreCurrent
    <2> SUFFICES ASSUME Init PROVE CoverInv /\ PP!ReadingsAreCurrent
      OBVIOUS
    <2>1. CoverInv
      BY DEF Init, T!Init, P!Init, CoverInv, PurchasesAreCovered, PurchaseCovered, Buyers, T!Requests
    <2>2. PP!ReadingsAreCurrent
      BY DEF Init, P!Init, P!Processes, PP!Processes, PP!ReadingsAreCurrent, PP!UpToDate, PP!AfterGet
    <2> QED
      BY <2>1, <2>2
  <1>2. BooksInv /\ PP!PortfolioInv /\ PP!ReadingsAreCurrent /\ PurchasesTakeTurns /\ CoverInv
          /\ [Next]_vars => CoverInv'
    BY CoverStep DEF Kept
  <1>3. PP!PortfolioInv /\ PurchasesTakeTurns /\ PP!ReadingsAreCurrent /\ [PP!Next]_(PP!vars)
          => PP!ReadingsAreCurrent'
    BY SamePortfolioAssumptions, PP!CurrentStep DEF PurchasesTakeTurns
  <1>4. CoverInv => PurchasesAreCovered
    BY DEF CoverInv
  <1> QED
    BY <1>1, <1>2, <1>3, <1>4, EachServiceIsItself, Invariance, PTL DEF Spec

-----------------------------------------------------------------------------
(* When everything has come to rest                                        *)

(* No goroutine has anything left to send, and the consumer has read it    *)
(* all.                                                                    *)
AtRest ==
    /\ \A p \in Orders \cup Cancels : publisher[p] \notin {"status", "trade"}
    /\ pc[Consumer] = "idle" /\ fetched = Len(events)

(* Nothing failed but upstream calls, and messages were at most repeated.  *)
Undisturbed ==
    /\ \A k \in {"db", "lost", "crash", "shutdown"} : tradingFaults[k] = 0
    /\ \A k \in {"db", "commit", "crash"} : portfolioFaults[k] = 0

(* At rest the books of the two services agree: the trades of the orders   *)
(* table, and only those, have been booked in cash and positions, each     *)
(* once, although nothing but a topic without acknowledgements connects    *)
(* them (FillOrder, publishEvent, handleTradeExecuted).  What is safe in   *)
(* TradesAreBooked.                                                        *)
BooksAgreeAtRest ==
    AtRest /\ Undisturbed =>
        \A o \in Orders :
            IF row[o].trade = NoTrade THEN cashed[o] = 0 /\ positioned[o] = 0
            ELSE cashed[o] = 1 /\ positioned[o] = 1

Sides == {"BUY", "SELL"}

(* The consumer never has to create a portfolio: BookingFindsItsRows.      *)
NeverCreates == pc[Consumer] # "create"

LEMMA NeverCreatesStep ==
  ASSUME BooksInv, PP!PortfolioInv, NeverCreates, [PP!Next]_(PP!vars)
  PROVE  NeverCreates'
  <1> SUFFICES ASSUME pc'[Consumer] = "create" PROVE FALSE
    BY DEF NeverCreates
  <1>1. pc[Consumer] = "get" /\ cash[PP!UserOf(Consumer)] = Absent
    BY SamePortfolioAssumptions, PP!CreatesAfterGet DEF NeverCreates
  <1>2. PP!UserOf(Consumer) = Owner[events[fetched].order]
    BY <1>1, MessageTyped DEF PP!UserOf, PP!Event, P!Event, Booking
  <1>3. events[fetched].order \in Orders /\ row[events[fetched].order].trade # NoTrade
    BY <1>1, MessageTyped DEF Booking
  <1> QED
    BY <1>1, <1>2, <1>3 DEF BooksInv, TradesFindRows, FindsItsRows

LEMMA NothingIsInTheWay ==
  ASSUME BooksInv, NeverCreates
  PROVE  PP!NothingInTheWay(Sides)
  <1> SUFFICES ASSUME pc[Consumer] = "position", Side[PP!Event.order] \in Sides \ {"BUY"}
               PROVE  quantity[<<Owner[PP!Event.order], Symbol[PP!Event.order]>>] # Absent
    BY DEF NeverCreates, PP!NothingInTheWay
  <1>1. /\ PP!Event.order = events[fetched].order
        /\ events[fetched].order \in Orders /\ row[events[fetched].order].trade # NoTrade
    BY MessageTyped DEF PP!Event, P!Event, Booking
  <1> QED
    BY <1>1 DEF BooksInv, TradesFindRows, FindsItsRows, Sides

LEMMA RestAgrees ==
  ASSUME BooksInv, PP!PortfolioInv, PP!BookingInv(Sides), TP!SentInv
  PROVE  BooksAgreeAtRest
  <1> SUFFICES ASSUME AtRest, Undisturbed, NEW o \in Orders
               PROVE  IF row[o].trade = NoTrade THEN cashed[o] = 0 /\ positioned[o] = 0
                      ELSE cashed[o] = 1 /\ positioned[o] = 1
    BY DEF BooksAgreeAtRest
  <1>1. CASE row[o].trade = NoTrade
    <2>1. cashed[o] \in Nat /\ positioned[o] \in Nat /\ positioned[o] <= cashed[o]
      BY DEF PP!PortfolioInv, PP!TypeOK, PP!BookedOnceInOrder
    <2>2. ~(cashed[o] > 0)
      BY <1>1 DEF BooksInv, BookedTradesAreStored
    <2> QED
      BY <1>1, <2>1, <2>2
  <1>2. CASE row[o].trade # NoTrade
    <2>1. TP!Sent("TRADE_EXECUTED", o) # {}
      BY <1>2 DEF TP!SentInv, TP!TradesAreSent, TP!NothingLost, AtRest, Undisturbed
    <2>2. PICK i \in DOMAIN events : events[i].type = "TRADE_EXECUTED" /\ events[i].order = o
      BY <2>1 DEF TP!Sent
    <2>3. i \in 1..fetched
      BY LenProperties DEF AtRest, BooksInv, TP!OrderInv, TP!TypeOK
    <2>4. Decoded(events[i]).type = "TRADE_EXECUTED" /\ Decoded(events[i]).order = o
      BY <2>2 DEF Decoded
    <2>5. PP!WaitingMeansBooked(Sides)
      BY SamePortfolioAssumptions, PP!BookingIsDone
    <2>6. PP!Untroubled
      BY DEF Undisturbed, PP!Untroubled, PP!FaultKinds
    <2>7. PP!Booked(o, Sides)
      BY <2>2, <2>3, <2>4, <2>5, <2>6 DEF AtRest, PP!WaitingMeansBooked
    <2>8. Side[o] \in Sides
      BY Types DEF BooksInv, Sides
    <2> QED
      BY <1>2, <2>7, <2>8 DEF PP!Booked
  <1> QED
    BY <1>1, <1>2

(* BooksAgreeAtRest, with any interleaving of the two services.            *)
THEOREM BooksAgreeAtRestHolds == ASSUME AnyBalance PROVE Spec /\ []TopicBounded => []BooksAgreeAtRest
  <1>1. Init => NeverCreates /\ PP!BookingInv(Sides) /\ TP!SentInv
    <2>1. ASSUME Init PROVE NeverCreates
      BY <2>1 DEF Init, P!Init, P!Processes, NeverCreates
    <2>2. ASSUME Init PROVE PP!BookingInv(Sides)
      BY <2>2, SamePortfolioInit, SamePortfolioAssumptions, PP!BookingStarts DEF Init
    <2>3. ASSUME Init PROVE TP!SentInv
      BY <2>3 DEF Init, T!Init, TP!SentInv, TP!TradesAreSent, TP!FillsAreTold
    <2> QED
      BY <2>1, <2>2, <2>3
  <1>2. BooksInv /\ PP!PortfolioInv /\ NeverCreates /\ [PP!Next]_(PP!vars) => NeverCreates'
    BY NeverCreatesStep
  <1>3. BooksInv /\ PP!PortfolioInv /\ NeverCreates /\ PP!BookingInv(Sides) /\ [PP!Next]_(PP!vars)
          => PP!BookingInv(Sides)'
    BY SamePortfolioAssumptions, NothingIsInTheWay, PP!BookingStep
  <1>4. TP!OrderInv /\ TP!SentInv /\ [TP!Next]_(TP!vars) => TP!SentInv'
    BY SameAssumptions, TP!SentStep
  <1>5. BooksInv /\ PP!PortfolioInv /\ PP!BookingInv(Sides) /\ TP!SentInv => BooksAgreeAtRest
    BY RestAgrees
  <1> QED
    BY <1>1, <1>2, <1>3, <1>4, <1>5, EachServiceIsItself, Invariance, PTL DEF Spec

=============================================================================
