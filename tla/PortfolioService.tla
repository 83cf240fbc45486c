-------------------------- MODULE PortfolioService --------------------------
(***************************************************************************)
(* portfolio-service: the HTTP handlers that move cash (Deposit, Withdraw) *)
(* or merely look at it, and the Kafka consumer that books trading-events, *)
(* all of them over the same Postgres tables without a transaction.        *)
(*                                                                         *)
(* Each client request and the consumer is a process; every SQL statement  *)
(* is a step of its own.  An order is identified with the trade it may     *)
(* have (trading-service gives an order at most one trade id).  Of a       *)
(* position only the quantity is kept: average price and realised result   *)
(* are written by the same statement and steer nothing.                    *)
(***************************************************************************)
EXTENDS Integers, Sequences, FiniteSetsExt

CONSTANTS
    Users, Symbols, Orders, Clients,
    Consumer,                      \* the goroutine Consumer.Start
    Owner, Symbol, Side, Qty,      \* attributes of each order
    Kind, Account, Amount,         \* what each client asks, of whose account
    Events,                        \* what trading-service may publish
    Absent,                        \* no such row
    MaxMessages,                   \* bound on the length of the topic
    MaxFaults                      \* bound on the faults of each kind

(* "db": a statement returns an error, before or after it took effect;     *)
(* "commit": ReadMessage fails to commit the offset of a fetched message;  *)
(* "crash": the process dies and is started again.                         *)
FaultKinds == {"db", "commit", "crash"}

Processes == Clients \cup {Consumer}

EventTypes == {"ORDER_FILLED", "ORDER_REJECTED", "ORDER_CANCELLED", "TRADE_EXECUTED"}

ASSUME OrdersAssumption ==
    /\ Owner \in [Orders -> Users] /\ Symbol \in [Orders -> Symbols]
    /\ Side \in [Orders -> {"BUY", "SELL"}] /\ Qty \in [Orders -> Nat \ {0}]
    /\ Events \subseteq [type : EventTypes, order : Orders, gross : Nat]

ASSUME ClientsAssumption ==
    /\ Consumer \notin Clients
    /\ Kind \in [Clients -> {"deposit", "withdraw", "get"}]
    /\ Account \in [Clients -> Users] /\ Amount \in [Clients -> Int]

ASSUME BoundsAssumption ==
    /\ Absent \notin Int
    /\ MaxMessages \in Nat
    /\ MaxFaults \in [FaultKinds -> Nat]

VARIABLES
    cash,       \* portfolios.cash_balance, by user
    quantity,   \* positions.quantity, by user and symbol
    history,    \* orders.status, by order
    trades,     \* the ids in the trades table
    pc,         \* where each process is
    seen,       \* the cash balance each process read last
    answer,     \* what each client was told
    topic,      \* the partition of trading-events, oldest message first
    fetched,    \* how many messages the reader of this session has fetched
    committed,  \* the offset committed for the consumer group
    faults,     \* faults spent, by kind
    (* history variables *)
    handled,    \* how often ProcessTradingEvent was called for a message
    cashed,     \* how often an order's trade was written to cash
    positioned, \* how often an order's trade was written to a position
    moved,      \* clients whose new balance was written
    spent       \* what the purchases booked so far cost, by user

tables == <<cash, quantity, history, trades>>
log == <<topic, fetched, committed>>
ghosts == <<handled, cashed, positioned, moved, spent>>
vars == <<tables, pc, seen, answer, log, faults, ghosts>>

-----------------------------------------------------------------------------
Statuses == {"FILLED", "REJECTED", "CANCELLED"}

ClientSteps == {"idle", "create", "write", "done"}
ConsumerSteps == {"idle", "status", "order", "trade", "get", "create", "cash", "position"}

TypeOK ==
    /\ cash \in [Users -> Int \cup {Absent}]
    /\ quantity \in [Users \X Symbols -> Nat \cup {Absent}]
    /\ history \in [Orders -> Statuses \cup {Absent}]
    /\ trades \subseteq Orders
    /\ pc \in [Processes -> ClientSteps \cup ConsumerSteps]
    /\ seen \in [Processes -> Int]
    /\ answer \in [Clients -> {"none", "ok", "BAD_REQUEST", "INSUFFICIENT_BALANCE",
                               "INTERNAL_ERROR", "connection lost"}]
    /\ topic \in Seq(Events)
    /\ fetched \in Nat /\ committed \in Nat
    /\ faults \in [FaultKinds -> Nat]
    /\ handled \in [1..MaxMessages -> Nat]
    /\ cashed \in [Orders -> Nat] /\ positioned \in [Orders -> Nat]
    /\ moved \subseteq Clients
    /\ spent \in [Users -> Nat]

Init ==
    /\ cash = [u \in Users |-> Absent]
    /\ quantity = [p \in Users \X Symbols |-> Absent]
    /\ history = [o \in Orders |-> Absent]
    /\ trades = {}
    /\ pc = [p \in Processes |-> "idle"]
    /\ seen = [p \in Processes |-> 0]
    /\ answer = [c \in Clients |-> "none"]
    /\ topic = <<>> /\ fetched = 0 /\ committed = 0
    /\ faults = [k \in FaultKinds |-> 0]
    /\ handled = [i \in 1..MaxMessages |-> 0]
    /\ cashed = [o \in Orders |-> 0] /\ positioned = [o \in Orders |-> 0]
    /\ moved = {} /\ spent = [u \in Users |-> 0]

-----------------------------------------------------------------------------
Spend(kind) ==
    /\ faults[kind] < MaxFaults[kind]
    /\ faults' = [faults EXCEPT ![kind] = @ + 1]

Goto(p, step) == pc' = [pc EXCEPT ![p] = step]

Respond(c, a) ==
    /\ Goto(c, "done")
    /\ answer' = [answer EXCEPT ![c] = a]

(* The message being processed: ReadMessage returned it last.              *)
Event == topic[fetched]

(* Faulty variant of Abandon: the consumer tries the statement again.      *)
AbandonOrRetry(p) ==
    IF p = Consumer THEN UNCHANGED <<pc, answer>> ELSE Respond(p, "INTERNAL_ERROR")

(* The error of a statement ends the request of a client with a 500; the   *)
(* consumer logs it and turns to the next message.                         *)
Abandon(p) ==
    IF p = Consumer THEN Goto(p, "idle") /\ UNCHANGED answer
    ELSE Respond(p, "INTERNAL_ERROR")

UserOf(p) == IF p = Consumer THEN Owner[Event.order] ELSE Account[p]

(* Where GetOrCreatePortfolio returns to.                                  *)
AfterGet(p) == IF p = Consumer THEN "cash" ELSE "write"

-----------------------------------------------------------------------------
(* Repository.GetOrCreatePortfolio: SELECT, then INSERT if there was none. *)

SelectPortfolio(p) ==
    /\ \/ /\ cash[UserOf(p)] # Absent
          /\ seen' = [seen EXCEPT ![p] = cash[UserOf(p)]]
          /\ Goto(p, AfterGet(p))
          /\ UNCHANGED <<answer, faults>>
       \/ /\ cash[UserOf(p)] = Absent
          /\ Goto(p, "create")
          /\ UNCHANGED <<seen, answer, faults>>
       \/ Spend("db") /\ Abandon(p) /\ UNCHANGED seen
    /\ UNCHANGED <<tables, log, ghosts>>

(* Faulty variant of Taken: INSERT ... ON CONFLICT DO UPDATE.              *)
TakenNever(u) == FALSE

(* A plain INSERT: a row another process inserted in between is a primary  *)
(* key error.                                                              *)
Taken(u) == cash[u] # Absent

CreatePortfolio(p) ==
    /\ pc[p] = "create"
    /\ LET u == UserOf(p) IN
       \/ /\ ~Taken(u)
          /\ cash' = [cash EXCEPT ![u] = 0]
          /\ seen' = [seen EXCEPT ![p] = 0]
          /\ Goto(p, AfterGet(p))
          /\ UNCHANGED <<answer, faults>>
       \/ /\ Taken(u)
          /\ Abandon(p)
          /\ UNCHANGED <<cash, seen, faults>>
       \/ /\ Spend("db")
          /\ cash' \in {cash, IF Taken(u) THEN cash ELSE [cash EXCEPT ![u] = 0]}
          /\ Abandon(p)
          /\ UNCHANGED seen
    /\ UNCHANGED <<quantity, history, trades, log, ghosts>>

-----------------------------------------------------------------------------
(* PortfolioService.Deposit, Withdraw and the handlers that only read      *)

RefuseAmount(c) ==
    /\ Respond(c, "BAD_REQUEST")
    /\ UNCHANGED <<tables, seen, log, faults, ghosts>>

(* A transfer of nothing or less does not get to the tables.               *)
Begin(c) ==
    /\ pc[c] = "idle"
    /\ IF Kind[c] # "get" /\ Amount[c] <= 0 THEN RefuseAmount(c) ELSE SelectPortfolio(c)

(* The handler returns the balance it read.                                *)
ReturnBalance(c) ==
    /\ pc[c] = "write" /\ Kind[c] = "get"
    /\ Respond(c, "ok")
    /\ UNCHANGED <<tables, seen, log, faults, ghosts>>

(* Faulty variant of Overdrawn: the balance is not compared.               *)
OverdrawnNever(c) == FALSE

Overdrawn(c) == Kind[c] = "withdraw" /\ seen[c] < Amount[c]

RefuseWithdrawal(c) ==
    /\ pc[c] = "write" /\ Overdrawn(c)
    /\ Respond(c, "INSUFFICIENT_BALANCE")
    /\ UNCHANGED <<tables, seen, log, faults, ghosts>>

NewBalance(c) == IF Kind[c] = "deposit" THEN seen[c] + Amount[c] ELSE seen[c] - Amount[c]

(* UpdateCashBalance: an UPDATE to the absolute value computed from what   *)
(* was read.                                                               *)
WriteBalance(c) ==
    /\ pc[c] = "write" /\ Kind[c] # "get" /\ ~Overdrawn(c)
    /\ LET written == [cash EXCEPT ![Account[c]] = NewBalance(c)] IN
       \/ /\ cash' = written /\ moved' = moved \cup {c}
          /\ Respond(c, "ok")
          /\ UNCHANGED faults
       \/ /\ Spend("db")
          /\ \/ cash' = written /\ moved' = moved \cup {c}
             \/ UNCHANGED <<cash, moved>>
          /\ Respond(c, "INTERNAL_ERROR")
    /\ UNCHANGED <<quantity, history, trades, seen, log, handled, cashed, positioned, spent>>

-----------------------------------------------------------------------------
(* Consumer.Start: ReadMessage, then ProcessTradingEvent                   *)

(* Faulty variant of ReadMessage: FetchMessage, with the message committed *)
(* only when the next one is fetched.                                      *)
FetchMessage ==
    /\ pc[Consumer] = "idle" /\ fetched < Len(topic)
    /\ fetched' = fetched + 1
    /\ committed' = fetched
    /\ handled' = [handled EXCEPT ![fetched + 1] = @ + 1]
    /\ Goto(Consumer, IF topic[fetched + 1].type = "TRADE_EXECUTED" THEN "order" ELSE "status")
    /\ UNCHANGED <<tables, seen, answer, topic, faults, cashed, positioned, moved, spent>>

(* reader.ReadMessage in a consumer group commits the offset of a message  *)
(* before it returns it.                                                   *)
ReadMessage ==
    /\ pc[Consumer] = "idle" /\ fetched < Len(topic)
    /\ fetched' = fetched + 1
    /\ committed' = fetched + 1
    /\ handled' = [handled EXCEPT ![fetched + 1] = @ + 1]
    /\ Goto(Consumer, IF topic[fetched + 1].type = "TRADE_EXECUTED" THEN "order" ELSE "status")
    /\ UNCHANGED <<tables, seen, answer, topic, faults, cashed, positioned, moved, spent>>

(* The commit fails: ReadMessage returns the error, Start logs it and goes *)
(* on with the next message; this one comes back only after a restart.     *)
CommitFails ==
    /\ pc[Consumer] = "idle" /\ fetched < Len(topic)
    /\ Spend("commit")
    /\ fetched' = fetched + 1
    /\ committed' \in {committed, fetched + 1}
    /\ UNCHANGED <<tables, pc, seen, answer, topic, ghosts>>

StatusOf(type) == CASE type = "ORDER_FILLED"    -> "FILLED"
                    [] type = "ORDER_REJECTED"  -> "REJECTED"
                    [] type = "ORDER_CANCELLED" -> "CANCELLED"

(* handleOrderFilled, handleOrderRejected, handleOrderCancelled: an UPDATE *)
(* that matches no row if the order is not in the history.                 *)
UpdateOrderStatus ==
    /\ pc[Consumer] = "status"
    /\ LET updated == [history EXCEPT ![Event.order] =
                          IF @ = Absent THEN Absent ELSE StatusOf(Event.type)]
       IN \/ history' = updated /\ UNCHANGED faults
          \/ history' \in {history, updated} /\ Spend("db")
    /\ Goto(Consumer, "idle")
    /\ UNCHANGED <<cash, quantity, trades, seen, answer, log, ghosts>>

(* handleTradeExecuted                                                     *)

(* INSERT ... ON CONFLICT DO NOTHING, its error ignored.                   *)
InsertOrder ==
    /\ pc[Consumer] = "order"
    /\ LET inserted == [history EXCEPT ![Event.order] = IF @ = Absent THEN "FILLED" ELSE @]
       IN \/ history' = inserted /\ UNCHANGED faults
          \/ history' \in {history, inserted} /\ Spend("db")
    /\ Goto(Consumer, "trade")
    /\ UNCHANGED <<cash, quantity, trades, seen, answer, log, ghosts>>

(* Faulty variants of Duplicate: INSERT ... ON CONFLICT DO NOTHING;        *)
(* duplicates recognised by the order history, which InsertOrder has just  *)
(* filled.                                                                 *)
DuplicateNever(o) == FALSE
DuplicateByHistory(o) == history[o] # Absent

Duplicate(o) == o \in trades

(* A trade that is already there is a primary key error, which ends the    *)
(* handler: this is what keeps a repeated message from being booked again. *)
InsertTrade ==
    /\ pc[Consumer] = "trade"
    /\ \/ /\ ~Duplicate(Event.order)
          /\ trades' = trades \cup {Event.order}
          /\ Goto(Consumer, "get")
          /\ UNCHANGED <<answer, faults>>
       \/ /\ Duplicate(Event.order)
          /\ Abandon(Consumer)
          /\ UNCHANGED <<trades, faults>>
       \/ /\ Spend("db")
          /\ trades' \in {trades, trades \cup {Event.order}}
          /\ Abandon(Consumer)
    /\ UNCHANGED <<cash, quantity, history, seen, log, ghosts>>

GetTrader == pc[Consumer] = "get" /\ SelectPortfolio(Consumer)

(* Faulty variant of Signed: a purchase is credited and a sale debited.    *)
SignedBackwards(e) == IF Side[e.order] = "BUY" THEN e.gross ELSE 0 - e.gross

Signed(e) == IF Side[e.order] = "BUY" THEN 0 - e.gross ELSE e.gross

(* UpdateCashBalance, absolute like the clients' one.                      *)
UpdateCash ==
    /\ pc[Consumer] = "cash"
    /\ LET written == [cash EXCEPT ![Owner[Event.order]] = seen[Consumer] + Signed(Event)]
           counted == [cashed EXCEPT ![Event.order] = @ + 1]
           paid == [spent EXCEPT ![Owner[Event.order]] =
                       IF Side[Event.order] = "BUY" THEN @ + Event.gross ELSE @]
       IN \/ /\ cash' = written /\ cashed' = counted /\ spent' = paid
             /\ Goto(Consumer, "position")
             /\ UNCHANGED <<answer, faults>>
          \/ /\ Spend("db")
             /\ \/ cash' = written /\ cashed' = counted /\ spent' = paid
                \/ UNCHANGED <<cash, cashed, spent>>
             /\ Abandon(Consumer)
    /\ UNCHANGED <<quantity, history, trades, seen, log, handled, positioned, moved>>

(* Faulty variant of Positioned: a sale of more than there is.             *)
PositionedUnclamped(q, o) ==
    (IF q = Absent THEN 0 ELSE q) + (IF Side[o] = "BUY" THEN Qty[o] ELSE 0 - Qty[o])

(* The new quantity of a position; a sale never leaves it below zero.      *)
Positioned(q, o) ==
    IF Side[o] = "BUY" THEN (IF q = Absent THEN 0 ELSE q) + Qty[o]
    ELSE IF q <= Qty[o] THEN 0 ELSE q - Qty[o]

(* GetPosition and UpsertPosition in one step: no other process writes     *)
(* positions.  A sale without a position is an error.                      *)
UpdatePosition ==
    /\ pc[Consumer] = "position"
    /\ LET o == Event.order
           p == <<Owner[o], Symbol[o]>>
           written == [quantity EXCEPT ![p] = Positioned(@, o)]
           counted == [positioned EXCEPT ![o] = @ + 1]
       IN \/ /\ Side[o] = "BUY" \/ quantity[p] # Absent
             /\ quantity' = written /\ positioned' = counted
             /\ UNCHANGED faults \/ Spend("db")
          \/ /\ Side[o] = "SELL" /\ quantity[p] = Absent
             /\ UNCHANGED <<quantity, positioned, faults>>
          \/ Spend("db") /\ UNCHANGED <<quantity, positioned>>
    /\ Goto(Consumer, "idle")
    /\ UNCHANGED <<cash, history, trades, seen, answer, log, handled, cashed, moved, spent>>

-----------------------------------------------------------------------------
(* trading-service publishes, repeated messages included.                  *)
Publish(e) ==
    /\ Len(topic) < MaxMessages
    /\ topic' = Append(topic, e)
    /\ UNCHANGED <<tables, pc, seen, answer, fetched, committed, faults, ghosts>>

InFlight(c) == pc[c] \in {"create", "write"}

(* The process dies and comes back: requests in flight are lost, and the   *)
(* new reader starts at the committed offset.                              *)
Restart ==
    /\ Spend("crash")
    /\ pc' = [p \in Processes |->
                 IF p = Consumer THEN "idle" ELSE IF InFlight(p) THEN "done" ELSE pc[p]]
    /\ answer' = [c \in Clients |-> IF InFlight(c) THEN "connection lost" ELSE answer[c]]
    /\ fetched' = committed
    /\ UNCHANGED <<tables, seen, topic, committed, ghosts>>

Serve(c) ==
    \/ CreatePortfolio(c) \/ ReturnBalance(c) \/ RefuseWithdrawal(c) \/ WriteBalance(c)

Consume ==
    \/ ReadMessage \/ CommitFails
    \/ UpdateOrderStatus
    \/ InsertOrder \/ InsertTrade \/ GetTrader \/ CreatePortfolio(Consumer)
    \/ UpdateCash \/ UpdatePosition

Next ==
    \/ \E c \in Clients : Begin(c) \/ Serve(c)
    \/ Consume
    \/ \E e \in Events : Publish(e)
    \/ Restart

(* The consumer loop and a started handler go on; clients and              *)
(* trading-service owe nothing.                                            *)
Fairness == WF_vars(Consume) /\ \A c \in Clients : WF_vars(Serve(c))

Spec == Init /\ [][Next]_vars /\ Fairness

-----------------------------------------------------------------------------
(* Properties                                                              *)

(* A message is handed to ProcessTradingEvent at most once, across commit  *)
(* errors and restarts (the offset is committed before it is processed):   *)
(* the other side of the loss that DeliveredAtLeastOnce shows.             *)
HandledAtMostOnce == \A i \in 1..MaxMessages : handled[i] <= 1

(* However often a trade is published, read or half processed, it moves    *)
(* cash and the position at most once, and the position only after the     *)
(* cash and the cash only after its row in trades (InsertTrade comes first *)
(* and fails on the second copy).                                          *)
BookedOnceInOrder ==
    \A o \in Orders :
        /\ positioned[o] <= cashed[o] /\ cashed[o] <= 1
        /\ cashed[o] = 1 => o \in trades

(* An existing balance changes only where a transfer or a trade is         *)
(* written: no race to create a portfolio wipes it (plain INSERT in        *)
(* CreatePortfolio).                                                       *)
MoneyMovesForAReason ==
    [][\A u \in Users : cash[u] # Absent /\ cash'[u] # cash[u] =>
          \/ \E c \in Clients : Account[c] = u /\ c \in moved' \ moved
          \/ \E o \in Orders : Owner[o] = u /\ cashed'[o] > cashed[o]]_vars

(* Only purchases bring a balance below zero: whatever transfers and trades*)
(* overwrite each other, an account is never overdrawn by more than the    *)
(* purchases booked on it (the check of Withdraw on the balance it read).  *)
OnlyPurchasesOverdraw ==
    \A u \in Users : cash[u] # Absent => cash[u] + spent[u] >= 0

(* The consumer always comes back to waiting with every message read: no   *)
(* message blocks it ("errors are logged and do not stop the consumer").   *)
TopicIsDrained == []<>(fetched = Len(topic) /\ pc[Consumer] = "idle")

(* What the tables and the history say to a Ledger.                        *)
TheLedger == INSTANCE Ledger WITH
    Gross     <- [o \in Orders |-> {e.gross : e \in {x \in Events : x.order = o}}],
    balance   <- [u \in Users |-> IF cash[u] = Absent THEN 0 ELSE cash[u]],
    holding   <- [p \in Users \X Symbols |-> IF quantity[p] = Absent THEN 0 ELSE quantity[p]],
    paid      <- {o \in Orders : cashed[o] > 0},
    delivered <- {o \in Orders : positioned[o] > 0},
    done      <- moved

(* What a process has read of its account is still there.                  *)
UpToDate(p) == seen[p] = cash[UserOf(p)]

(* A process writes a balance computed from one that is gone.              *)
WritesStale == \E p \in Processes : pc[p] = AfterGet(p) /\ pc'[p] # pc[p] /\ ~UpToDate(p)

(* Whatever fails, comes twice or starts again, each step that changes     *)
(* money or shares is one of a Ledger, but for the write of a balance that *)
(* was computed from an outdated one (Deposit, Withdraw and                *)
(* handleTradeExecuted read, compute and write without a transaction).     *)
LedgerUnlessStale ==
    TheLedger!Init /\ [][TheLedger!Next \/ WritesStale]_(TheLedger!vars)

(* So the service is a Ledger as long as the writers of an account take    *)
(* turns.                                                                  *)
ImplementsLedger == TheLedger!Spec

Active(p) == IF p = Consumer THEN pc[p] \in {"create", "cash"} ELSE InFlight(p)

(* Nobody reads a balance somebody else is about to overwrite.             *)
TurnsTaken ==
    \A p, q \in Processes : p # q /\ Active(p) /\ Active(q) => UserOf(p) # UserOf(q)

(* The service when the writers of an account take turns.                  *)
SerialSpec ==
    /\ Init /\ [][Next /\ TurnsTaken']_vars
    /\ WF_vars(Consume /\ TurnsTaken')
    /\ \A c \in Clients : WF_vars(Serve(c) /\ TurnsTaken')

-----------------------------------------------------------------------------
(* What a document and a test say and the code does not do                 *)

(* At-least-once delivery: the offset of a trade is committed when the     *)
(* trade has been processed ("Kafka.md", "Kafka trading-events.md").       *)
DeliveredAtLeastOnce ==
    \A i \in 1..committed :
        topic[i].type = "TRADE_EXECUTED" =>
            \/ topic[i].order \in trades
            \/ i = fetched /\ pc[Consumer] # "idle"

(* Deposits that were accepted add up (TestDepositMultiple).               *)
DepositsAddUp ==
    \A u \in Users :
        LET mine == {c \in Clients : Account[c] = u} IN
        mine # {} /\ (\A c \in mine : Kind[c] = "deposit" /\ answer[c] = "ok")
            => cash[u] = MapThenSumSet(LAMBDA c : Amount[c], mine)

=============================================================================
