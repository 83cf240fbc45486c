--------------------------- MODULE PortfolioProofs ---------------------------
(***************************************************************************)
(* Theorems about PortfolioService, for any users, orders and clients, any *)
(* length of the topic and any number of faults.                           *)
(*                                                                         *)
(* The argument: an offset is committed before its message is handled, so  *)
(* what has been handled lies below the committed offset and is never read *)
(* again; a row in trades comes before the cash and is never deleted, so   *)
(* the consumer only books a trade nobody booked; and what a process has   *)
(* read is, like the table itself, overdrawn by purchases only.            *)
(***************************************************************************)
EXTENDS PortfolioService, SequenceTheorems, TLAPS

(* Each process is at a step of its own kind.                              *)
StepsOfTheirKind ==
    /\ \A c \in Clients : pc[c] \in ClientSteps
    /\ pc[Consumer] \in ConsumerSteps

(* The reader is ahead of what is committed, and within the topic.         *)
LogInOrder ==
    /\ committed <= fetched /\ fetched <= Len(topic) /\ Len(topic) <= MaxMessages
    /\ pc[Consumer] # "idle" => fetched >= 1

(* What was handled is committed.                                          *)
HandledIsCommitted ==
    \A i \in 1..MaxMessages : handled[i] <= 1 /\ (handled[i] = 1 => i <= committed)

(* How far the booking of the trade the consumer works on has come.        *)
BookingInStep ==
    /\ pc[Consumer] = "status" => Event.type # "TRADE_EXECUTED"
    /\ pc[Consumer] \in {"get", "create", "cash"} =>
          Event.order \in trades /\ cashed[Event.order] = 0
    /\ pc[Consumer] = "position" =>
          cashed[Event.order] = 1 /\ positioned[Event.order] = 0

(* A client is let through with a positive amount, and moves money last.   *)
TransfersAreSound ==
    \A c \in Clients :
        /\ pc[c] \in {"create", "write"} => Kind[c] = "get" \/ Amount[c] > 0
        /\ c \in moved => pc[c] = "done"

(* What a process has read was overdrawn by purchases only.                *)
ReadingsAreCovered ==
    /\ \A c \in Clients : pc[c] = "write" => seen[c] + spent[Account[c]] >= 0
    /\ pc[Consumer] = "cash" => seen[Consumer] + spent[Owner[Event.order]] >= 0

PortfolioInv ==
    /\ TypeOK
    /\ StepsOfTheirKind
    /\ LogInOrder
    /\ HandledIsCommitted
    /\ BookedOnceInOrder /\ BookingInStep
    /\ TransfersAreSound
    /\ OnlyPurchasesOverdraw /\ ReadingsAreCovered

-----------------------------------------------------------------------------
(* The message the consumer works on.                                      *)
LEMMA EventTyped ==
  ASSUME TypeOK, LogInOrder, pc[Consumer] # "idle"
  PROVE  /\ fetched \in 1..Len(topic)
         /\ Event \in Events /\ Event.order \in Orders /\ Event.gross \in Nat
         /\ Owner[Event.order] \in Users /\ Symbol[Event.order] \in Symbols
  <1>0. Len(topic) \in Nat /\ fetched \in Nat
    BY LenProperties DEF TypeOK
  <1>1. fetched \in 1..Len(topic)
    BY <1>0 DEF LogInOrder
  <1>2. Event \in Events
    BY <1>1, ElementOfSeq DEF TypeOK, Event
  <1> QED
    BY <1>1, <1>2, OrdersAssumption

LEMMA UserTyped ==
  ASSUME TypeOK, LogInOrder, NEW p \in Processes, p = Consumer => pc[p] # "idle"
  PROVE  UserOf(p) \in Users
  BY EventTyped, ClientsAssumption DEF UserOf, Processes

LEMMA FaultsStayTyped ==
  ASSUME TypeOK, NEW kind \in FaultKinds, UNCHANGED faults \/ Spend(kind)
  PROVE  faults' \in [FaultKinds -> Nat]
  <1>1. faults \in [FaultKinds -> Nat]
    BY DEF TypeOK
  <1> QED
    BY <1>1 DEF Spend

LEMMA InitEstablishes == Init => PortfolioInv
  <1> SUFFICES ASSUME Init PROVE PortfolioInv
    OBVIOUS
  <1>1. TypeOK
    BY BoundsAssumption DEF Init, TypeOK, FaultKinds, Processes, ClientSteps
  <1>2. LogInOrder /\ HandledIsCommitted
    BY BoundsAssumption, ClientsAssumption DEF Init, LogInOrder, HandledIsCommitted, Processes
  <1>3. StepsOfTheirKind /\ BookingInStep /\ TransfersAreSound /\ ReadingsAreCovered
    BY DEF Init, StepsOfTheirKind, BookingInStep, TransfersAreSound, ReadingsAreCovered,
           Processes, ClientSteps, ConsumerSteps
  <1>4. BookedOnceInOrder /\ OnlyPurchasesOverdraw
    BY DEF Init, BookedOnceInOrder, OnlyPurchasesOverdraw
  <1> QED
    BY <1>1, <1>2, <1>3, <1>4 DEF PortfolioInv

-----------------------------------------------------------------------------
(* GetOrCreatePortfolio, for a client and for the consumer                 *)

(* The SELECT reads the balance and changes no table.                      *)
LEMMA SelectStep ==
  ASSUME PortfolioInv, NEW p \in Processes, SelectPortfolio(p),
         p = Consumer => pc[p] = "get",
         p # Consumer => pc[p] = "idle" /\ (Kind[p] = "get" \/ Amount[p] > 0)
  PROVE  PortfolioInv'
  <1> USE DEF PortfolioInv, SelectPortfolio, Abandon, Respond, Goto, AfterGet,
              tables, log, ghosts
  <1>0. /\ pc \in [Processes -> ClientSteps \cup ConsumerSteps]
        /\ seen \in [Processes -> Int] /\ cash \in [Users -> Int \cup {Absent}]
        /\ spent \in [Users -> Nat]
    BY DEF TypeOK
  <1>1. UserOf(p) \in Users
    BY UserTyped
  <1>2. \A q \in Processes : q # p => pc'[q] = pc[q] /\ seen'[q] = seen[q]
    BY <1>0
  <1>3. \/ cash[UserOf(p)] # Absent /\ seen'[p] = cash[UserOf(p)] /\ pc'[p] = AfterGet(p)
        \/ seen'[p] = seen[p] /\ pc'[p] = "create"
        \/ seen'[p] = seen[p] /\ pc'[p] = IF p = Consumer THEN "idle" ELSE "done"
    BY <1>0
  <1>4. TypeOK'
    <2>1. seen' \in [Processes -> Int]
      BY <1>0, <1>1
    <2>2. faults' \in [FaultKinds -> Nat]
      BY FaultsStayTyped DEF FaultKinds
    <2>3. pc' \in [Processes -> ClientSteps \cup ConsumerSteps]
      BY <1>0 DEF ClientSteps, ConsumerSteps
    <2> QED
      BY <2>1, <2>2, <2>3 DEF TypeOK, Processes
  <1> HIDE DEF SelectPortfolio
  <1>5. UNCHANGED <<cash, trades, topic, fetched, committed, handled, cashed, positioned, moved, spent>>
    BY DEF SelectPortfolio
  <1>6. StepsOfTheirKind'
    BY <1>2, <1>3, ClientsAssumption
    DEF StepsOfTheirKind, Processes, ClientSteps, ConsumerSteps
  <1>7. LogInOrder' /\ HandledIsCommitted'
    BY <1>2, <1>3, <1>5 DEF LogInOrder, HandledIsCommitted, Processes
  <1>8. BookedOnceInOrder' /\ BookingInStep'
    BY <1>2, <1>3, <1>5 DEF BookedOnceInOrder, BookingInStep, Event, Processes
  <1>9. TransfersAreSound'
    BY <1>2, <1>3, <1>5, ClientsAssumption DEF TransfersAreSound, Processes
  <1>10. OnlyPurchasesOverdraw'
    BY <1>5 DEF OnlyPurchasesOverdraw
  <1>11. ReadingsAreCovered'
    BY <1>1, <1>2, <1>3, <1>5, ClientsAssumption
    DEF OnlyPurchasesOverdraw, ReadingsAreCovered, UserOf, Event, Processes
  <1> QED
    BY <1>4, <1>6, <1>7, <1>8, <1>9, <1>10, <1>11

(* The INSERT gives a new portfolio a balance of zero.                     *)
LEMMA CreatePortfolioStep ==
  ASSUME PortfolioInv, NEW p \in Processes, CreatePortfolio(p)
  PROVE  PortfolioInv'
  <1> USE DEF PortfolioInv, CreatePortfolio, Abandon, Respond, Goto, AfterGet, Taken,
              log, ghosts
  <1>0. /\ pc \in [Processes -> ClientSteps \cup ConsumerSteps]
        /\ seen \in [Processes -> Int] /\ cash \in [Users -> Int \cup {Absent}]
        /\ spent \in [Users -> Nat] /\ cashed \in [Orders -> Nat]
    BY DEF TypeOK
  <1>1. UserOf(p) \in Users
    BY UserTyped
  <1>2. \A q \in Processes : q # p => pc'[q] = pc[q] /\ seen'[q] = seen[q]
    BY <1>0
  <1>3. /\ pc[p] = "create"
        /\ \/ seen'[p] = 0 /\ pc'[p] = AfterGet(p)
           \/ seen'[p] = seen[p] /\ pc'[p] = IF p = Consumer THEN "idle" ELSE "done"
    BY <1>0
  <1>4. cash' = cash \/ cash' = [cash EXCEPT ![UserOf(p)] = 0]
    OBVIOUS
  <1>5. TypeOK'
    <2>1. seen' \in [Processes -> Int] /\ cash' \in [Users -> Int \cup {Absent}]
      BY <1>0, <1>4
    <2>2. faults' \in [FaultKinds -> Nat]
      BY FaultsStayTyped DEF FaultKinds
    <2>3. pc' \in [Processes -> ClientSteps \cup ConsumerSteps]
      BY <1>0 DEF ClientSteps, ConsumerSteps
    <2> QED
      BY <2>1, <2>2, <2>3 DEF TypeOK, Processes
  <1> HIDE DEF CreatePortfolio
  <1>6. UNCHANGED <<trades, topic, fetched, committed, handled, cashed, positioned, moved, spent>>
    BY DEF CreatePortfolio
  <1>7. StepsOfTheirKind'
    BY <1>2, <1>3, ClientsAssumption
    DEF StepsOfTheirKind, Processes, ClientSteps, ConsumerSteps
  <1>8. LogInOrder' /\ HandledIsCommitted'
    BY <1>2, <1>3, <1>6 DEF LogInOrder, HandledIsCommitted, Processes
  <1>9. BookedOnceInOrder' /\ BookingInStep'
    BY <1>2, <1>3, <1>6 DEF BookedOnceInOrder, BookingInStep, Event, Processes
  <1>10. TransfersAreSound'
    BY <1>2, <1>3, <1>6, ClientsAssumption DEF TransfersAreSound, Processes
  <1>11. OnlyPurchasesOverdraw'
    BY <1>0, <1>4, <1>6 DEF OnlyPurchasesOverdraw
  <1>12. ReadingsAreCovered'
    BY <1>0, <1>1, <1>2, <1>3, <1>6, ClientsAssumption
    DEF ReadingsAreCovered, UserOf, Event, Processes
  <1> QED
    BY <1>5, <1>7, <1>8, <1>9, <1>10, <1>11, <1>12

-----------------------------------------------------------------------------
(* Clients                                                                 *)

(* An answer without a change of any table.                                *)
LEMMA RespondStep ==
  ASSUME PortfolioInv, NEW c \in Clients,
         NEW a \in {"ok", "BAD_REQUEST", "INSUFFICIENT_BALANCE"}, Respond(c, a),
         UNCHANGED <<tables, seen, log, faults, ghosts>>
  PROVE  PortfolioInv'
  <1> USE DEF PortfolioInv, tables, log, ghosts
  <1>1. /\ pc \in [Processes -> ClientSteps \cup ConsumerSteps]
        /\ pc' = [pc EXCEPT ![c] = "done"] /\ c # Consumer /\ c \in Processes
    BY ClientsAssumption DEF TypeOK, Respond, Goto, Processes
  <1>2. \A q \in Processes : pc'[q] = IF q = c THEN "done" ELSE pc[q]
    BY <1>1
  <1>3. TypeOK'
    BY <1>1 DEF TypeOK, Respond, ClientSteps
  <1>4. StepsOfTheirKind'
    BY <1>1, <1>2 DEF StepsOfTheirKind, Processes, ClientSteps
  <1>5. LogInOrder' /\ HandledIsCommitted' /\ BookedOnceInOrder' /\ OnlyPurchasesOverdraw'
    BY <1>1, <1>2
    DEF LogInOrder, HandledIsCommitted, BookedOnceInOrder, OnlyPurchasesOverdraw, Processes
  <1>6. BookingInStep' /\ TransfersAreSound' /\ ReadingsAreCovered'
    BY <1>1, <1>2
    DEF BookingInStep, TransfersAreSound, ReadingsAreCovered, Event, Processes
  <1> QED
    BY <1>3, <1>4, <1>5, <1>6

(* The UPDATE of a transfer.                                               *)
LEMMA WriteBalanceStep ==
  ASSUME PortfolioInv, NEW c \in Clients, WriteBalance(c)
  PROVE  PortfolioInv'
  <1> USE DEF PortfolioInv, WriteBalance, Respond, Goto, log
  <1>1. /\ pc \in [Processes -> ClientSteps \cup ConsumerSteps]
        /\ seen \in [Processes -> Int] /\ cash \in [Users -> Int \cup {Absent}]
        /\ spent \in [Users -> Nat] /\ moved \subseteq Clients
        /\ c # Consumer /\ c \in Processes
        /\ Account[c] \in Users /\ Amount[c] \in Int
    BY ClientsAssumption DEF TypeOK, Processes
  <1>2. /\ pc[c] = "write"
        /\ \A q \in Processes : pc'[q] = IF q = c THEN "done" ELSE pc[q]
    BY <1>1
  <1>3. NewBalance(c) \in Int /\ NewBalance(c) + spent[Account[c]] >= 0
    <2>1. seen[c] \in Int /\ spent[Account[c]] \in Nat /\ seen[c] + spent[Account[c]] >= 0
      BY <1>1, <1>2 DEF ReadingsAreCovered
    <2>2. CASE Kind[c] = "deposit"
      <3>1. Amount[c] > 0
        BY <1>2, <2>2 DEF TransfersAreSound
      <3> QED
        BY <1>1, <2>1, <2>2, <3>1 DEF NewBalance
    <2>3. CASE Kind[c] = "withdraw"
      <3>1. ~ (seen[c] < Amount[c])
        BY <2>3 DEF Overdrawn
      <3> QED
        BY <1>1, <2>1, <2>3, <3>1 DEF NewBalance
    <2> QED
      BY <2>2, <2>3, ClientsAssumption
  <1>4. /\ cash' = cash \/ cash' = [cash EXCEPT ![Account[c]] = NewBalance(c)]
        /\ moved' = moved \/ moved' = moved \cup {c}
    OBVIOUS
  <1>5. TypeOK'
    <2>1. cash' \in [Users -> Int \cup {Absent}] /\ moved' \subseteq Clients
      BY <1>1, <1>3, <1>4
    <2>2. faults' \in [FaultKinds -> Nat]
      BY FaultsStayTyped DEF FaultKinds
    <2>3. pc' \in [Processes -> ClientSteps \cup ConsumerSteps]
      BY <1>1 DEF ClientSteps
    <2> QED
      BY <2>1, <2>2, <2>3 DEF TypeOK
  <1> HIDE DEF WriteBalance
  <1>6. UNCHANGED <<trades, seen, topic, fetched, committed, handled, cashed, positioned, spent>>
    BY DEF WriteBalance
  <1>7. StepsOfTheirKind'
    BY <1>1, <1>2 DEF StepsOfTheirKind, Processes, ClientSteps
  <1>8. LogInOrder' /\ HandledIsCommitted'
    BY <1>1, <1>2, <1>6 DEF LogInOrder, HandledIsCommitted, Processes
  <1>9. BookedOnceInOrder' /\ BookingInStep'
    BY <1>1, <1>2, <1>6 DEF BookedOnceInOrder, BookingInStep, Event, Processes
  <1>10. TransfersAreSound'
    BY <1>1, <1>2, <1>4, <1>6 DEF TransfersAreSound, Processes
  <1>11. OnlyPurchasesOverdraw'
    BY <1>1, <1>3, <1>4, <1>6 DEF OnlyPurchasesOverdraw
  <1>12. ReadingsAreCovered'
    BY <1>1, <1>2, <1>6 DEF ReadingsAreCovered, Event, Processes
  <1> QED
    BY <1>5, <1>7, <1>8, <1>9, <1>10, <1>11, <1>12

-----------------------------------------------------------------------------
(* The consumer                                                            *)

(* A step of the consumer leaves the clients where they are.               *)
LEMMA ClientsUndisturbed ==
  ASSUME PortfolioInv, NEW step \in ConsumerSteps, Goto(Consumer, step),
         UNCHANGED <<seen, moved>>, UNCHANGED spent
  PROVE  /\ pc' \in [Processes -> ClientSteps \cup ConsumerSteps]
         /\ pc'[Consumer] = step
         /\ StepsOfTheirKind' /\ TransfersAreSound'
         /\ \A c \in Clients : pc'[c] = "write" => seen'[c] + spent'[Account[c]] >= 0
  <1>1. /\ pc \in [Processes -> ClientSteps \cup ConsumerSteps]
        /\ pc' = [pc EXCEPT ![Consumer] = step] /\ Consumer \in Processes
        /\ Consumer \notin Clients
    BY ClientsAssumption DEF PortfolioInv, TypeOK, Goto, Processes
  <1>2. \A q \in Processes : pc'[q] = IF q = Consumer THEN step ELSE pc[q]
    BY <1>1
  <1>3. StepsOfTheirKind' /\ TransfersAreSound'
    BY <1>1, <1>2 DEF PortfolioInv, StepsOfTheirKind, TransfersAreSound, Processes
  <1> QED
    BY <1>1, <1>2, <1>3 DEF PortfolioInv, ReadingsAreCovered, Processes

(* A message is committed and handed to the handler.                       *)
LEMMA ReadMessageStep ==
  ASSUME PortfolioInv, ReadMessage
  PROVE  PortfolioInv'
  <1> USE DEF PortfolioInv, ReadMessage, tables
  <1> DEFINE step == IF topic[fetched + 1].type = "TRADE_EXECUTED" THEN "order" ELSE "status"
  <1>1. /\ step \in ConsumerSteps /\ Goto(Consumer, step)
        /\ step # "idle" /\ step \notin {"get", "create", "cash", "position"}
    BY DEF ConsumerSteps
  <1>2. /\ pc' \in [Processes -> ClientSteps \cup ConsumerSteps] /\ pc'[Consumer] = step
        /\ StepsOfTheirKind' /\ TransfersAreSound'
        /\ \A c \in Clients : pc'[c] = "write" => seen'[c] + spent'[Account[c]] >= 0
    BY <1>1, ClientsUndisturbed
  <1> HIDE DEF step
  <1>3. /\ fetched \in Nat /\ committed \in Nat /\ Len(topic) \in Nat /\ MaxMessages \in Nat
        /\ handled \in [1..MaxMessages -> Nat]
    BY LenProperties, BoundsAssumption DEF TypeOK
  <1>4. LogInOrder' /\ HandledIsCommitted'
    <2>1. fetched + 1 \in 1..MaxMessages /\ committed <= fetched
      BY <1>3 DEF LogInOrder
    <2>2. handled[fetched + 1] = 0
      BY <1>3, <2>1 DEF HandledIsCommitted
    <2> QED
      BY <1>3, <2>1, <2>2 DEF LogInOrder, HandledIsCommitted
  <1>5. TypeOK'
    <2>1. /\ fetched' = fetched + 1 /\ committed' = fetched + 1
          /\ handled' = [handled EXCEPT ![fetched + 1] = @ + 1]
      OBVIOUS
    <2>2. fetched' \in Nat /\ committed' \in Nat
      BY ONLY <1>3, <2>1
    <2>3. handled' \in [1..MaxMessages -> Nat]
      <3> DEFINE k == fetched + 1
      <3>1. k \in 1..MaxMessages /\ handled' = [handled EXCEPT ![k] = handled[k] + 1]
        BY <1>3, <2>1 DEF LogInOrder
      <3> HIDE DEF k
      <3> QED
        BY ONLY <1>3, <3>1
    <2> QED
      BY <1>2, <2>2, <2>3 DEF TypeOK
  <1>6. BookedOnceInOrder' /\ BookingInStep' /\ OnlyPurchasesOverdraw' /\ ReadingsAreCovered'
    BY <1>1, <1>2
    DEF step, Event, BookedOnceInOrder, BookingInStep, OnlyPurchasesOverdraw,
        ReadingsAreCovered
  <1> QED
    BY <1>2, <1>4, <1>5, <1>6

(* A message is passed over after an error of its commit.                  *)
LEMMA CommitFailsStep ==
  ASSUME PortfolioInv, CommitFails
  PROVE  PortfolioInv'
  <1> USE DEF PortfolioInv, CommitFails, tables, ghosts
  <1>1. /\ fetched \in Nat /\ committed \in Nat /\ Len(topic) \in Nat /\ MaxMessages \in Nat
        /\ handled \in [1..MaxMessages -> Nat]
    BY LenProperties, BoundsAssumption DEF TypeOK
  <1>2. LogInOrder' /\ HandledIsCommitted'
    BY <1>1 DEF LogInOrder, HandledIsCommitted
  <1>3. TypeOK'
    <2>1. faults' \in [FaultKinds -> Nat]
      BY FaultsStayTyped DEF FaultKinds
    <2>2. fetched' = fetched + 1
      OBVIOUS
    <2>3. committed' = committed \/ committed' = fetched + 1
      OBVIOUS
    <2>4. fetched' \in Nat /\ committed' \in Nat
      BY <1>1, <2>2, <2>3
    <2> QED
      BY <2>1, <2>4 DEF TypeOK
  <1>4. StepsOfTheirKind' /\ TransfersAreSound'
    BY DEF StepsOfTheirKind, TransfersAreSound
  <1>5. BookedOnceInOrder' /\ BookingInStep' /\ OnlyPurchasesOverdraw' /\ ReadingsAreCovered'
    BY DEF BookedOnceInOrder, BookingInStep, OnlyPurchasesOverdraw, ReadingsAreCovered
  <1> QED
    BY <1>2, <1>3, <1>4, <1>5

(* The two statements on the history.                                      *)
LEMMA HistoryStep ==
  ASSUME PortfolioInv, UpdateOrderStatus \/ InsertOrder
  PROVE  PortfolioInv'
  <1> USE DEF PortfolioInv, UpdateOrderStatus, InsertOrder, log, ghosts
  <1>1. PICK step \in {"idle", "trade"} : Goto(Consumer, step)
    OBVIOUS
  <1>2. pc[Consumer] # "idle"
    OBVIOUS
  <1>3. /\ UNCHANGED <<cash, quantity, trades, seen, answer, topic, fetched, committed>>
        /\ UNCHANGED <<handled, cashed, positioned, moved, spent>>
    OBVIOUS
  <1>4. /\ pc' \in [Processes -> ClientSteps \cup ConsumerSteps] /\ pc'[Consumer] = step
        /\ StepsOfTheirKind' /\ TransfersAreSound'
        /\ \A c \in Clients : pc'[c] = "write" => seen'[c] + spent'[Account[c]] >= 0
    BY <1>1, <1>3, ClientsUndisturbed DEF ConsumerSteps
  <1>5. TypeOK'
    <2>1. faults' \in [FaultKinds -> Nat]
      BY FaultsStayTyped DEF FaultKinds
    <2>2. Event.order \in Orders /\ history \in [Orders -> Statuses \cup {Absent}]
      BY <1>2, EventTyped DEF TypeOK
    <2>3. CASE UpdateOrderStatus
      <3>1. StatusOf(Event.type) \in Statuses
        <4>1. Event.type \in EventTypes /\ Event.type # "TRADE_EXECUTED"
          BY <1>2, <2>3, EventTyped, OrdersAssumption DEF BookingInStep
        <4> QED
          BY <4>1 DEF StatusOf, Statuses, EventTypes
      <3> QED
        BY <1>3, <1>4, <2>1, <2>2, <2>3, <3>1, ZenonT(40) DEF TypeOK
    <2>4. CASE InsertOrder
      BY <1>3, <1>4, <2>1, <2>2, <2>4 DEF TypeOK, Statuses
    <2> QED
      BY <2>3, <2>4
  <1>6. LogInOrder' /\ HandledIsCommitted'
    BY <1>2, <1>3 DEF LogInOrder, HandledIsCommitted
  <1>7. BookedOnceInOrder' /\ BookingInStep' /\ OnlyPurchasesOverdraw' /\ ReadingsAreCovered'
    BY <1>1, <1>3, <1>4
    DEF BookedOnceInOrder, BookingInStep, OnlyPurchasesOverdraw, ReadingsAreCovered
  <1> QED
    BY <1>4, <1>5, <1>6, <1>7

(* The row of the trade: from here on it is this consumer's to book.       *)
LEMMA InsertTradeStep ==
  ASSUME PortfolioInv, InsertTrade
  PROVE  PortfolioInv'
  <1> USE DEF PortfolioInv, InsertTrade, Abandon, Duplicate, log, ghosts
  <1>1. PICK step \in {"idle", "get"} : Goto(Consumer, step)
    OBVIOUS
  <1>2. pc[Consumer] = "trade" /\ Event.order \in Orders
    BY EventTyped
  <1>3. /\ UNCHANGED <<cash, quantity, history, seen, answer, topic, fetched, committed>>
        /\ UNCHANGED <<handled, cashed, positioned, moved, spent>>
    OBVIOUS
  <1>4. /\ trades' = trades \/ trades' = trades \cup {Event.order}
        /\ step = "get" => Event.order \notin trades /\ Event.order \in trades'
    BY <1>1, ClientsAssumption DEF Goto, TypeOK, Processes
  <1>5. /\ pc' \in [Processes -> ClientSteps \cup ConsumerSteps] /\ pc'[Consumer] = step
        /\ StepsOfTheirKind' /\ TransfersAreSound'
        /\ \A c \in Clients : pc'[c] = "write" => seen'[c] + spent'[Account[c]] >= 0
    BY <1>1, <1>3, ClientsUndisturbed DEF ConsumerSteps
  <1>6. TypeOK'
    <2>1. faults' \in [FaultKinds -> Nat]
      BY FaultsStayTyped DEF FaultKinds
    <2> QED
      BY <1>2, <1>3, <1>4, <1>5, <2>1 DEF TypeOK
  <1> HIDE DEF InsertTrade
  <1>7. LogInOrder' /\ HandledIsCommitted'
    BY <1>2, <1>3 DEF LogInOrder, HandledIsCommitted
  <1>8. BookedOnceInOrder' /\ BookingInStep'
    <2>1. cashed \in [Orders -> Nat]
      BY DEF TypeOK
    <2>2. Event.order \notin trades => cashed[Event.order] = 0
      BY <1>2, <2>1 DEF BookedOnceInOrder
    <2> QED
      BY <1>1, <1>2, <1>3, <1>4, <1>5, <2>2 DEF BookedOnceInOrder, BookingInStep, Event
  <1>9. OnlyPurchasesOverdraw' /\ ReadingsAreCovered'
    BY <1>1, <1>3, <1>5 DEF OnlyPurchasesOverdraw, ReadingsAreCovered
  <1> QED
    BY <1>5, <1>6, <1>7, <1>8, <1>9

(* The UPDATE of the balance by a trade.                                   *)
LEMMA UpdateCashStep ==
  ASSUME PortfolioInv, UpdateCash
  PROVE  PortfolioInv'
  <1> USE DEF PortfolioInv, UpdateCash, Abandon, log
  <1> DEFINE o == Event.order
             paid == IF Side[o] = "BUY" THEN spent[Owner[o]] + Event.gross ELSE spent[Owner[o]]
  <1>1. PICK step \in {"idle", "position"} : Goto(Consumer, step)
    OBVIOUS
  <1>2. /\ pc[Consumer] = "cash" /\ o \in Orders /\ Owner[o] \in Users /\ Event.gross \in Nat
        /\ Consumer \notin Clients /\ Consumer \in Processes
    BY EventTyped, ClientsAssumption DEF Processes
  <1>3. /\ seen \in [Processes -> Int] /\ cash \in [Users -> Int \cup {Absent}]
        /\ spent \in [Users -> Nat] /\ cashed \in [Orders -> Nat]
        /\ pc \in [Processes -> ClientSteps \cup ConsumerSteps]
    BY DEF TypeOK
  <1>4. /\ UNCHANGED <<quantity, history, trades, seen, answer, topic, fetched, committed>>
        /\ UNCHANGED <<handled, positioned, moved>>
    OBVIOUS
  <1>5. /\ cashed[o] = 0 /\ o \in trades
        /\ seen[Consumer] + spent[Owner[o]] >= 0
    BY <1>2 DEF BookingInStep, ReadingsAreCovered
  <1>6. /\ paid \in Nat /\ paid >= spent[Owner[o]]
        /\ seen[Consumer] + Signed(Event) \in Int
        /\ seen[Consumer] + Signed(Event) + paid >= 0
    BY <1>2, <1>3, <1>5 DEF Signed
  <1>7. \/ /\ cash' = [cash EXCEPT ![Owner[o]] = seen[Consumer] + Signed(Event)]
           /\ cashed' = [cashed EXCEPT ![o] = @ + 1]
           /\ spent' = [spent EXCEPT ![Owner[o]] = paid]
        \/ UNCHANGED <<cash, cashed, spent>> /\ step = "idle"
    BY <1>1, <1>2, <1>3 DEF Goto
  <1>8. UNCHANGED faults \/ Spend("db")
    OBVIOUS
  <1> HIDE DEF UpdateCash, paid
  <1>9. \A q \in Processes : pc'[q] = IF q = Consumer THEN step ELSE pc[q]
    BY <1>1, <1>2, <1>3 DEF Goto
  <1>10. \A u \in Users : spent'[u] \in Nat /\ spent'[u] >= spent[u]
    BY <1>2, <1>3, <1>6, <1>7
  <1>11. TypeOK'
    <2>1. faults' \in [FaultKinds -> Nat]
      BY <1>8, FaultsStayTyped DEF FaultKinds
    <2>2. /\ cash' \in [Users -> Int \cup {Absent}] /\ cashed' \in [Orders -> Nat]
          /\ spent' \in [Users -> Nat]
      BY <1>2, <1>3, <1>6, <1>7
    <2>3. pc' \in [Processes -> ClientSteps \cup ConsumerSteps]
      BY <1>1, <1>3 DEF Goto, ConsumerSteps
    <2> QED
      BY <1>4, <2>1, <2>2, <2>3 DEF TypeOK
  <1>12. StepsOfTheirKind' /\ TransfersAreSound'
    BY <1>2, <1>4, <1>9 DEF StepsOfTheirKind, TransfersAreSound, Processes, ConsumerSteps
  <1>13. LogInOrder' /\ HandledIsCommitted'
    BY <1>2, <1>4 DEF LogInOrder, HandledIsCommitted
  <1>14. BookedOnceInOrder'
    <2>1. \A x \in Orders : /\ positioned[x] \in Nat /\ positioned[x] <= cashed[x]
                            /\ cashed[x] <= 1 /\ (cashed[x] = 1 => x \in trades)
      BY DEF TypeOK, BookedOnceInOrder
    <2>2. \A x \in Orders : cashed'[x] = cashed[x] \/ (x = o /\ cashed'[x] = 1)
      BY <1>2, <1>3, <1>5, <1>7
    <2> QED
      BY <1>3, <1>4, <1>5, <2>1, <2>2 DEF BookedOnceInOrder
  <1>15. BookingInStep'
    <2>1. positioned[o] \in Nat /\ positioned[o] <= cashed[o]
      BY <1>2 DEF TypeOK, BookedOnceInOrder
    <2> QED
      BY <1>2, <1>3, <1>4, <1>5, <1>7, <1>9, <2>1 DEF BookingInStep, Event
  <1>16. OnlyPurchasesOverdraw'
    BY <1>2, <1>3, <1>6, <1>7 DEF OnlyPurchasesOverdraw
  <1>17. ReadingsAreCovered'
    BY <1>2, <1>3, <1>4, <1>9, <1>10, ClientsAssumption DEF ReadingsAreCovered, Processes
  <1> QED
    BY <1>11, <1>12, <1>13, <1>14, <1>15, <1>16, <1>17

(* The position, which ends the booking.                                   *)
LEMMA UpdatePositionStep ==
  ASSUME PortfolioInv, UpdatePosition
  PROVE  PortfolioInv'
  <1> USE DEF PortfolioInv, UpdatePosition, log
  <1> DEFINE o == Event.order
             p == <<Owner[o], Symbol[o]>>
  <1>1. /\ pc[Consumer] = "position" /\ o \in Orders /\ p \in Users \X Symbols
        /\ Goto(Consumer, "idle")
    BY EventTyped
  <1>2. /\ UNCHANGED <<cash, history, trades, seen, answer, topic, fetched, committed>>
        /\ UNCHANGED <<handled, cashed, moved, spent>>
    OBVIOUS
  <1>3. /\ quantity \in [Users \X Symbols -> Nat \cup {Absent}]
        /\ positioned \in [Orders -> Nat] /\ cashed \in [Orders -> Nat]
        /\ Qty[o] \in Nat
    BY <1>1, OrdersAssumption DEF TypeOK
  <1>4. \/ /\ Side[o] = "BUY" \/ quantity[p] # Absent
           /\ quantity' = [quantity EXCEPT ![p] = Positioned(@, o)]
           /\ positioned' = [positioned EXCEPT ![o] = @ + 1]
        \/ UNCHANGED <<quantity, positioned>>
    OBVIOUS
  <1>5. UNCHANGED faults \/ Spend("db")
    OBVIOUS
  <1> HIDE DEF UpdatePosition, o, p
  <1>6. cashed[o] = 1 /\ positioned[o] = 0
    BY <1>1 DEF BookingInStep, o
  <1>7. /\ pc' \in [Processes -> ClientSteps \cup ConsumerSteps] /\ pc'[Consumer] = "idle"
        /\ StepsOfTheirKind' /\ TransfersAreSound'
        /\ \A c \in Clients : pc'[c] = "write" => seen'[c] + spent'[Account[c]] >= 0
    BY <1>1, <1>2, ClientsUndisturbed DEF ConsumerSteps
  <1>8. TypeOK'
    <2>1. faults' \in [FaultKinds -> Nat]
      BY <1>5, FaultsStayTyped DEF FaultKinds
    <2>2. Side[o] = "BUY" \/ quantity[p] # Absent => Positioned(quantity[p], o) \in Nat
      BY <1>1, <1>3 DEF Positioned
    <2>3. quantity' \in [Users \X Symbols -> Nat \cup {Absent}] /\ positioned' \in [Orders -> Nat]
      BY <1>1, <1>3, <1>4, <2>2
    <2> QED
      BY <1>2, <1>7, <2>1, <2>3 DEF TypeOK
  <1>9. LogInOrder' /\ HandledIsCommitted'
    BY <1>2, <1>7 DEF LogInOrder, HandledIsCommitted
  <1>10. BookedOnceInOrder' /\ BookingInStep'
    BY <1>1, <1>2, <1>3, <1>4, <1>6, <1>7 DEF BookedOnceInOrder, BookingInStep
  <1>11. OnlyPurchasesOverdraw' /\ ReadingsAreCovered'
    BY <1>2, <1>7 DEF OnlyPurchasesOverdraw, ReadingsAreCovered
  <1> QED
    BY <1>7, <1>8, <1>9, <1>10, <1>11

-----------------------------------------------------------------------------
(* A message more does not change the one being handled.                   *)
LEMMA PublishStep ==
  ASSUME PortfolioInv, NEW e \in Events, Publish(e)
  PROVE  PortfolioInv'
  <1> USE DEF PortfolioInv, Publish, tables, ghosts
  <1>1. topic \in Seq(Events) /\ Len(topic) \in Nat
    BY LenProperties DEF TypeOK
  <1>2. /\ topic' \in Seq(Events) /\ Len(topic') = Len(topic) + 1
        /\ \A i \in 1..Len(topic) : topic'[i] = topic[i]
    BY <1>1, AppendProperties
  <1>3. pc[Consumer] # "idle" => Event' = Event
    BY <1>2, EventTyped DEF Event
  <1>4. TypeOK'
    BY <1>2 DEF TypeOK
  <1>5. LogInOrder' /\ HandledIsCommitted'
    <2>1. fetched \in Nat /\ committed \in Nat /\ MaxMessages \in Nat
      BY BoundsAssumption DEF TypeOK
    <2> QED
      BY <1>1, <1>2, <2>1 DEF LogInOrder, HandledIsCommitted
  <1>6. StepsOfTheirKind' /\ TransfersAreSound'
    BY DEF StepsOfTheirKind, TransfersAreSound
  <1>7. BookedOnceInOrder' /\ OnlyPurchasesOverdraw'
    BY DEF BookedOnceInOrder, OnlyPurchasesOverdraw
  <1>8. BookingInStep' /\ ReadingsAreCovered'
    BY <1>3 DEF BookingInStep, ReadingsAreCovered
  <1> QED
    BY <1>4, <1>5, <1>6, <1>7, <1>8

(* A restart reads on from the committed offset.                           *)
LEMMA RestartStep ==
  ASSUME PortfolioInv, Restart
  PROVE  PortfolioInv'
  <1> USE DEF PortfolioInv, Restart, tables, ghosts
  <1>1. /\ pc \in [Processes -> ClientSteps \cup ConsumerSteps]
        /\ fetched \in Nat /\ committed \in Nat
    BY DEF TypeOK
  <1>2. /\ pc'[Consumer] = "idle"
        /\ \A c \in Clients : pc'[c] = IF InFlight(c) THEN "done" ELSE pc[c]
    BY ClientsAssumption DEF Processes
  <1>3. TypeOK'
    <2>1. faults' \in [FaultKinds -> Nat]
      BY FaultsStayTyped DEF FaultKinds
    <2>2. pc' \in [Processes -> ClientSteps \cup ConsumerSteps]
      BY <1>1 DEF ClientSteps, ConsumerSteps
    <2> QED
      BY <2>1, <2>2 DEF TypeOK
  <1>4. LogInOrder' /\ HandledIsCommitted'
    <2>1. fetched' = committed /\ UNCHANGED <<topic, committed, handled>>
      OBVIOUS
    <2>2. Len(topic) \in Nat /\ MaxMessages \in Nat
      BY LenProperties, BoundsAssumption DEF TypeOK
    <2>3. committed <= fetched /\ fetched <= Len(topic) /\ Len(topic) <= MaxMessages
      BY DEF LogInOrder
    <2>4. HandledIsCommitted
      OBVIOUS
    <2>5. LogInOrder'
      BY ONLY <1>1, <1>2, <2>1, <2>2, <2>3 DEF LogInOrder
    <2>6. HandledIsCommitted'
      BY ONLY <2>1, <2>4 DEF HandledIsCommitted
    <2> QED
      BY <2>5, <2>6
  <1>5. StepsOfTheirKind' /\ TransfersAreSound'
    BY <1>2
    DEF StepsOfTheirKind, TransfersAreSound, ClientSteps, ConsumerSteps, InFlight
  <1>6. BookedOnceInOrder' /\ OnlyPurchasesOverdraw'
    BY DEF BookedOnceInOrder, OnlyPurchasesOverdraw
  <1>7. BookingInStep' /\ ReadingsAreCovered'
    <2>1. \A c \in Clients : pc'[c] # "write"
      BY ONLY <1>2 DEF InFlight
    <2> QED
      BY ONLY <1>2, <2>1 DEF BookingInStep, ReadingsAreCovered
  <1> QED
    BY <1>3, <1>4, <1>5, <1>6, <1>7

-----------------------------------------------------------------------------
LEMMA StepPreserves == PortfolioInv /\ [Next]_vars => PortfolioInv'
  <1> SUFFICES ASSUME PortfolioInv, [Next]_vars PROVE PortfolioInv'
    OBVIOUS
  <1>1. ASSUME NEW c \in Clients, Begin(c) PROVE PortfolioInv'
    <2>1. c \in Processes /\ c # Consumer
      BY ClientsAssumption DEF Processes
    <2>2. CASE Kind[c] # "get" /\ Amount[c] <= 0
      BY <1>1, <2>2, RespondStep DEF Begin, RefuseAmount
    <2>3. CASE ~ (Kind[c] # "get" /\ Amount[c] <= 0)
      <3>1. Kind[c] = "get" \/ Amount[c] > 0
        BY <2>3, ClientsAssumption
      <3> QED
        BY <1>1, <2>1, <2>3, <3>1, SelectStep DEF Begin
    <2> QED
      BY <2>2, <2>3
  <1>2. ASSUME NEW c \in Clients, Serve(c) PROVE PortfolioInv'
    BY <1>2, CreatePortfolioStep, RespondStep, WriteBalanceStep
    DEF Serve, ReturnBalance, RefuseWithdrawal, Processes
  <1>3. ASSUME Consume PROVE PortfolioInv'
    <2>1. Consumer \in Processes
      BY DEF Processes
    <2>2. CASE GetTrader
      BY <2>1, <2>2, SelectStep DEF GetTrader
    <2> QED
      BY <1>3, <2>1, <2>2, ReadMessageStep, CommitFailsStep, HistoryStep, InsertTradeStep,
         CreatePortfolioStep, UpdateCashStep, UpdatePositionStep
      DEF Consume
  <1>4. CASE UNCHANGED vars
    BY <1>4
    DEF vars, tables, log, ghosts, PortfolioInv, TypeOK, StepsOfTheirKind, LogInOrder,
        HandledIsCommitted, BookedOnceInOrder, BookingInStep, TransfersAreSound,
        OnlyPurchasesOverdraw, ReadingsAreCovered, Event
  <1> QED
    BY <1>1, <1>2, <1>3, <1>4, PublishStep, RestartStep DEF Next

(* The inductive invariant holds in every state.                           *)
THEOREM Invariance == Spec => []PortfolioInv
  BY InitEstablishes, StepPreserves, PTL DEF Spec

(* Tables, offsets and processes keep their types; in particular no sale   *)
(* makes a quantity negative.                                              *)
THEOREM TypeCorrect == Spec => []TypeOK
  <1>1. PortfolioInv => TypeOK
    BY DEF PortfolioInv
  <1> QED
    BY <1>1, Invariance, PTL

(* No message is handled twice: HandledAtMostOnce, for any number of       *)
(* commit errors and restarts.                                             *)
THEOREM NothingHandledTwice == Spec => []HandledAtMostOnce
  <1>1. PortfolioInv => HandledAtMostOnce
    BY DEF PortfolioInv, HandledIsCommitted, HandledAtMostOnce
  <1> QED
    BY <1>1, Invariance, PTL

(* No trade is booked twice or out of order: BookedOnceInOrder, however    *)
(* often it is published.                                                  *)
THEOREM NothingBookedTwice == Spec => []BookedOnceInOrder
  <1>1. PortfolioInv => BookedOnceInOrder
    BY DEF PortfolioInv
  <1> QED
    BY <1>1, Invariance, PTL

(* Whatever overwrites what, only purchases bring a balance below zero.    *)
THEOREM NothingElseOverdraws == Spec => []OnlyPurchasesOverdraw
  <1>1. PortfolioInv => OnlyPurchasesOverdraw
    BY DEF PortfolioInv
  <1> QED
    BY <1>1, Invariance, PTL

-----------------------------------------------------------------------------
(* An existing balance changes in two statements only, each of which       *)
(* leaves its mark: MoneyMovesForAReason.                                  *)
THEOREM MoneyHasAReason == Spec => MoneyMovesForAReason
  <1> DEFINE Reason(u) == \/ \E c \in Clients : Account[c] = u /\ c \in moved' \ moved
                          \/ \E o \in Orders : Owner[o] = u /\ cashed'[o] > cashed[o]
             Reasoned == \A u \in Users : cash[u] # Absent /\ cash'[u] # cash[u] => Reason(u)
  <1>1. PortfolioInv /\ [Next]_vars => [Reasoned]_vars
    <2> SUFFICES ASSUME PortfolioInv, Next, NEW u \in Users, cash[u] # Absent, cash'[u] # cash[u]
                 PROVE  Reason(u)
      OBVIOUS
    <2>0. /\ cash \in [Users -> Int \cup {Absent}] /\ cashed \in [Orders -> Nat]
          /\ moved \subseteq Clients
      BY DEF PortfolioInv, TypeOK
    <2>1. ASSUME NEW p \in Processes, CreatePortfolio(p) PROVE FALSE
      BY <2>0, <2>1 DEF CreatePortfolio, Taken
    <2>2. ASSUME NEW c \in Clients, WriteBalance(c) PROVE Reason(u)
      <3>1. cash' = [cash EXCEPT ![Account[c]] = NewBalance(c)] /\ moved' = moved \cup {c}
        BY <2>2 DEF WriteBalance
      <3>2. Account[c] = u
        BY <2>0, <3>1
      <3>3. c \notin moved
        BY <2>2 DEF WriteBalance, PortfolioInv, TransfersAreSound
      <3> QED
        BY <3>1, <3>2, <3>3
    <2>3. ASSUME UpdateCash PROVE Reason(u)
      <3>1. pc[Consumer] # "idle"
        BY <2>3 DEF UpdateCash
      <3>2. Event.order \in Orders
        BY <3>1, EventTyped DEF PortfolioInv
      <3>3. /\ cash' = [cash EXCEPT ![Owner[Event.order]] = seen[Consumer] + Signed(Event)]
            /\ cashed' = [cashed EXCEPT ![Event.order] = @ + 1]
        BY <2>3 DEF UpdateCash
      <3>4. Owner[Event.order] = u
        BY <2>0, <3>3
      <3>5. cashed'[Event.order] > cashed[Event.order]
        BY <2>0, <3>2, <3>3
      <3> QED
        BY <3>2, <3>4, <3>5
    <2>4. ASSUME NEW c \in Clients, Begin(c) \/ ReturnBalance(c) \/ RefuseWithdrawal(c) PROVE FALSE
      BY <2>4
      DEF Begin, RefuseAmount, SelectPortfolio, ReturnBalance, RefuseWithdrawal, tables
    <2>5. ASSUME \/ ReadMessage \/ CommitFails \/ UpdateOrderStatus \/ InsertOrder
                 \/ InsertTrade \/ GetTrader \/ UpdatePosition
          PROVE  FALSE
      BY <2>5
      DEF ReadMessage, CommitFails, UpdateOrderStatus, InsertOrder, InsertTrade, GetTrader,
          SelectPortfolio, UpdatePosition, tables
    <2>6. ASSUME NEW e \in Events, Publish(e) PROVE FALSE
      BY <2>6 DEF Publish, tables
    <2>7. ASSUME Restart PROVE FALSE
      BY <2>7 DEF Restart, tables
    <2> QED
      BY <2>1, <2>2, <2>3, <2>4, <2>5, <2>6, <2>7 DEF Next, Serve, Consume, Processes
  <1> QED
    BY <1>1, Invariance, PTL DEF Spec, MoneyMovesForAReason

-----------------------------------------------------------------------------
(* What a client is told of its transfer                                   *)

(* A client that is told "ok" has its money moved, and one whose transfer  *)
(* is refused has not: only an error leaves it in doubt (Deposit, Withdraw *)
(* and the status codes of their handlers).                                *)
AnswersTellTransfers ==
    \A c \in Clients : Kind[c] # "get" =>
        /\ answer[c] = "ok" => c \in moved
        /\ answer[c] \in {"BAD_REQUEST", "INSUFFICIENT_BALANCE"} => c \notin moved

(* It is told nothing before the end.                                      *)
AnswersInv ==
    /\ AnswersTellTransfers
    /\ \A c \in Clients : pc[c] # "done" => answer[c] = "none"

(* Client d gets an answer that tells of its transfer.                     *)
LEMMA AnswerTells ==
  ASSUME PortfolioInv, AnswersInv, NEW d \in Clients,
         \A c \in Clients \ {d} : pc'[c] = pc[c] /\ answer'[c] = answer[c] /\ (c \in moved' <=> c \in moved),
         pc'[d] # "done" => answer'[d] = "none",
         Kind[d] # "get" /\ answer'[d] = "ok" => d \in moved',
         Kind[d] # "get" /\ answer'[d] \in {"BAD_REQUEST", "INSUFFICIENT_BALANCE"} => d \notin moved'
  PROVE  AnswersInv'
  BY DEF AnswersInv, AnswersTellTransfers

LEMMA AnswersStep ==
  ASSUME PortfolioInv, AnswersInv, [Next]_vars
  PROVE  AnswersInv'
  <1>0. /\ DOMAIN pc = Processes /\ DOMAIN answer = Clients /\ moved \subseteq Clients
        /\ Clients \subseteq Processes /\ Consumer \notin Clients
        /\ \A c \in moved : pc[c] = "done"
    BY ClientsAssumption DEF PortfolioInv, TypeOK, TransfersAreSound, Processes
  <1>1. ASSUME NEW d \in Clients, NEW a, Respond(d, a), pc[d] # "done", UNCHANGED moved,
               Kind[d] # "get" => a \in {"BAD_REQUEST", "INSUFFICIENT_BALANCE", "INTERNAL_ERROR"}
        PROVE  AnswersInv'
    <2>1. /\ pc'[d] = "done" /\ answer'[d] = a /\ d \notin moved
          /\ \A c \in Clients \ {d} : pc'[c] = pc[c] /\ answer'[c] = answer[c]
      BY <1>0, <1>1 DEF Respond, Goto
    <2> QED
      BY <1>1, <2>1, AnswerTells
  <1>2. ASSUME NEW d \in Clients, NEW step, Goto(d, step), step # "done", pc[d] # "done",
               UNCHANGED <<answer, moved>>
        PROVE  AnswersInv'
    <2>1. /\ pc'[d] = step /\ answer'[d] = answer[d]
          /\ \A c \in Clients \ {d} : pc'[c] = pc[c] /\ answer'[c] = answer[c]
      BY <1>0, <1>2 DEF Goto
    <2>2. answer[d] = "none"
      BY <1>2 DEF AnswersInv
    <2> QED
      BY <1>2, <2>1, <2>2, AnswerTells
  <1>3. ASSUME UNCHANGED <<answer, moved>>, \A c \in Clients : pc'[c] = pc[c] PROVE AnswersInv'
    BY <1>3 DEF AnswersInv, AnswersTellTransfers
  <1>4. ASSUME NEW d \in Clients, Begin(d) PROVE AnswersInv'
    <2>1. pc[d] = "idle" /\ d # Consumer
      BY <1>0, <1>4 DEF Begin
    <2>2. CASE RefuseAmount(d)
      BY <1>1, <2>1, <2>2 DEF RefuseAmount, ghosts
    <2>3. CASE SelectPortfolio(d)
      BY <1>1, <1>2, <2>1, <2>3 DEF SelectPortfolio, Abandon, AfterGet, ghosts
    <2> QED
      BY <1>4, <2>2, <2>3 DEF Begin
  <1>5. ASSUME NEW d \in Clients, Serve(d) PROVE AnswersInv'
    <2>1. d # Consumer
      BY <1>0
    <2>2. CASE CreatePortfolio(d)
      BY <1>1, <1>2, <2>1, <2>2 DEF CreatePortfolio, Abandon, AfterGet, ghosts
    <2>3. CASE ReturnBalance(d)
      BY <1>1, <2>3 DEF ReturnBalance, ghosts
    <2>4. CASE RefuseWithdrawal(d)
      BY <1>1, <2>4 DEF RefuseWithdrawal, ghosts
    <2>5. CASE WriteBalance(d)
      <3>1. /\ moved' = moved \/ moved' = moved \cup {d}
            /\ \/ Respond(d, "ok") /\ moved' = moved \cup {d}
               \/ Respond(d, "INTERNAL_ERROR")
        BY <2>5 DEF WriteBalance
      <3>2. PICK a \in {"ok", "INTERNAL_ERROR"} :
               Respond(d, a) /\ (a = "ok" => moved' = moved \cup {d})
        BY <3>1
      <3>3. /\ pc'[d] = "done" /\ answer'[d] = a
            /\ \A c \in Clients \ {d} : pc'[c] = pc[c] /\ answer'[c] = answer[c]
        BY <1>0, <3>2 DEF Respond, Goto
      <3> QED
        BY <3>1, <3>2, <3>3, AnswerTells
    <2> QED
      BY <1>5, <2>2, <2>3, <2>4, <2>5 DEF Serve
  <1>6. CASE Consume
    <2>1. UNCHANGED <<answer, moved>>
      BY <1>6
      DEF Consume, ReadMessage, CommitFails, UpdateOrderStatus, InsertOrder, InsertTrade, GetTrader,
          SelectPortfolio, CreatePortfolio, UpdateCash, UpdatePosition, Abandon, ghosts
    <2>2. pc' = pc \/ \E step : pc' = [pc EXCEPT ![Consumer] = step]
      BY <1>6
      DEF Consume, ReadMessage, CommitFails, UpdateOrderStatus, InsertOrder, InsertTrade, GetTrader,
          SelectPortfolio, CreatePortfolio, UpdateCash, UpdatePosition, Abandon, Goto
    <2>3. \A c \in Clients : pc'[c] = pc[c]
      BY <1>0, <2>2
    <2> QED
      BY <1>3, <2>1, <2>3
  <1>7. ASSUME NEW e \in Events, Publish(e) PROVE AnswersInv'
    BY <1>3, <1>7 DEF Publish, ghosts
  <1>8. CASE Restart
    <2>1. /\ \A c \in Clients :
                /\ pc'[c] = IF InFlight(c) THEN "done" ELSE pc[c]
                /\ answer'[c] = IF InFlight(c) THEN "connection lost" ELSE answer[c]
          /\ moved' = moved
      BY <1>0, <1>8 DEF Restart, ghosts
    <2> QED
      BY <2>1 DEF AnswersInv, AnswersTellTransfers, InFlight
  <1>9. CASE UNCHANGED vars
    BY <1>3, <1>9 DEF vars, ghosts
  <1> QED
    BY <1>4, <1>5, <1>6, <1>7, <1>8, <1>9 DEF Next

(* AnswersTellTransfers, whatever overlaps, fails or starts again.         *)
THEOREM AnswersTellTransfersHolds == Spec => []AnswersTellTransfers
  <1>1. Init => AnswersInv
    BY DEF Init, AnswersInv, AnswersTellTransfers
  <1>2. AnswersInv => AnswersTellTransfers
    BY DEF AnswersInv
  <1> QED
    BY <1>1, <1>2, AnswersStep, Invariance, PTL DEF Spec

-----------------------------------------------------------------------------
(* The service is a Ledger as long as the writers of an account take       *)
(* turns: then what a process is about to write is computed from the       *)
(* balance that is still there.                                            *)

ReadingsAreCurrent ==
    \A p \in Processes : pc[p] = AfterGet(p) => UpToDate(p)

(* One process moves and, if it writes a balance, does so in its turn.     *)
LEMMA ReadingsStayCurrent ==
  ASSUME PortfolioInv, TurnsTaken, ReadingsAreCurrent, NEW p \in Processes,
         UNCHANGED topic, UNCHANGED fetched \/ (p = Consumer /\ pc'[p] # "cash"),
         \A q \in Processes \ {p} : pc'[q] = pc[q] /\ seen'[q] = seen[q],
         \/ UNCHANGED cash
         \/ Active(p) /\ \A u \in Users \ {UserOf(p)} : cash'[u] = cash[u],
         pc'[p] = AfterGet(p) => seen'[p] = cash'[UserOf(p)]
  PROVE  ReadingsAreCurrent'
  <1> SUFFICES ASSUME NEW q \in Processes, pc'[q] = AfterGet(q)
               PROVE  seen'[q] = cash'[UserOf(q)']
    BY DEF ReadingsAreCurrent, AfterGet, UpToDate
  <1>1. UserOf(q)' = UserOf(q)
    BY DEF UserOf, Event, AfterGet
  <1>2. CASE q = p
    BY <1>1, <1>2
  <1>3. CASE q # p
    <2>1. pc[q] = AfterGet(q) /\ seen'[q] = cash[UserOf(q)]
      BY <1>3 DEF ReadingsAreCurrent, UpToDate
    <2>2. Active(q)
      BY <2>1 DEF Active, AfterGet, InFlight
    <2>3. UserOf(q) \in Users
      BY <2>1, UserTyped DEF PortfolioInv, AfterGet
    <2>4. cash'[UserOf(q)] = cash[UserOf(q)]
      BY <1>3, <2>2, <2>3 DEF TurnsTaken
    <2> QED
      BY <1>1, <2>1, <2>4
  <1> QED
    BY <1>2, <1>3

LEMMA CurrentStep == PortfolioInv /\ TurnsTaken /\ ReadingsAreCurrent /\ [Next]_vars => ReadingsAreCurrent'
  <1> SUFFICES ASSUME PortfolioInv, TurnsTaken, ReadingsAreCurrent, [Next]_vars
               PROVE  ReadingsAreCurrent'
    OBVIOUS
  <1>0. /\ pc \in [Processes -> ClientSteps \cup ConsumerSteps]
        /\ seen \in [Processes -> Int] /\ cash \in [Users -> Int \cup {Absent}]
        /\ Consumer \in Processes /\ Clients \subseteq Processes /\ Consumer \notin Clients
    BY ClientsAssumption DEF PortfolioInv, TypeOK, Processes
  <1>1. ASSUME NEW p \in Processes, SelectPortfolio(p) PROVE ReadingsAreCurrent'
    BY <1>0, <1>1, ReadingsStayCurrent
    DEF SelectPortfolio, Abandon, Respond, Goto, AfterGet, tables, log
  <1>2. ASSUME NEW p \in Processes, CreatePortfolio(p) PROVE ReadingsAreCurrent'
    <2>1. Active(p) /\ UserOf(p) \in Users
      BY <1>2, UserTyped DEF CreatePortfolio, Active, InFlight, PortfolioInv
    <2>2. \A q \in Processes \ {p} : pc'[q] = pc[q] /\ seen'[q] = seen[q]
      BY <1>0, <1>2 DEF CreatePortfolio, Abandon, Respond, Goto
    <2>3. /\ \A u \in Users \ {UserOf(p)} : cash'[u] = cash[u]
          /\ UNCHANGED <<topic, fetched>>
      BY <1>0, <1>2 DEF CreatePortfolio, log
    <2>4. pc'[p] = AfterGet(p) => seen'[p] = cash'[UserOf(p)]
      BY <1>0, <1>2, <2>1 DEF CreatePortfolio, Abandon, Respond, Goto, AfterGet
    <2> QED
      BY <2>1, <2>2, <2>3, <2>4, ReadingsStayCurrent
  <1>3. ASSUME NEW c \in Clients, NEW a, Respond(c, a), UNCHANGED <<seen, topic, fetched>>,
               \/ UNCHANGED cash
               \/ pc[c] = "write" /\ \A u \in Users \ {Account[c]} : cash'[u] = cash[u]
        PROVE  ReadingsAreCurrent'
    BY <1>0, <1>3, ReadingsStayCurrent DEF Respond, Goto, AfterGet, Active, InFlight, UserOf
  <1>4. ASSUME NEW step \in ConsumerSteps \ {"cash"}, Goto(Consumer, step), UNCHANGED <<seen, topic>>,
               \/ UNCHANGED cash
               \/ pc[Consumer] = "cash" /\ \A u \in Users \ {UserOf(Consumer)} : cash'[u] = cash[u]
        PROVE  ReadingsAreCurrent'
    BY <1>0, <1>4, ReadingsStayCurrent DEF Goto, AfterGet, Active
  <1>5. ASSUME NEW c \in Clients, Begin(c) \/ Serve(c) PROVE ReadingsAreCurrent'
    BY <1>0, <1>1, <1>2, <1>3, <1>5
    DEF Begin, Serve, RefuseAmount, ReturnBalance, RefuseWithdrawal, WriteBalance, tables, log
  <1>6. CASE ReadMessage \/ UpdateOrderStatus \/ InsertOrder \/ InsertTrade \/ UpdatePosition
    BY <1>4, <1>6
    DEF ReadMessage, UpdateOrderStatus, InsertOrder, InsertTrade, UpdatePosition, Abandon, Goto,
        ConsumerSteps, tables, log
  <1>7. CASE UpdateCash
    BY <1>0, <1>4, <1>7 DEF UpdateCash, Abandon, UserOf, ConsumerSteps, log
  <1>8. CASE CommitFails
    <2>1. pc[Consumer] = "idle" /\ UNCHANGED <<pc, seen, cash, topic>>
      BY <1>8 DEF CommitFails, tables
    <2> QED
      BY <1>0, <2>1, ReadingsStayCurrent DEF AfterGet
  <1>9. ASSUME NEW e \in Events, Publish(e) PROVE ReadingsAreCurrent'
    <2>1. ASSUME pc[Consumer] = "cash" PROVE Event' = Event
      <3>1. topic \in Seq(Events) /\ fetched \in 1..Len(topic)
        BY <2>1, EventTyped DEF PortfolioInv, TypeOK
      <3>2. topic' = Append(topic, e) /\ fetched' = fetched
        BY <1>9 DEF Publish
      <3> QED
        BY <3>1, <3>2, AppendProperties DEF Event
    <2> QED
      BY <1>9, <2>1 DEF Publish, ReadingsAreCurrent, UpToDate, AfterGet, UserOf, tables
  <1>10. CASE Restart
    BY <1>0, <1>10
    DEF Restart, ReadingsAreCurrent, UpToDate, AfterGet, InFlight, PortfolioInv, StepsOfTheirKind, ClientSteps,
        Processes
  <1>11. CASE UNCHANGED vars
    BY <1>11 DEF vars, tables, log, ReadingsAreCurrent, UpToDate, UserOf, Event, AfterGet
  <1> QED
    BY <1>0, <1>1, <1>2, <1>5, <1>6, <1>7, <1>8, <1>9, <1>10, <1>11 DEF Next, Consume, GetTrader

(* What the Ledger sees of a step.                                         *)
LedgerStep == [TheLedger!Next]_(TheLedger!vars)

LEMMA InitIsLedger == Init => TheLedger!Init
  BY DEF Init, TheLedger!Init

LEMMA LedgerStutters ==
  ASSUME \A u \in Users : cash'[u] = cash[u] \/ (cash[u] = Absent /\ cash'[u] = 0),
         UNCHANGED <<quantity, cashed, positioned, moved>>
  PROVE  LedgerStep
  <1>1. \A u \in Users : (IF cash'[u] = Absent THEN 0 ELSE cash'[u])
                         = (IF cash[u] = Absent THEN 0 ELSE cash[u])
    OBVIOUS
  <1> QED
    BY <1>1 DEF LedgerStep, TheLedger!vars

(* A transfer is a Deposit or a Withdraw, or it fails and is nothing.      *)
LEMMA TransferIsLedger ==
  ASSUME PortfolioInv, NEW c \in Clients, UpToDate(c), WriteBalance(c)
  PROVE  LedgerStep
  <1>1. /\ cash \in [Users -> Int \cup {Absent}] /\ seen[c] \in Int
        /\ Account[c] \in Users /\ Amount[c] \in Int /\ c # Consumer
        /\ c \notin moved /\ Kind[c] \in {"deposit", "withdraw"}
    BY ClientsAssumption DEF PortfolioInv, TypeOK, TransfersAreSound, WriteBalance, Processes
  <1>2. cash[Account[c]] = seen[c] /\ cash[Account[c]] # Absent
    BY <1>1, BoundsAssumption
    DEF UpToDate, UserOf
  <1>3. UNCHANGED <<quantity, cashed, positioned>>
    BY DEF WriteBalance
  <1>4. CASE UNCHANGED <<cash, moved>>
    BY <1>3, <1>4, LedgerStutters
  <1>5. CASE cash' = [cash EXCEPT ![Account[c]] = NewBalance(c)] /\ moved' = moved \cup {c}
    <2>1. NewBalance(c) \in Int
      BY <1>1 DEF NewBalance
    <2>2. \A u \in Users : (IF cash'[u] = Absent THEN 0 ELSE cash'[u])
             = IF u = Account[c] THEN NewBalance(c) ELSE IF cash[u] = Absent THEN 0 ELSE cash[u]
      BY <1>1, <1>5, <2>1, BoundsAssumption
    <2>3. CASE Kind[c] = "deposit"
      <3>1. NewBalance(c) = cash[Account[c]] + Amount[c]
        BY <1>2, <2>3 DEF NewBalance
      <3>2. TheLedger!Deposit(c)
        BY <1>1, <1>2, <1>3, <1>5, <2>2, <2>3, <3>1 DEF TheLedger!Deposit
      <3> QED
        BY <3>2 DEF LedgerStep, TheLedger!Next
    <2>4. CASE Kind[c] = "withdraw"
      <3>1. NewBalance(c) = cash[Account[c]] - Amount[c] /\ cash[Account[c]] >= Amount[c]
        BY <1>1, <1>2, <2>4 DEF NewBalance, WriteBalance, Overdrawn
      <3>2. TheLedger!Withdraw(c)
        BY <1>1, <1>2, <1>3, <1>5, <2>2, <2>4, <3>1 DEF TheLedger!Withdraw
      <3> QED
        BY <3>2 DEF LedgerStep, TheLedger!Next
    <2> QED
      BY <1>1, <2>3, <2>4
  <1> QED
    BY <1>4, <1>5 DEF WriteBalance

(* The cash of a trade is a Pay, at the price the message gives.           *)
LEMMA CashIsLedger ==
  ASSUME PortfolioInv, UpToDate(Consumer), UpdateCash,
         NEW o \in Orders, o = Event.order
  PROVE  LedgerStep
  <1> DEFINE u == Owner[o]
             new == seen[Consumer] + Signed(Event)
  <1>1. /\ cash \in [Users -> Int \cup {Absent}] /\ seen[Consumer] \in Int
        /\ cashed \in [Orders -> Nat] /\ Consumer \in Processes /\ pc[Consumer] = "cash"
    BY DEF PortfolioInv, TypeOK, UpdateCash, Processes
  <1>2. o \in Orders /\ u \in Users /\ Event \in Events /\ Event.gross \in Nat
    BY <1>1, EventTyped DEF PortfolioInv
  <1>3. cash[u] = seen[Consumer] /\ cash[u] # Absent /\ cashed[o] = 0
    BY <1>1, BoundsAssumption
    DEF UpToDate, UserOf, PortfolioInv, BookingInStep
  <1>4. UNCHANGED <<quantity, positioned, moved>>
    BY DEF UpdateCash
  <1>5. CASE UNCHANGED <<cash, cashed>>
    BY <1>4, <1>5, LedgerStutters
  <1>6. CASE cash' = [cash EXCEPT ![u] = new] /\ cashed' = [cashed EXCEPT ![o] = @ + 1]
    <2>1. new \in Int /\ new = IF Side[o] = "BUY" THEN cash[u] - Event.gross ELSE cash[u] + Event.gross
      BY <1>1, <1>2, <1>3 DEF Signed
    <2> HIDE DEF new
    <2>2. \A v \in Users : (IF cash'[v] = Absent THEN 0 ELSE cash'[v])
             = IF v = u THEN new ELSE IF cash[v] = Absent THEN 0 ELSE cash[v]
      BY <1>1, <1>2, <1>6, <2>1, BoundsAssumption
    <2>3. \A x \in Orders : cashed'[x] > 0 <=> cashed[x] > 0 \/ x = o
      BY <1>1, <1>2, <1>3, <1>6
    <2>4. Event.gross \in {e.gross : e \in {x \in Events : x.order = o}}
      BY <1>2
    <2>5. TheLedger!Pay(o)
      BY <1>2, <1>3, <1>4, <1>6, <2>1, <2>2, <2>3, <2>4 DEF TheLedger!Pay
    <2> QED
      BY <1>2, <2>5 DEF LedgerStep, TheLedger!Next
  <1> QED
    BY <1>5, <1>6 DEF UpdateCash

(* The position of a trade is a Deliver, of a trade that was paid.         *)
LEMMA PositionIsLedger ==
  ASSUME PortfolioInv, UpdatePosition, NEW o \in Orders, o = Event.order
  PROVE  LedgerStep
  <1> DEFINE p == <<Owner[o], Symbol[o]>>
  <1>1. /\ quantity \in [Users \X Symbols -> Nat \cup {Absent}] /\ positioned \in [Orders -> Nat]
        /\ pc[Consumer] = "position"
    BY DEF PortfolioInv, TypeOK, UpdatePosition
  <1>2. o \in Orders /\ p \in Users \X Symbols /\ Qty[o] \in Nat
    BY <1>1, EventTyped, OrdersAssumption DEF PortfolioInv
  <1>3. cashed[o] = 1 /\ positioned[o] = 0
    BY <1>1 DEF PortfolioInv, BookingInStep
  <1>4. UNCHANGED <<cash, cashed, moved>>
    BY DEF UpdatePosition
  <1>5. CASE UNCHANGED <<quantity, positioned>>
    BY <1>4, <1>5, LedgerStutters
  <1>6. CASE /\ Side[o] = "BUY" \/ quantity[p] # Absent
             /\ quantity' = [quantity EXCEPT ![p] = Positioned(@, o)]
             /\ positioned' = [positioned EXCEPT ![o] = @ + 1]
    <2> DEFINE held(q) == IF q = Absent THEN 0 ELSE q
    <2>1. /\ Positioned(quantity[p], o) \in Nat
          /\ Positioned(quantity[p], o)
             = IF Side[o] = "BUY" THEN held(quantity[p]) + Qty[o]
               ELSE IF held(quantity[p]) >= Qty[o] THEN held(quantity[p]) - Qty[o] ELSE 0
      BY <1>1, <1>2, <1>6, BoundsAssumption DEF Positioned
    <2>2. \A q \in Users \X Symbols :
             held(quantity'[q]) = IF q = p THEN Positioned(quantity[p], o) ELSE held(quantity[q])
      BY <1>1, <1>2, <1>6, <2>1, BoundsAssumption
    <2>3. \A x \in Orders : positioned'[x] > 0 <=> positioned[x] > 0 \/ x = o
      BY <1>1, <1>2, <1>3, <1>6
    <2>4. [q \in Users \X Symbols |-> held(quantity'[q])]
             = [[q \in Users \X Symbols |-> held(quantity[q])] EXCEPT ![p] =
                   IF Side[o] = "BUY" THEN @ + Qty[o]
                   ELSE IF @ >= Qty[o] THEN @ - Qty[o] ELSE 0]
      <3> DEFINE old == [q \in Users \X Symbols |-> held(quantity[q])]
                 next == IF Side[o] = "BUY" THEN old[p] + Qty[o]
                         ELSE IF old[p] >= Qty[o] THEN old[p] - Qty[o] ELSE 0
      <3>1. next = Positioned(quantity[p], o)
        BY <1>2, <2>1
      <3>2. \A q \in Users \X Symbols : held(quantity'[q]) = IF q = p THEN next ELSE old[q]
        BY <2>2, <3>1
      <3> HIDE DEF next, held, p
      <3>3. [q \in Users \X Symbols |-> held(quantity'[q])] = [old EXCEPT ![p] = next]
        BY <3>2
      <3> QED
        BY <3>3 DEF next
    <2>5. /\ {x \in Orders : positioned'[x] > 0} = {x \in Orders : positioned[x] > 0} \cup {o}
          /\ o \in {x \in Orders : cashed[x] > 0} \ {x \in Orders : positioned[x] > 0}
      BY <1>2, <1>3, <2>3
    <2>6. TheLedger!Deliver(o)
      BY <1>2, <1>4, <2>4, <2>5 DEF TheLedger!Deliver
    <2> QED
      BY <1>2, <2>6 DEF LedgerStep, TheLedger!Next
  <1> QED
    BY <1>5, <1>6 DEF UpdatePosition

LEMMA StepIsLedger == PortfolioInv /\ [Next]_vars => LedgerStep \/ WritesStale
  <1> SUFFICES ASSUME PortfolioInv, [Next]_vars, ~WritesStale PROVE LedgerStep
    OBVIOUS
  <1>0. DOMAIN pc = Processes /\ Consumer \in Processes /\ Clients \subseteq Processes
    BY DEF PortfolioInv, TypeOK, Processes
  <1>1. CASE UNCHANGED <<cash, quantity, cashed, positioned, moved>>
    BY <1>1, LedgerStutters
  <1>2. ASSUME NEW p \in Processes, CreatePortfolio(p) PROVE LedgerStep
    <2>1. cash \in [Users -> Int \cup {Absent}]
      BY DEF PortfolioInv, TypeOK
    <2>2. \A u \in Users : cash'[u] = cash[u] \/ (cash[u] = Absent /\ cash'[u] = 0)
      BY <1>2, <2>1 DEF CreatePortfolio, Taken
    <2> QED
      BY <1>2, <2>2, LedgerStutters DEF CreatePortfolio, ghosts
  <1>3. ASSUME NEW c \in Clients, WriteBalance(c) PROVE LedgerStep
    <2>1. c \in Processes /\ c # Consumer
      BY <1>0, ClientsAssumption
    <2>2. pc[c] = AfterGet(c) /\ pc'[c] # pc[c]
      BY <1>0, <1>3, <2>1 DEF WriteBalance, Respond, Goto, AfterGet
    <2>3. UpToDate(c)
      BY <2>1, <2>2 DEF WritesStale
    <2> QED
      BY <1>3, <2>3, TransferIsLedger
  <1>4. CASE UpdateCash
    <2>1. pc[Consumer] = AfterGet(Consumer) /\ pc'[Consumer] # pc[Consumer]
      BY <1>0, <1>4 DEF UpdateCash, Abandon, Goto, AfterGet
    <2>2. UpToDate(Consumer)
      BY <1>0, <2>1 DEF WritesStale
    <2>3. Event.order \in Orders
      BY <1>4, EventTyped DEF PortfolioInv, UpdateCash
    <2> QED
      BY <1>4, <2>2, <2>3, CashIsLedger
  <1>5. CASE UpdatePosition
    <2>1. Event.order \in Orders
      BY <1>5, EventTyped DEF PortfolioInv, UpdatePosition
    <2> QED
      BY <1>5, <2>1, PositionIsLedger
  <1>6. ASSUME NEW c \in Clients, Begin(c) \/ Serve(c) PROVE LedgerStep
    BY <1>0, <1>1, <1>2, <1>3, <1>6
    DEF Begin, Serve, RefuseAmount, SelectPortfolio, ReturnBalance, RefuseWithdrawal, tables, ghosts
  <1>7. CASE Consume
    BY <1>0, <1>1, <1>2, <1>4, <1>5, <1>7
    DEF Consume, ReadMessage, CommitFails, UpdateOrderStatus, InsertOrder, InsertTrade, GetTrader,
        SelectPortfolio, tables, ghosts
  <1> QED
    BY <1>1, <1>6, <1>7 DEF Next, Publish, Restart, vars, tables, ghosts

(* Whatever fails, comes twice or starts again, portfolio-service moves    *)
(* money and shares like a Ledger, but for the write of a balance computed *)
(* from an outdated one (Deposit, Withdraw, handleTradeExecuted).          *)
THEOREM LedgerUnlessStaleHolds == Spec => LedgerUnlessStale
  <1>1. PortfolioInv /\ [Next]_vars => [TheLedger!Next \/ WritesStale]_(TheLedger!vars)
    BY StepIsLedger DEF LedgerStep
  <1> QED
    BY <1>1, Invariance, InitIsLedger, PTL DEF Spec, LedgerUnlessStale

(* As long as the writers of an account take turns, nothing outdated is    *)
(* written and the service is a Ledger: ImplementsLedger.                  *)
THEOREM LedgerIsImplemented == SerialSpec => ImplementsLedger
  <1>1. Init => TurnsTaken /\ ReadingsAreCurrent
    BY ClientsAssumption
    DEF Init, TurnsTaken, ReadingsAreCurrent, Active, InFlight, AfterGet, Processes
  <1>2. [Next /\ TurnsTaken']_vars => [Next]_vars
    OBVIOUS
  <1>3. TurnsTaken /\ [Next /\ TurnsTaken']_vars => TurnsTaken'
    BY DEF TurnsTaken, Active, InFlight, UserOf, Event, vars, log
  <1>4. SerialSpec => [](PortfolioInv /\ TurnsTaken /\ ReadingsAreCurrent)
    BY <1>1, <1>2, <1>3, InitEstablishes, StepPreserves, CurrentStep, PTL DEF SerialSpec
  <1>5. PortfolioInv /\ ReadingsAreCurrent /\ [Next]_vars => [TheLedger!Next]_(TheLedger!vars)
    BY StepIsLedger DEF LedgerStep, ReadingsAreCurrent, WritesStale
  <1> QED
    BY <1>2, <1>4, <1>5, InitIsLedger, PTL DEF SerialSpec, ImplementsLedger, TheLedger!Spec

-----------------------------------------------------------------------------
(* What the consumer has read is booked, unless something failed           *)

Untroubled == \A k \in FaultKinds : faults[k] = 0

(* Neither half of a booking is turned away: nobody creates the portfolio  *)
(* the consumer is about to create, and a sale of these sides finds its    *)
(* position.                                                               *)
NothingInTheWay(sides) ==
    /\ pc[Consumer] = "create" => ~Taken(UserOf(Consumer))
    /\ pc[Consumer] = "position" /\ Side[Event.order] \in sides \ {"BUY"} =>
          quantity[<<Owner[Event.order], Symbol[Event.order]>>] # Absent

(* The trade of o is booked, in the position for orders of these sides.    *)
Booked(o, sides) == cashed[o] = 1 /\ (Side[o] \in sides => positioned[o] = 1)

(* A consumer that waits owes nothing: every trade it has read, once or    *)
(* more often, is booked, unless something failed (handleTradeExecuted     *)
(* gives up without a trace on every error it meets).                      *)
WaitingMeansBooked(sides) ==
    Untroubled /\ pc[Consumer] = "idle" =>
        \A i \in 1..fetched :
            topic[i].type = "TRADE_EXECUTED" => Booked(topic[i].order, sides)

(* Meanwhile its row in trades is there, and only the trade the consumer   *)
(* works on may be booked by halves.                                       *)
WorksOn(o) == pc[Consumer] \in {"get", "create", "cash", "position"} /\ Event.order = o

BookingInv(sides) ==
    Untroubled =>
        /\ \A i \in 1..fetched :
              /\ topic[i].type = "TRADE_EXECUTED"
              /\ i = fetched => pc[Consumer] \notin {"order", "trade"}
              => topic[i].order \in trades
        /\ \A o \in trades : WorksOn(o) \/ Booked(o, sides)

(* A fault leaves its trace.                                               *)
LEMMA TroubleShows ==
  ASSUME TypeOK, NEW k \in FaultKinds, Spend(k)
  PROVE  ~Untroubled'
  <1>1. faults \in [FaultKinds -> Nat] /\ faults' = [faults EXCEPT ![k] = @ + 1]
    BY DEF TypeOK, Spend
  <1> QED
    BY <1>1 DEF Untroubled

(* A step that neither books nor reads changes nothing of this.            *)
LEMMA BookingFrame ==
  ASSUME PortfolioInv, NEW sides, BookingInv(sides),
         UNCHANGED <<trades, cashed, positioned, fetched>>,
         Untroubled' => Untroubled,
         \A i \in 1..fetched : topic'[i] = topic[i],
         \/ pc'[Consumer] = pc[Consumer]
         \/ pc[Consumer] \in {"status", "order"} /\ pc'[Consumer] \in {"idle", "trade"}
               /\ (pc[Consumer] = "order" <=> pc'[Consumer] = "trade")
         \/ pc[Consumer] \in {"get", "create"} /\ pc'[Consumer] \in {"create", "cash"}
  PROVE  BookingInv(sides)'
  <1>1. pc[Consumer] # "idle" => Event' = Event
    BY EventTyped DEF PortfolioInv, Event
  <1>2. \A o : WorksOn(o) => WorksOn(o)'
    BY <1>1 DEF WorksOn
  <1> QED
    BY <1>2 DEF BookingInv, Booked

LEMMA BookingStep ==
  ASSUME PortfolioInv, NEW sides, NothingInTheWay(sides), BookingInv(sides), [Next]_vars
  PROVE  BookingInv(sides)'
  <1>0. /\ DOMAIN pc = Processes /\ Consumer \in Processes /\ Consumer \notin Clients
        /\ Clients \subseteq Processes /\ TypeOK /\ fetched \in Nat
        /\ {"db", "commit", "crash"} = FaultKinds
    BY ClientsAssumption DEF PortfolioInv, TypeOK, Processes, FaultKinds
  <1>1. ASSUME NEW k \in FaultKinds, Spend(k) PROVE BookingInv(sides)'
    BY <1>0, <1>1, TroubleShows DEF BookingInv
  <1>2. ASSUME UNCHANGED <<trades, cashed, positioned, fetched, faults, topic>>,
               pc'[Consumer] = pc[Consumer]
        PROVE  BookingInv(sides)'
    BY <1>2, BookingFrame DEF Untroubled
  <1>3. ASSUME NEW c \in Clients, Begin(c) \/ Serve(c) PROVE BookingInv(sides)'
    <2>1. c # Consumer
      BY <1>0
    <2>2. UNCHANGED <<trades, cashed, positioned, fetched, topic>>
      BY <1>3
      DEF Begin, RefuseAmount, SelectPortfolio, Serve, CreatePortfolio, ReturnBalance,
          RefuseWithdrawal, WriteBalance, tables, log, ghosts
    <2>3. UNCHANGED faults \/ Spend("db")
      BY <1>3
      DEF Begin, RefuseAmount, SelectPortfolio, Serve, CreatePortfolio, ReturnBalance,
          RefuseWithdrawal, WriteBalance
    <2>4. \E step : Goto(c, step)
      BY <1>3, <2>1
      DEF Begin, RefuseAmount, SelectPortfolio, Serve, CreatePortfolio, ReturnBalance,
          RefuseWithdrawal, WriteBalance, Abandon, Respond
    <2>5. pc'[Consumer] = pc[Consumer]
      BY <1>0, <2>1, <2>4 DEF Goto
    <2> QED
      BY <1>0, <1>1, <1>2, <2>2, <2>3, <2>5
  <1>4. CASE ReadMessage
    <2>1. /\ pc[Consumer] = "idle" /\ fetched' = fetched + 1
          /\ pc'[Consumer] = IF topic[fetched + 1].type = "TRADE_EXECUTED" THEN "order" ELSE "status"
          /\ UNCHANGED <<trades, cashed, positioned, topic, faults>>
      BY <1>0, <1>4 DEF ReadMessage, Goto, tables
    <2>2. SUFFICES ASSUME Untroubled'
                   PROVE  /\ \A i \in 1..fetched' :
                                /\ topic'[i].type = "TRADE_EXECUTED"
                                /\ i = fetched' => pc'[Consumer] \notin {"order", "trade"}
                                => topic'[i].order \in trades'
                          /\ \A o \in trades' : WorksOn(o)' \/ Booked(o, sides)'
      BY DEF BookingInv
    <2>3. Untroubled
      BY <2>1, <2>2 DEF Untroubled
    <2>4. \A i \in 1..fetched' : i \in 1..fetched \/ i = fetched'
      BY <1>0, <2>1
    <2>5. \A o \in trades : Booked(o, sides)
      BY <2>1, <2>3 DEF BookingInv, WorksOn
    <2> QED
      BY <2>1, <2>3, <2>4, <2>5 DEF BookingInv, Booked
  <1>5. CASE CommitFails
    BY <1>0, <1>1, <1>5 DEF CommitFails
  <1>6. CASE UpdateOrderStatus \/ InsertOrder
    <2>1. UNCHANGED <<trades, cashed, positioned, fetched, topic>>
      BY <1>6 DEF UpdateOrderStatus, InsertOrder, log, ghosts
    <2>2. UNCHANGED faults \/ Spend("db")
      BY <1>6 DEF UpdateOrderStatus, InsertOrder
    <2>3. \/ pc[Consumer] = "status" /\ pc'[Consumer] = "idle"
          \/ pc[Consumer] = "order" /\ pc'[Consumer] = "trade"
      BY <1>0, <1>6 DEF UpdateOrderStatus, InsertOrder, Goto
    <2> QED
      BY <1>0, <1>1, <2>1, <2>2, <2>3, BookingFrame DEF Untroubled
  <1>7. CASE InsertTrade
    <2>1. CASE Spend("db")
      BY <1>0, <1>1, <2>1
    <2> SUFFICES ASSUME ~Spend("db"), Untroubled'
                 PROVE  /\ \A i \in 1..fetched' :
                              /\ topic'[i].type = "TRADE_EXECUTED"
                              /\ i = fetched' => pc'[Consumer] \notin {"order", "trade"}
                              => topic'[i].order \in trades'
                        /\ \A o \in trades' : WorksOn(o)' \/ Booked(o, sides)'
      BY <2>1 DEF BookingInv
    <2>2. /\ pc[Consumer] = "trade" /\ UNCHANGED <<fetched, topic, cashed, positioned, faults>>
          /\ \/ trades' = trades \cup {Event.order} /\ pc'[Consumer] = "get"
             \/ trades' = trades /\ Event.order \in trades /\ pc'[Consumer] = "idle"
      BY <1>0, <1>7 DEF InsertTrade, Duplicate, Abandon, Goto, log, ghosts
    <2>3. Untroubled
      BY <2>2 DEF Untroubled
    <2>4. Event' = Event /\ topic[fetched] = Event
      BY <2>2 DEF Event
    <2>5. \A o \in trades : Booked(o, sides)
      BY <2>2, <2>3 DEF BookingInv, WorksOn
    <2> QED
      BY <2>2, <2>3, <2>4, <2>5 DEF BookingInv, Booked, WorksOn
  <1>8. CASE GetTrader \/ CreatePortfolio(Consumer)
    <2>1. CASE Spend("db")
      BY <1>0, <1>1, <2>1
    <2>2. CASE ~Spend("db")
      <3>1. UNCHANGED <<trades, cashed, positioned, fetched, topic, faults>>
        BY <1>8, <2>2 DEF GetTrader, SelectPortfolio, CreatePortfolio, tables, log, ghosts
      <3>2. pc[Consumer] \in {"get", "create"} /\ pc'[Consumer] \in {"create", "cash"}
        BY <1>0, <1>8, <2>2
        DEF GetTrader, SelectPortfolio, CreatePortfolio, NothingInTheWay, AfterGet, Goto
      <3> QED
        BY <3>1, <3>2, BookingFrame DEF Untroubled
    <2> QED
      BY <2>1, <2>2
  <1>9. CASE UpdateCash \/ UpdatePosition
    <2>1. CASE Spend("db")
      BY <1>0, <1>1, <2>1
    <2> SUFFICES ASSUME ~Spend("db"), Untroubled'
                 PROVE  /\ \A i \in 1..fetched' :
                              /\ topic'[i].type = "TRADE_EXECUTED"
                              /\ i = fetched' => pc'[Consumer] \notin {"order", "trade"}
                              => topic'[i].order \in trades'
                        /\ \A o \in trades' : WorksOn(o)' \/ Booked(o, sides)'
      BY <2>1 DEF BookingInv
    <2>2. /\ UNCHANGED <<fetched, topic, faults, trades>>
          /\ pc[Consumer] \in {"cash", "position"} /\ pc'[Consumer] \in {"position", "idle"}
      BY <1>0, <1>9 DEF UpdateCash, UpdatePosition, Goto, Abandon, log
    <2>3. Untroubled /\ Event' = Event
      BY <2>2 DEF Untroubled, Event
    <2>4. /\ Event.order \in Orders
          /\ cashed \in [Orders -> Nat] /\ positioned \in [Orders -> Nat] /\ trades \subseteq Orders
      BY <2>2, EventTyped DEF PortfolioInv, TypeOK
    <2>5. \A o \in trades : o # Event.order => Booked(o, sides)
      BY <2>2, <2>3 DEF BookingInv, WorksOn
    <2>6. \A o \in trades : o # Event.order => Booked(o, sides)'
      BY <1>9, <2>4, <2>5 DEF Booked, UpdateCash, UpdatePosition
    <2>7. ASSUME NEW o \in trades, o = Event.order PROVE WorksOn(o)' \/ Booked(o, sides)'
      <3>1. CASE UpdateCash
        BY <1>0, <2>2, <2>3, <2>7, <3>1 DEF UpdateCash, WorksOn, Goto, Abandon
      <3>2. CASE UpdatePosition
        <4>1. pc[Consumer] = "position" /\ cashed[Event.order] = 1 /\ positioned[Event.order] = 0
          BY <3>2 DEF UpdatePosition, PortfolioInv, BookingInStep
        <4>2. cashed' = cashed
          BY <3>2 DEF UpdatePosition
        <4>3. \/ positioned' = [positioned EXCEPT ![Event.order] = @ + 1]
              \/ /\ positioned' = positioned /\ Side[Event.order] = "SELL"
                 /\ quantity[<<Owner[Event.order], Symbol[Event.order]>>] = Absent
          BY <3>2 DEF UpdatePosition
        <4>4. Side[Event.order] \in sides => positioned' = [positioned EXCEPT ![Event.order] = @ + 1]
          BY <4>1, <4>3 DEF NothingInTheWay
        <4> QED
          BY <2>4, <2>7, <4>1, <4>2, <4>4 DEF Booked
      <3> QED
        BY <1>9, <3>1, <3>2
    <2>8. \A i \in 1..fetched' : topic'[i].type = "TRADE_EXECUTED" => topic'[i].order \in trades'
      BY <2>2, <2>3 DEF BookingInv
    <2>9. \A o \in trades' : WorksOn(o)' \/ Booked(o, sides)'
      BY <2>2, <2>6, <2>7
    <2> QED
      BY <2>8, <2>9
  <1>10. ASSUME NEW e \in Events, Publish(e) PROVE BookingInv(sides)'
    <2>1. /\ topic' = Append(topic, e)
          /\ UNCHANGED <<trades, cashed, positioned, fetched, faults, pc>>
      BY <1>10 DEF Publish, tables, ghosts
    <2>2. \A i \in 1..fetched : topic'[i] = topic[i]
      <3>1. topic \in Seq(Events) /\ Len(topic) \in Nat /\ fetched <= Len(topic)
        BY <1>0, LenProperties DEF PortfolioInv, TypeOK, LogInOrder
      <3>2. \A i \in 1..Len(topic) : topic'[i] = topic[i]
        BY <2>1, <3>1, AppendProperties
      <3> QED
        BY <1>0, <3>1, <3>2
    <2> QED
      BY <2>1, <2>2, BookingFrame DEF Untroubled
  <1>11. CASE Restart
    BY <1>0, <1>1, <1>11 DEF Restart
  <1>12. CASE UNCHANGED vars
    BY <1>2, <1>12 DEF vars, tables, log, ghosts
  <1> QED
    BY <1>3, <1>4, <1>5, <1>6, <1>7, <1>8, <1>9, <1>10, <1>11, <1>12 DEF Next, Consume

LEMMA BookingStarts == ASSUME NEW sides, Init PROVE BookingInv(sides)
  BY DEF Init, BookingInv

LEMMA BookingIsDone == ASSUME PortfolioInv, NEW sides, BookingInv(sides) PROVE WaitingMeansBooked(sides)
  <1> SUFFICES ASSUME Untroubled, pc[Consumer] = "idle", NEW i \in 1..fetched,
                      topic[i].type = "TRADE_EXECUTED"
               PROVE  Booked(topic[i].order, sides)
    BY DEF WaitingMeansBooked
  <1> QED
    BY DEF BookingInv, WorksOn

(* Alone, the service may lose a trade to the race of two INSERTs into     *)
(* portfolios; when the writers of an account take turns it cannot.        *)
LEMMA NoRaceToCreate ==
  NothingInTheWay({"BUY"}) /\ PortfolioInv /\ TurnsTaken /\ [Next]_vars => NothingInTheWay({"BUY"})'
  <1> SUFFICES ASSUME PortfolioInv, TurnsTaken, [Next]_vars, pc'[Consumer] = "create",
                      pc[Consumer] = "create" => cash[UserOf(Consumer)] = Absent
               PROVE  cash'[UserOf(Consumer)'] = Absent
    BY DEF NothingInTheWay, Taken
  <1>0. /\ DOMAIN pc = Processes /\ Consumer \in Processes /\ Consumer \notin Clients
        /\ Clients \subseteq Processes /\ cash \in [Users -> Int \cup {Absent}]
    BY ClientsAssumption DEF PortfolioInv, TypeOK, Processes
  <1>1. ASSUME UNCHANGED <<cash, fetched>>, pc'[Consumer] = pc[Consumer], UNCHANGED topic
        PROVE  cash'[UserOf(Consumer)'] = Absent
    BY <1>1 DEF UserOf, Event
  <1>2. ASSUME NEW c \in Clients, Begin(c) \/ Serve(c) PROVE cash'[UserOf(Consumer)'] = Absent
    <2>1. c # Consumer /\ c \in Processes
      BY <1>0
    <2>2. UNCHANGED <<fetched, topic>>
      BY <1>2
      DEF Begin, RefuseAmount, SelectPortfolio, Serve, CreatePortfolio, ReturnBalance,
          RefuseWithdrawal, WriteBalance, log
    <2>3. \E step : Goto(c, step)
      BY <1>2, <2>1
      DEF Begin, RefuseAmount, SelectPortfolio, Serve, CreatePortfolio, ReturnBalance,
          RefuseWithdrawal, WriteBalance, Abandon, Respond
    <2>4. pc[Consumer] = "create"
      BY <1>0, <2>1, <2>3 DEF Goto
    <2>5. UserOf(Consumer)' = UserOf(Consumer) /\ cash[UserOf(Consumer)] = Absent
      BY <2>2, <2>4 DEF UserOf, Event
    <2>6. CASE InFlight(c)
      <3>1. Account[c] # UserOf(Consumer)
        BY <1>0, <2>1, <2>4, <2>6 DEF TurnsTaken, Active, UserOf
      <3>2. cash' = cash \/ \E b : cash' = [cash EXCEPT ![Account[c]] = b]
        BY <1>2, <2>1
        DEF Begin, RefuseAmount, SelectPortfolio, Serve, CreatePortfolio, ReturnBalance,
            RefuseWithdrawal, WriteBalance, UserOf, tables
      <3>3. UserOf(Consumer) \in Users
        BY <1>0, <2>4, UserTyped DEF PortfolioInv
      <3>4. cash'[UserOf(Consumer)] = cash[UserOf(Consumer)]
        BY <1>0, <3>1, <3>2, <3>3
      <3> QED
        BY <2>5, <3>4
    <2>7. CASE ~InFlight(c)
      <3>1. cash' = cash
        BY <1>2, <2>7
        DEF Begin, RefuseAmount, SelectPortfolio, Serve, CreatePortfolio, ReturnBalance,
            RefuseWithdrawal, WriteBalance, InFlight, tables
      <3> QED
        BY <2>5, <3>1
    <2> QED
      BY <2>6, <2>7
  <1>3. CASE GetTrader
    BY <1>0, <1>3
    DEF GetTrader, SelectPortfolio, Abandon, Goto, AfterGet, UserOf, Event, tables, log
  <1>4. ASSUME NEW step, Goto(Consumer, step), step # "create" PROVE FALSE
    BY <1>0, <1>4 DEF Goto
  <1>5. CASE ReadMessage \/ UpdateOrderStatus \/ InsertOrder \/ InsertTrade \/ UpdateCash \/ UpdatePosition
    BY <1>4, <1>5
    DEF ReadMessage, UpdateOrderStatus, InsertOrder, InsertTrade, UpdateCash, UpdatePosition, Abandon
  <1>6. CASE CreatePortfolio(Consumer)
    BY <1>4, <1>6 DEF CreatePortfolio, Abandon, AfterGet
  <1>7. CASE CommitFails
    BY <1>7 DEF CommitFails
  <1>8. ASSUME NEW e \in Events, Publish(e) PROVE cash'[UserOf(Consumer)'] = Absent
    <2>1. UNCHANGED <<cash, fetched, pc>> /\ topic' = Append(topic, e)
      BY <1>8 DEF Publish, tables
    <2>2. topic \in Seq(Events) /\ fetched \in 1..Len(topic)
      BY <2>1, EventTyped DEF PortfolioInv, TypeOK
    <2>3. Event' = Event
      BY <2>1, <2>2, AppendProperties DEF Event
    <2> QED
      BY <2>1, <2>3 DEF UserOf
  <1>9. CASE Restart
    BY <1>0, <1>9 DEF Restart
  <1>10. CASE UNCHANGED vars
    BY <1>1, <1>10 DEF vars, tables, log
  <1> QED
    BY <1>2, <1>3, <1>5, <1>6, <1>7, <1>8, <1>9, <1>10 DEF Next, Consume

(* The consumer comes to create a portfolio only from a SELECT without one. *)
LEMMA CreatesAfterGet ==
  ASSUME PortfolioInv, [Next]_vars, pc'[Consumer] = "create", pc[Consumer] # "create"
  PROVE  pc[Consumer] = "get" /\ cash[UserOf(Consumer)] = Absent
  <1>0. DOMAIN pc = Processes /\ Consumer \in Processes /\ Consumer \notin Clients
    BY ClientsAssumption DEF PortfolioInv, TypeOK, Processes
  <1>1. ASSUME NEW c \in Clients, Begin(c) \/ Serve(c) PROVE FALSE
    <2>1. c # Consumer
      BY <1>0
    <2>2. \E step : Goto(c, step)
      BY <1>1, <2>1
      DEF Begin, RefuseAmount, SelectPortfolio, Serve, CreatePortfolio, ReturnBalance,
          RefuseWithdrawal, WriteBalance, Abandon, Respond
    <2> QED
      BY <1>0, <2>1, <2>2 DEF Goto
  <1>2. ASSUME NEW step, Goto(Consumer, step), step # "create" PROVE FALSE
    BY <1>0, <1>2 DEF Goto
  <1>3. ASSUME \/ ReadMessage \/ UpdateOrderStatus \/ InsertOrder \/ InsertTrade \/ UpdateCash
               \/ UpdatePosition \/ CreatePortfolio(Consumer)
        PROVE  FALSE
    BY <1>2, <1>3
    DEF ReadMessage, UpdateOrderStatus, InsertOrder, InsertTrade, UpdateCash, UpdatePosition,
        CreatePortfolio, AfterGet, Abandon
  <1>4. CASE GetTrader
    BY <1>2, <1>4 DEF GetTrader, SelectPortfolio, AfterGet, Abandon
  <1>5. ASSUME CommitFails \/ Restart \/ (\E e \in Events : Publish(e)) \/ UNCHANGED vars PROVE FALSE
    BY <1>0, <1>5 DEF CommitFails, Restart, Publish, vars
  <1> QED
    BY <1>1, <1>3, <1>4, <1>5 DEF Next, Consume

(* A purchase the consumer has read is booked when it waits again, if the  *)
(* writers of an account take turns and nothing failed, also one for whose *)
(* trader the portfolio is created on the way (handleTradeExecuted).       *)
THEOREM PurchasesReadAreBooked == SerialSpec => []WaitingMeansBooked({"BUY"})
  <1>1. Init => TurnsTaken /\ NothingInTheWay({"BUY"}) /\ BookingInv({"BUY"})
    BY ClientsAssumption, BookingStarts
    DEF Init, TurnsTaken, NothingInTheWay, Active, InFlight, Processes
  <1>2. [Next /\ TurnsTaken']_vars => [Next]_vars
    OBVIOUS
  <1>3. TurnsTaken /\ [Next /\ TurnsTaken']_vars => TurnsTaken'
    BY DEF TurnsTaken, Active, InFlight, UserOf, Event, vars, log
  <1>4. PortfolioInv /\ NothingInTheWay({"BUY"}) /\ BookingInv({"BUY"}) /\ [Next]_vars
          => BookingInv({"BUY"})'
    BY BookingStep
  <1>5. PortfolioInv /\ BookingInv({"BUY"}) => WaitingMeansBooked({"BUY"})
    BY BookingIsDone
  <1> QED
    BY <1>1, <1>2, <1>3, <1>4, <1>5, InitEstablishes, StepPreserves, NoRaceToCreate, PTL
    DEF SerialSpec

=============================================================================
