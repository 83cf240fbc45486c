------------------------ MODULE OrderLifecycleProofs ------------------------
(***************************************************************************)
(* Theorems about OrderLifecycle, for any number of orders and of cancel   *)
(* requests, any quotes and holdings and any number of faults.             *)
(*                                                                         *)
(* The argument: only FillOrder writes the trade columns and only          *)
(* RejectOrder the reason, each as the last step of its handler on a       *)
(* verdict fixed by two answers that never change once they have arrived;  *)
(* so the row keeps in step with the verdict, and the goroutines publish   *)
(* nothing the row does not hold.                                          *)
(***************************************************************************)
EXTENDS OrderLifecycle, SequenceTheorems, TLAPS

(* A request that is not over has told nothing and started no goroutine.   *)
SilentUntilDone ==
    \A p \in Requests :
        /\ pc[p] \in {"idle", "fetch", "write"} => answer[p] = "none"
        /\ answer[p] \notin {"FILLED", "REJECTED", "CANCELLED"} => publisher[p] = "none"
        /\ publisher[p] = "trade" => answer[p] = "FILLED"

(* What the client of a create request was told follows its verdict.       *)
AnswersFollowVerdict ==
    /\ \A c \in Cancels : answer[c] \notin {"FILLED", "REJECTED"}
    /\ \A o \in Orders :
          /\ answer[o] = "FILLED" => row[o].trade # NoTrade
          /\ answer[o] = "REJECTED" => pc[o] = "done" /\ Verdict(o) \in Reasons

(* What the row holds follows the verdict of its handler, which is over.   *)
RowFollowsVerdict ==
    \A o \in Orders :
        /\ row[o].trade # NoTrade =>
              /\ pc[o] = "done"
              /\ market[o] \in Quotes /\ row[o].trade = market[o].price
              /\ Verdict(o) = "fill"
        /\ row[o].reason # "none" => pc[o] = "done" /\ Verdict(o) \in Reasons

(* What an event says follows the row and the verdict of its order.        *)
Agrees(e) ==
    /\ e.type \in {"ORDER_FILLED", "TRADE_EXECUTED"} =>
          e.trade # NoTrade /\ row[e.order].trade = e.trade
    /\ e.type = "ORDER_REJECTED" =>
          pc[e.order] = "done" /\ Verdict(e.order) \in Reasons

TopicFollowsRow == \A i \in DOMAIN topic : Agrees(topic[i])

OrderInv ==
    /\ TypeOK
    /\ SilentUntilDone
    /\ AnswersFollowVerdict
    /\ RowFollowsVerdict
    /\ TopicFollowsRow

-----------------------------------------------------------------------------
(* The type of a quote's price, and that no price stands for "no trade".   *)
LEMMA PricesAreNat == Prices \subseteq Nat /\ NoTrade \notin Prices
  BY AnswersAssumption DEF Prices

(* A fill is decided on a quote, and a rejection names one of the reasons. *)
LEMMA VerdictOfFetched ==
  ASSUME TypeOK, NEW o \in Orders, Verdict(o) = "fill", market[o] # Pending
  PROVE  market[o] \in Quotes /\ market[o].price \in Prices
  <1>1. market[o] # Failed
    BY DEF Verdict
  <1> QED
    BY <1>1 DEF TypeOK, Prices

(* The verdict is a function of the two answers.                           *)
LEMMA VerdictStable ==
  ASSUME NEW o \in Orders, market'[o] = market[o], portfolio'[o] = portfolio[o]
  PROVE  Verdict(o)' = Verdict(o)
  BY DEF Verdict, Covered

LEMMA InitEstablishes == Init => OrderInv
  BY DEF Init, OrderInv, TypeOK, SilentUntilDone, AnswersFollowVerdict,
         RowFollowsVerdict, TopicFollowsRow, Requests, Rows, Answers, FaultKinds

(* What no step of the system undoes.                                      *)
Kept ==
    \A o \in Orders :
        /\ pc[o] = "done" => pc'[o] = "done" /\ Verdict(o)' = Verdict(o)
        /\ row[o].trade # NoTrade => row'[o].trade = row[o].trade

LEMMA RowsStayTyped ==
  ASSUME TypeOK, NEW o \in Orders, NEW r \in Rows, row' \in {row, [row EXCEPT ![o] = r]}
  PROVE  row' \in [Orders -> Rows]
  BY DEF TypeOK

LEMMA FaultsStayTyped ==
  ASSUME TypeOK, NEW kind \in FaultKinds, UNCHANGED faults \/ Spend(kind)
  PROVE  faults' \in [FaultKinds -> Nat]
  BY SMTT(40) DEF TypeOK, Spend

LEMMA TopicElement ==
  ASSUME TypeOK, NEW i \in DOMAIN topic
  PROVE  topic[i] \in Events /\ topic[i].order \in Orders
  <1>1. topic \in Seq(Events) /\ i \in 1..Len(topic)
    BY LenProperties DEF TypeOK
  <1>2. topic[i] \in Events
    BY <1>1, ElementOfSeq
  <1> QED
    BY <1>2 DEF Events

(* A step that sends nothing leaves the topic in step with the table.      *)
LEMMA AgreesFrame ==
  ASSUME NEW e \in Events, Kept, Agrees(e)
  PROVE  Agrees(e)'
  BY DEF Agrees, Kept, Events

LEMMA TopicFrame ==
  ASSUME TypeOK, TopicFollowsRow, Kept, UNCHANGED topic
  PROVE  TopicFollowsRow'
  <1> SUFFICES ASSUME NEW i \in DOMAIN topic, NEW e \in Events, topic[i] = e
               PROVE  Agrees(e)'
    BY TopicElement DEF TopicFollowsRow, Agrees
  <1>1. Agrees(e)
    BY DEF TopicFollowsRow
  <1> QED
    BY <1>1, AgreesFrame

(* Creating an order: its row appears, nothing else refers to it yet.      *)
LEMMA CreateOrderStep ==
  ASSUME OrderInv, NEW o \in Orders, CreateOrder(o)
  PROVE  OrderInv' /\ Kept
  <1> USE DEF OrderInv, CreateOrder, Exec, ExecErr, Respond
  <1>1. TypeOK'
    <2>1. Inserted(o) \in Rows
      BY DEF Inserted, Rows
    <2>2. row' \in [Orders -> Rows]
      BY <2>1, RowsStayTyped
    <2>3. faults' \in [FaultKinds -> Nat]
      BY FaultsStayTyped DEF FaultKinds
    <2> QED
      BY <2>2, <2>3 DEF TypeOK, Answers, Requests
  <1>2. SilentUntilDone'
    BY DEF TypeOK, SilentUntilDone, Requests
  <1>3. \A x \in Orders : Verdict(x)' = Verdict(x)
    BY VerdictStable
  <1>4. AnswersFollowVerdict'
    BY <1>3, OrdersAssumption
    DEF TypeOK, AnswersFollowVerdict, SilentUntilDone, Requests, Inserted
  <1>5. RowFollowsVerdict'
    BY <1>3, OrdersAssumption DEF TypeOK, RowFollowsVerdict, Requests, Inserted
  <1>6. Kept
    BY <1>3 DEF TypeOK, Kept, RowFollowsVerdict, Requests, Inserted
  <1> QED
    BY <1>1, <1>2, <1>4, <1>5, <1>6, TopicFrame

(* An upstream answer is recorded while the handler still waits for it.    *)
LEMMA UpstreamAnswersStep ==
  ASSUME OrderInv, NEW o \in Orders,
         \/ \E reply \in Quotes \cup {Failed} : MarketAnswers(o, reply)
         \/ \E reply \in Holdings \cup {Failed} : PortfolioAnswers(o, reply)
  PROVE  OrderInv' /\ Kept
  <1> USE DEF OrderInv, MarketAnswers, PortfolioAnswers
  <1>1. TypeOK'
    <2>1. faults' \in [FaultKinds -> Nat]
      BY FaultsStayTyped DEF FaultKinds
    <2>2. market' \in [Orders -> Quotes \cup {Pending, Failed}]
      BY DEF TypeOK
    <2>3. portfolio' \in [Orders -> Holdings \cup {Pending, Failed}]
      BY DEF TypeOK
    <2> QED
      BY <2>1, <2>2, <2>3 DEF TypeOK
  <1>2. SilentUntilDone'
    BY DEF SilentUntilDone
  <1>3. \A x \in Orders : pc[x] = "done" =>
           /\ Verdict(x)' = Verdict(x)
           /\ market'[x] = market[x]
    BY VerdictStable DEF TypeOK
  <1>4. AnswersFollowVerdict'
    BY <1>3 DEF AnswersFollowVerdict
  <1>5. RowFollowsVerdict'
    BY <1>3 DEF RowFollowsVerdict
  <1>6. Kept
    BY <1>3 DEF Kept
  <1> QED
    BY <1>1, <1>2, <1>4, <1>5, <1>6, TopicFrame

(* The columns of a row before and after each UPDATE.                      *)
LEMMA RowUpdates ==
  ASSUME TypeOK, NEW o \in Orders
  PROVE  /\ row[o].reason \in Reasons \cup {"none"} /\ row[o].trade \in Prices \cup {NoTrade}
         /\ Verdict(o) \in Reasons =>
               /\ Rejected(o) \in Rows
               /\ Rejected(o).trade = row[o].trade /\ Rejected(o).reason = Verdict(o)
         /\ market[o].price \in Prices =>
               /\ Filled(o) \in Rows
               /\ Filled(o).trade = market[o].price /\ Filled(o).reason = row[o].reason
         /\ Cancelled(o) \in Rows
         /\ Cancelled(o).trade = row[o].trade /\ Cancelled(o).reason = row[o].reason
  <1>1. row[o] \in Rows
    BY DEF TypeOK
  <1> QED
    BY <1>1 DEF Rows, Rejected, Filled, Cancelled

(* Giving up on an order tells the client and leaves its row alone.        *)
LEMMA FailOrderStep ==
  ASSUME OrderInv, NEW o \in Orders, FailOrder(o)
  PROVE  OrderInv' /\ Kept
  <1> USE DEF OrderInv, FailOrder, Fetched, Respond
  <1>1. TypeOK'
    BY DEF TypeOK, Answers, Requests
  <1>2. SilentUntilDone'
    BY DEF TypeOK, SilentUntilDone, Requests
  <1>3. \A x \in Orders : Verdict(x)' = Verdict(x)
    BY VerdictStable
  <1>4. AnswersFollowVerdict'
    BY <1>3, OrdersAssumption DEF TypeOK, AnswersFollowVerdict, Requests
  <1>5. RowFollowsVerdict'
    BY <1>3 DEF TypeOK, RowFollowsVerdict, Requests
  <1>6. Kept
    BY <1>3 DEF TypeOK, Kept, Requests
  <1> QED
    BY <1>1, <1>2, <1>4, <1>5, <1>6, TopicFrame

(* Rejecting an order gives a row a reason only where the verdict has one. *)
LEMMA RejectOrderStep ==
  ASSUME OrderInv, NEW o \in Orders, RejectOrder(o)
  PROVE  OrderInv' /\ Kept
  <1> USE DEF OrderInv, RejectOrder, Fetched, Respond, GoPublish, Exec, ExecErr
  <1>1. TypeOK'
    <2>1. Rejected(o) \in Rows
      BY RowUpdates
    <2>2. row' \in [Orders -> Rows]
      BY <2>1, RowsStayTyped
    <2>3. faults' \in [FaultKinds -> Nat]
      BY FaultsStayTyped DEF FaultKinds
    <2> QED
      BY <2>2, <2>3 DEF TypeOK, Answers, Requests
  <1>2. SilentUntilDone'
    BY DEF TypeOK, SilentUntilDone, Requests
  <1>3. \A x \in Orders : Verdict(x)' = Verdict(x)
    BY VerdictStable
  <1>4. AnswersFollowVerdict'
    BY <1>3, RowUpdates, OrdersAssumption
    DEF TypeOK, AnswersFollowVerdict, SilentUntilDone, Requests
  <1>5. RowFollowsVerdict'
    BY <1>3, RowUpdates DEF TypeOK, RowFollowsVerdict, Requests
  <1>6. Kept
    BY <1>3, RowUpdates, ZenonT(40) DEF TypeOK, Kept, Requests
  <1> QED
    BY <1>1, <1>2, <1>4, <1>5, <1>6, TopicFrame

(* Filling an order writes the price the market answered.                  *)
LEMMA FillOrderStep ==
  ASSUME OrderInv, NEW o \in Orders, FillOrder(o)
  PROVE  OrderInv' /\ Kept
  <1> USE DEF OrderInv, FillOrder, Fetched, Respond, GoPublish, Exec, ExecErr
  <1>1. market[o] \in Quotes /\ market[o].price \in Prices /\ market[o].price # NoTrade
    BY VerdictOfFetched, PricesAreNat
  <1>2. TypeOK'
    <2>1. Filled(o) \in Rows
      BY <1>1, RowUpdates
    <2>2. row' \in [Orders -> Rows]
      BY <2>1, RowsStayTyped
    <2>3. faults' \in [FaultKinds -> Nat]
      BY FaultsStayTyped DEF FaultKinds
    <2> QED
      BY <2>2, <2>3, ZenonT(40) DEF TypeOK, Answers, Requests
  <1>3. SilentUntilDone'
    BY ZenonT(40) DEF TypeOK, SilentUntilDone, Requests
  <1>4. \A x \in Orders : Verdict(x)' = Verdict(x)
    BY VerdictStable
  <1>a. /\ row'[o].trade \in {row[o].trade, market[o].price} /\ row'[o].reason = row[o].reason
        /\ answer'[o] = "FILLED" => row'[o].trade = market[o].price
        /\ pc'[o] = "done" /\ answer'[o] \in {"FILLED", "INTERNAL_ERROR"}
    BY <1>1, RowUpdates DEF TypeOK, Requests
  <1>b. \A x \in Orders : x # o => row'[x] = row[x] /\ pc'[x] = pc[x] /\ answer'[x] = answer[x]
    BY DEF TypeOK, Requests
  <1>c. UNCHANGED <<market, portfolio>>
    OBVIOUS
  <1>5. AnswersFollowVerdict'
    <2>1. \A c \in Cancels : answer'[c] = answer[c]
      BY OrdersAssumption DEF TypeOK, Requests
    <2> QED
      BY <1>1, <1>4, <1>a, <1>b, <2>1 DEF AnswersFollowVerdict
  <1>6. RowFollowsVerdict'
    <2>1. Verdict(o)' = "fill"
      BY <1>4
    <2> QED
      BY <1>1, <1>4, <1>a, <1>b, <1>c, <2>1 DEF RowFollowsVerdict
  <1>7. Kept
    BY <1>1, <1>4, RowUpdates DEF TypeOK, Kept, RowFollowsVerdict, Requests
  <1> QED
    BY <1>2, <1>3, <1>5, <1>6, <1>7, TopicFrame

(* Reading an order for a cancel request changes that request alone.       *)
LEMMA ReadForCancelStep ==
  ASSUME OrderInv, NEW c \in Cancels, ReadForCancel(c)
  PROVE  OrderInv' /\ Kept
  <1> USE DEF OrderInv, ReadForCancel, Respond
  <1>1. TypeOK'
    <2>1. faults' \in [FaultKinds -> Nat]
      BY FaultsStayTyped DEF FaultKinds
    <2> QED
      BY <2>1 DEF TypeOK, Answers, Requests
  <1>2. SilentUntilDone'
    BY ZenonT(40) DEF TypeOK, SilentUntilDone, Requests
  <1>3. \A x \in Orders : Verdict(x)' = Verdict(x)
    BY VerdictStable
  <1>4. AnswersFollowVerdict'
    BY <1>3, OrdersAssumption DEF TypeOK, AnswersFollowVerdict, Requests
  <1>5. RowFollowsVerdict'
    BY <1>3, OrdersAssumption DEF TypeOK, RowFollowsVerdict, Requests
  <1>6. Kept
    BY <1>3, OrdersAssumption DEF TypeOK, Kept, Requests
  <1> QED
    BY <1>1, <1>2, <1>4, <1>5, <1>6, TopicFrame

(* Cancelling an order keeps the trade and the reason of its row.          *)
LEMMA CancelOrderStep ==
  ASSUME OrderInv, NEW c \in Cancels, CancelOrder(c)
  PROVE  OrderInv' /\ Kept
  <1> USE DEF OrderInv, CancelOrder, Respond, GoPublish, Exec, ExecErr
  <1>0. target[c] \in Orders
    BY DEF TypeOK
  <1>1. TypeOK'
    <2>1. Cancelled(target[c]) \in Rows
      BY <1>0, RowUpdates
    <2>2. row' \in [Orders -> Rows]
      BY <1>0, <2>1, RowsStayTyped
    <2>3. faults' \in [FaultKinds -> Nat]
      BY FaultsStayTyped DEF FaultKinds
    <2> QED
      BY <2>2, <2>3 DEF TypeOK, Answers, Requests
  <1>2. SilentUntilDone'
    BY ZenonT(40) DEF TypeOK, SilentUntilDone, Requests
  <1>3. \A x \in Orders : Verdict(x)' = Verdict(x)
    BY VerdictStable
  <1>4. \A x \in Orders : row'[x].trade = row[x].trade /\ row'[x].reason = row[x].reason
    BY <1>0, RowUpdates DEF TypeOK
  <1>5. \A x \in Orders : pc'[x] = pc[x] /\ answer'[x] = answer[x]
    BY OrdersAssumption DEF TypeOK, Requests
  <1>6. AnswersFollowVerdict'
    BY <1>3, <1>4, <1>5 DEF TypeOK, AnswersFollowVerdict, Requests
  <1>7. RowFollowsVerdict'
    BY <1>3, <1>4, <1>5 DEF RowFollowsVerdict
  <1>8. Kept
    BY <1>3, <1>4, <1>5 DEF Kept
  <1> QED
    BY <1>1, <1>2, <1>6, <1>7, <1>8, TopicFrame

(* The end of the process silences the handlers and goroutines it kills.   *)
LEMMA StopStep ==
  ASSUME OrderInv, Crash \/ Shutdown
  PROVE  OrderInv' /\ Kept
  <1> USE DEF OrderInv
  <1>0. UNCHANGED <<row, market, portfolio, target, topic>>
    BY DEF Crash, Shutdown
  <1>1. \A p \in Requests :
           /\ pc'[p] \in {pc[p], "done"}
           /\ answer'[p] = answer[p] \/ answer[p] = "none"
           /\ answer'[p] \in {answer[p], "connection lost"}
           /\ pc'[p] # "done" => answer'[p] = answer[p]
           /\ publisher[p] = "none" => publisher'[p] = "none"
           /\ publisher'[p] \in {"none", "gone"}
    <2>1. CASE Crash
      BY <2>1 DEF Crash, TypeOK, SilentUntilDone, InFlight, DropPublishers
    <2>2. CASE Shutdown
      BY <2>2 DEF Shutdown, TypeOK, SilentUntilDone, DropPublishers
    <2> QED
      BY <2>1, <2>2
  <1>2. TypeOK'
    <2>1. faults' \in [FaultKinds -> Nat]
      BY FaultsStayTyped DEF FaultKinds, Crash, Shutdown
    <2>2. pc' \in [Requests -> {"idle", "fetch", "write", "done"}]
      BY DEF TypeOK, Crash, Shutdown
    <2>3. answer' \in [Requests -> Answers]
      BY DEF TypeOK, Crash, Shutdown, Answers
    <2>4. publisher' \in [Requests -> {"none", "status", "trade", "gone"}]
      BY DEF TypeOK, Crash, Shutdown, DropPublishers
    <2> QED
      BY <1>0, <2>1, <2>2, <2>3, <2>4 DEF TypeOK
  <1>3. SilentUntilDone'
    BY <1>1 DEF SilentUntilDone
  <1>4. \A x \in Orders : Verdict(x)' = Verdict(x)
    BY <1>0, VerdictStable
  <1>5. AnswersFollowVerdict'
    BY <1>0, <1>1, <1>4 DEF AnswersFollowVerdict, Requests
  <1>6. RowFollowsVerdict'
    BY <1>0, <1>1, <1>4 DEF RowFollowsVerdict, Requests
  <1>7. Kept
    BY <1>0, <1>1, <1>4 DEF Kept, Requests
  <1> QED
    BY <1>0, <1>2, <1>3, <1>5, <1>6, <1>7, TopicFrame

(* Sending one more message e keeps the topic in step with the table, if e *)
(* is a well-formed event that agrees with it.                             *)
LEMMA ProduceStep ==
  ASSUME OrderInv, NEW p \in Requests, NEW e \in Events, NEW next \in {"trade", "gone"},
         next = "trade" => answer[p] = "FILLED",
         answer[p] \in {"FILLED", "REJECTED", "CANCELLED"},
         Agrees(e),
         Produce(p, e, next),
         UNCHANGED <<row, pc, market, portfolio, target, answer>>
  PROVE  OrderInv' /\ Kept
  <1> USE DEF OrderInv, Produce
  <1>1. topic \in Seq(Events) /\ topic' \in {topic, Append(topic, e)}
    BY DEF TypeOK
  <1>2. TypeOK'
    <2>1. faults' \in [FaultKinds -> Nat]
      BY FaultsStayTyped DEF FaultKinds
    <2>2. topic' \in Seq(Events)
      BY <1>1, AppendProperties
    <2>3. publisher' \in [Requests -> {"none", "status", "trade", "gone"}]
      BY DEF TypeOK
    <2> QED
      BY <2>1, <2>2, <2>3 DEF TypeOK
  <1>3. SilentUntilDone'
    BY DEF TypeOK, SilentUntilDone
  <1>4. \A x \in Orders : Verdict(x)' = Verdict(x)
    BY VerdictStable
  <1>5. AnswersFollowVerdict' /\ RowFollowsVerdict' /\ Kept
    BY <1>4 DEF AnswersFollowVerdict, RowFollowsVerdict, Kept
  <1>6. TopicFollowsRow'
    <2>1. CASE topic' = topic
      BY <1>5, <2>1, TopicFrame
    <2>2. CASE topic' = Append(topic, e)
      <3>1. /\ DOMAIN topic = 1..Len(topic) /\ DOMAIN topic' = 1..Len(topic) + 1
            /\ Len(topic) \in Nat
            /\ topic'[Len(topic) + 1] = e
            /\ \A i \in DOMAIN topic : topic'[i] = topic[i]
        BY <1>1, <1>2, <2>2, AppendProperties, LenProperties DEF TypeOK
      <3> SUFFICES ASSUME NEW i \in DOMAIN topic', NEW m \in Events, topic'[i] = m
                   PROVE  Agrees(m)'
        <4>1. \A i \in DOMAIN topic' : topic'[i] \in Events
          BY <3>1, TopicElement
        <4> QED
          BY <4>1 DEF TopicFollowsRow, Agrees
      <3>2. Agrees(m)
        BY <3>1 DEF TopicFollowsRow
      <3> QED
        BY <1>5, <3>2, AgreesFrame
    <2> QED
      BY <1>1, <2>1, <2>2
  <1> QED
    BY <1>2, <1>3, <1>5, <1>6

(* What publishEvent sends agrees with the row of its order.               *)
LEMMA StatusEventAgrees ==
  ASSUME OrderInv, NEW p \in Requests, answer[p] \in {"FILLED", "REJECTED", "CANCELLED"}
  PROVE  LET e == StatusEvent(p) IN
         /\ e \in Events
         /\ e.type \in {"ORDER_FILLED", "ORDER_REJECTED", "ORDER_CANCELLED"}
         /\ answer[p] = "FILLED" => e.trade # NoTrade /\ row[e.order].trade = e.trade
         /\ Agrees(e)
  <1>1. OrderOf(p) \in Orders
    BY DEF OrderOf, OrderInv, TypeOK, Requests
  <1>2. CASE answer[p] = "CANCELLED"
    BY <1>1, <1>2 DEF StatusEvent, Events, Agrees
  <1>3. ASSUME answer[p] \in {"FILLED", "REJECTED"}
        PROVE  p \in Orders /\ OrderOf(p) = p
    BY <1>3 DEF OrderInv, AnswersFollowVerdict, Requests, OrderOf
  <1>4. CASE answer[p] = "FILLED"
    <2>1. row[p].trade # NoTrade /\ row[p].trade = market[p].price /\ market[p] \in Quotes
      BY <1>3, <1>4 DEF OrderInv, AnswersFollowVerdict, RowFollowsVerdict
    <2>2. market[p].price \in Prices
      BY <2>1 DEF Prices
    <2> QED
      BY <1>3, <1>4, <2>1, <2>2 DEF StatusEvent, Events, Agrees
  <1>5. CASE answer[p] = "REJECTED"
    <2>1. pc[p] = "done" /\ Verdict(p) \in Reasons
      BY <1>3, <1>5 DEF OrderInv, AnswersFollowVerdict
    <2> QED
      BY <1>3, <1>5, <2>1 DEF StatusEvent, Events, Agrees
  <1> QED
    BY <1>2, <1>4, <1>5

LEMMA PublishStatusStep ==
  ASSUME OrderInv, NEW p \in Requests, PublishStatus(p)
  PROVE  OrderInv' /\ Kept
  <1>1. answer[p] \in {"FILLED", "REJECTED", "CANCELLED"}
    BY DEF PublishStatus, OrderInv, SilentUntilDone
  <1>2. AfterStatus(p) \in {"trade", "gone"} /\ (AfterStatus(p) = "trade" => answer[p] = "FILLED")
    BY DEF AfterStatus
  <1> QED
    BY <1>1, <1>2, StatusEventAgrees, ProduceStep DEF PublishStatus

LEMMA PublishTradeStep ==
  ASSUME OrderInv, NEW p \in Requests, PublishTrade(p)
  PROVE  OrderInv' /\ Kept
  <1> DEFINE e == [StatusEvent(p) EXCEPT !.type = "TRADE_EXECUTED"]
  <1>1. answer[p] = "FILLED"
    BY DEF PublishTrade, OrderInv, SilentUntilDone
  <1>2. /\ StatusEvent(p) \in Events
        /\ StatusEvent(p).trade # NoTrade
        /\ row[StatusEvent(p).order].trade = StatusEvent(p).trade
    BY <1>1, StatusEventAgrees
  <1>3. e \in Events /\ e.type = "TRADE_EXECUTED" /\ e.trade # NoTrade /\ row[e.order].trade = e.trade
    BY <1>2 DEF Events
  <1>4. Produce(p, e, "gone") /\ UNCHANGED <<row, pc, market, portfolio, target, answer>>
    BY DEF PublishTrade
  <1> HIDE DEF e
  <1> QED
    BY <1>1, <1>3, <1>4, ProduceStep DEF Agrees

-----------------------------------------------------------------------------
(* Every step of the system preserves the invariant and undoes nothing.    *)
LEMMA NextStep == OrderInv /\ [Next]_vars => OrderInv' /\ Kept
  <1> SUFFICES ASSUME OrderInv, [Next]_vars
               PROVE  OrderInv' /\ Kept
    OBVIOUS
  <1>1. ASSUME NEW o \in Orders, CreateOrder(o) \/ HandleOrder(o)
        PROVE  OrderInv' /\ Kept
    BY <1>1, CreateOrderStep, UpstreamAnswersStep, FailOrderStep, RejectOrderStep, FillOrderStep
    DEF HandleOrder
  <1>2. ASSUME NEW c \in Cancels, ReadForCancel(c) \/ CancelOrder(c)
        PROVE  OrderInv' /\ Kept
    BY <1>2, ReadForCancelStep, CancelOrderStep
  <1>3. ASSUME NEW p \in Requests, Publish(p)
        PROVE  OrderInv' /\ Kept
    BY <1>3, PublishStatusStep, PublishTradeStep DEF Publish
  <1>4. CASE Crash \/ Shutdown
    BY <1>4, StopStep
  <1>5. CASE UNCHANGED vars
    <2>1. \A x \in Orders : Verdict(x)' = Verdict(x)
      BY <1>5, VerdictStable DEF vars
    <2>2. Kept /\ TopicFollowsRow'
      BY <1>5, <2>1, TopicFrame DEF vars, Kept, OrderInv
    <2> QED
      BY <1>5, <2>1, <2>2 DEF vars, OrderInv, TypeOK, SilentUntilDone,
                              AnswersFollowVerdict, RowFollowsVerdict
  <1> QED
    BY <1>1, <1>2, <1>3, <1>4, <1>5 DEF Next

(* The inductive invariant holds in every behaviour.                       *)
THEOREM Invariance == Spec => []OrderInv
  BY InitEstablishes, NextStep, PTL DEF Spec

(* Type correctness.                                                       *)
THEOREM TypeCorrect == Spec => []TypeOK
  <1>1. OrderInv => TypeOK
    BY DEF OrderInv
  <1> QED
    BY Invariance, <1>1, PTL

(* An order is rejected or traded, never both: the row has a reason only   *)
(* on a rejecting verdict, and a trade only on the verdict "fill".         *)
THEOREM OneOutcomeHolds == Spec => []OneOutcome
  <1>1. OrderInv => OneOutcome
    <2> SUFFICES ASSUME OrderInv, NEW o \in Orders, row[o].trade # NoTrade
                 PROVE  row[o].reason = "none" /\ Sent("ORDER_REJECTED", o) = {}
      BY DEF OneOutcome
    <2>1. Verdict(o) \notin Reasons
      BY DEF OrderInv, RowFollowsVerdict, Reasons
    <2>2. row[o].reason = "none"
      BY <2>1 DEF OrderInv, RowFollowsVerdict
    <2>3. Sent("ORDER_REJECTED", o) = {}
      BY <2>1 DEF OrderInv, TopicFollowsRow, Agrees, Sent
    <2> QED
      BY <2>2, <2>3
  <1> QED
    BY Invariance, <1>1, PTL

(* Whatever was announced as traded is in the orders table.                *)
THEOREM AnnouncedTradesHold == Spec => []AnnouncedTradesAreStored
  <1>1. OrderInv => AnnouncedTradesAreStored
    BY DEF OrderInv, AnnouncedTradesAreStored, AnswersFollowVerdict, RowFollowsVerdict,
           TopicFollowsRow, Agrees
  <1> QED
    BY Invariance, <1>1, PTL

(* A trade in the orders table stays there, at its price.                  *)
THEOREM TradeForever == Spec => TradeIsForever
  <1>1. OrderInv /\ [Next]_vars =>
           [\A o \in Orders : row[o].trade # NoTrade => row'[o].trade = row[o].trade]_vars
    BY NextStep DEF Kept
  <1> QED
    BY Invariance, <1>1, PTL DEF Spec, TradeIsForever

-----------------------------------------------------------------------------
(* What becomes of an order: its row is written by its own handler, which  *)
(* is over once, and by cancel requests that have met it as NEW.           *)

RowsKeepUp ==
    \A o \in Orders :
        /\ pc[o] # "write"
        /\ pc[o] = "idle" => row[o].status = "absent"
        /\ pc[o] = "done" /\ row[o].status = "NEW" =>
              \/ answer[o] \in {"INTERNAL_ERROR", "connection lost"}
              \/ answer[o] = "REJECTED" /\ faults["db"] > 0

CancelsMeetRows ==
    \A c \in Cancels : pc[c] = "write" => row[target[c]].status # "absent"

ProgressInv == RowsKeepUp /\ CancelsMeetRows

SettledStays == \A o \in Orders : Settled(o) => Settled(o)' /\ row'[o] = row[o]

(* Each UPDATE leaves a row with a status of its own.                      *)
LEMMA StatusUpdates ==
  ASSUME TypeOK, NEW o \in Orders
  PROVE  /\ Inserted(o).status = "NEW" /\ Rejected(o).status = "REJECTED"
         /\ Filled(o).status = "FILLED" /\ Cancelled(o).status = "CANCELLED"
  BY DEF TypeOK, Rows, Inserted, Rejected, Filled, Cancelled

(* Faults are never forgotten, and a failed statement is one.              *)
LEMMA FaultsGrow ==
  ASSUME TypeOK, NEW kind \in FaultKinds, UNCHANGED faults \/ Spend(kind)
  PROVE  /\ faults["db"] > 0 => faults'["db"] > 0
         /\ Spend("db") => faults'["db"] > 0
  BY DEF TypeOK, Spend, FaultKinds

(* The step of a handler writes only the row of its own order, which is    *)
(* not settled.                                                            *)
LEMMA OwnRowStep ==
  ASSUME TypeOK, ProgressInv, NEW o \in Orders,
         pc[o] \in {"idle", "fetch"}, pc'[o] \in {"fetch", "done"},
         \A p \in Requests \ {o} : pc'[p] = pc[p] /\ answer'[p] = answer[p],
         \A x \in Orders \ {o} : row'[x] = row[x],
         UNCHANGED target, faults["db"] > 0 => faults'["db"] > 0,
         row'[o].status = "absent" => row[o].status = "absent",
         pc'[o] = "done" /\ row'[o].status = "NEW" =>
              \/ answer'[o] \in {"INTERNAL_ERROR", "connection lost"}
              \/ answer'[o] = "REJECTED" /\ faults'["db"] > 0
  PROVE  ProgressInv' /\ SettledStays
  <1>1. \A x \in Orders \ {o} : x \in Requests /\ pc'[x] = pc[x] /\ answer'[x] = answer[x]
                                                /\ row'[x] = row[x]
    BY DEF Requests
  <1>2. \A c \in Cancels : pc'[c] = pc[c] /\ target[c] \in Orders
    BY OrdersAssumption DEF TypeOK, Requests
  <1>3. RowsKeepUp'
    BY <1>1, ZenonT(40) DEF ProgressInv, RowsKeepUp
  <1>4. CancelsMeetRows'
    BY <1>2, ZenonT(40) DEF ProgressInv, CancelsMeetRows
  <1>5. ~Settled(o)
    BY DEF Settled, InFlight, ProgressInv, RowsKeepUp
  <1>6. SettledStays
    BY <1>1, <1>2, <1>5 DEF SettledStays, Settled, InFlight
  <1> QED
    BY <1>3, <1>4, <1>6 DEF ProgressInv

LEMMA HandlerProgress ==
  ASSUME OrderInv, ProgressInv, NEW o \in Orders, CreateOrder(o) \/ HandleOrder(o)
  PROVE  ProgressInv' /\ SettledStays
  <1>1. TypeOK /\ o \in Requests
    BY DEF OrderInv, Requests
  <1> USE DEF Exec, ExecErr, Respond, GoPublish, Requests
  <1>2. CASE CreateOrder(o)
    <2>1. faults["db"] > 0 => faults'["db"] > 0
      BY <1>1, <1>2, FaultsGrow DEF CreateOrder, FaultKinds
    <2>2. /\ pc[o] = "idle" /\ pc'[o] \in {"fetch", "done"} /\ UNCHANGED target
          /\ \A p \in Requests \ {o} : pc'[p] = pc[p] /\ answer'[p] = answer[p]
          /\ pc'[o] = "done" => answer'[o] = "INTERNAL_ERROR"
      BY <1>1, <1>2 DEF CreateOrder, TypeOK
    <2>3. row[o].status = "absent"
      BY <2>2 DEF ProgressInv, RowsKeepUp
    <2>4. \A x \in Orders \ {o} : row'[x] = row[x]
      BY <1>1, <1>2 DEF CreateOrder, TypeOK
    <2> QED
      BY <1>1, <2>1, <2>2, <2>3, <2>4, OwnRowStep
  <1>3. ASSUME NEW reply \in Quotes \cup {Failed}, MarketAnswers(o, reply)
        PROVE  ProgressInv' /\ SettledStays
    BY <1>1, <1>3, OwnRowStep, FaultsGrow DEF MarketAnswers, TypeOK, FaultKinds
  <1>4. ASSUME NEW reply \in Holdings \cup {Failed}, PortfolioAnswers(o, reply)
        PROVE  ProgressInv' /\ SettledStays
    BY <1>1, <1>4, OwnRowStep, FaultsGrow DEF PortfolioAnswers, TypeOK, FaultKinds
  <1>5. CASE FailOrder(o)
    BY <1>1, <1>5, OwnRowStep, FaultsGrow DEF FailOrder, Fetched, TypeOK, FaultKinds
  <1>6. CASE RejectOrder(o)
    BY <1>1, <1>6, OwnRowStep, StatusUpdates, FaultsGrow DEF RejectOrder, Fetched, TypeOK, FaultKinds
  <1>7. CASE FillOrder(o)
    <2>1. faults["db"] > 0 => faults'["db"] > 0
      BY <1>1, <1>7, FaultsGrow DEF FillOrder, FaultKinds
    <2>2. /\ pc[o] = "fetch" /\ pc'[o] = "done" /\ UNCHANGED target
          /\ \A p \in Requests \ {o} : pc'[p] = pc[p] /\ answer'[p] = answer[p]
      BY <1>1, <1>7 DEF FillOrder, Fetched, TypeOK
    <2>3. /\ \A x \in Orders \ {o} : row'[x] = row[x]
          /\ row'[o] = Filled(o) \/ (row'[o] = row[o] /\ answer'[o] = "INTERNAL_ERROR")
      BY <1>1, <1>7 DEF FillOrder, TypeOK
    <2>4. Filled(o).status = "FILLED"
      BY <1>1, StatusUpdates
    <2> QED
      BY <1>1, <2>1, <2>2, <2>3, <2>4, OwnRowStep
  <1> QED
    BY <1>2, <1>3, <1>4, <1>5, <1>6, <1>7 DEF HandleOrder

(* A cancel request writes only what it has met as NEW.                    *)
LEMMA CancelProgress ==
  ASSUME OrderInv, ProgressInv, NEW c \in Cancels, ReadForCancel(c) \/ CancelOrder(c)
  PROVE  ProgressInv' /\ SettledStays
  <1>1. /\ TypeOK /\ target[c] \in Orders /\ UNCHANGED target
        /\ \A o \in Orders : o # c /\ pc'[o] = pc[o] /\ answer'[o] = answer[o]
        /\ \A d \in Cancels : d # c => pc'[d] = pc[d]
    BY OrdersAssumption DEF OrderInv, TypeOK, ReadForCancel, CancelOrder, Respond, Requests
  <1>2. faults["db"] > 0 => faults'["db"] > 0
    BY <1>1, FaultsGrow DEF ReadForCancel, CancelOrder, Exec, ExecErr, FaultKinds
  <1>3. CASE ReadForCancel(c)
    <2>1. row' = row /\ (pc'[c] = "write" => row[target[c]].status = "NEW")
      BY <1>1, <1>3 DEF ReadForCancel, Respond, Cancellable, TypeOK, Requests
    <2>2. RowsKeepUp'
      BY <1>1, <1>2, <2>1 DEF ProgressInv, RowsKeepUp
    <2>3. CancelsMeetRows'
      BY <1>1, <2>1 DEF ProgressInv, CancelsMeetRows
    <2>4. SettledStays
      BY <1>1, <2>1 DEF SettledStays, Settled, InFlight
    <2> QED
      BY <2>2, <2>3, <2>4 DEF ProgressInv
  <1>4. CASE CancelOrder(c)
    <2>1. /\ pc[c] = "write" /\ pc'[c] = "done"
          /\ \A o \in Orders : row'[o] = row[o] \/ (o = target[c] /\ row'[o].status = "CANCELLED")
      BY <1>1, <1>4, StatusUpdates DEF CancelOrder, Respond, Exec, ExecErr, TypeOK, Requests
    <2>2. row[target[c]].status # "absent"
      BY <2>1 DEF ProgressInv, CancelsMeetRows
    <2>3. RowsKeepUp'
      BY <1>1, <1>2, <2>1, <2>2, ZenonT(40) DEF ProgressInv, RowsKeepUp
    <2>4. CancelsMeetRows'
      BY <1>1, <2>1, ZenonT(40) DEF ProgressInv, CancelsMeetRows, TypeOK
    <2>5. SettledStays
      BY <1>1, <2>1 DEF SettledStays, Settled, InFlight
    <2> QED
      BY <2>3, <2>4, <2>5 DEF ProgressInv
  <1> QED
    BY <1>3, <1>4

(* The goroutines and the end of the process write no row.                 *)
LEMMA OtherProgress ==
  ASSUME OrderInv, ProgressInv,
         (\E p \in Requests : Publish(p)) \/ Crash \/ Shutdown \/ UNCHANGED vars
  PROVE  ProgressInv' /\ SettledStays
  <1>1. /\ UNCHANGED <<row, target>> /\ Orders \subseteq Requests /\ Cancels \subseteq Requests
        /\ \A p \in Requests : \/ pc'[p] = pc[p] /\ answer'[p] = answer[p]
                               \/ InFlight(p) /\ pc'[p] = "done" /\ answer'[p] = "connection lost"
    BY DEF Publish, PublishStatus, PublishTrade, Crash, Shutdown, vars, Requests, OrderInv, TypeOK
  <1>2. faults["db"] > 0 => faults'["db"] > 0
    BY FaultsGrow DEF OrderInv, Publish, PublishStatus, PublishTrade, Produce, Crash, Shutdown, vars,
                      FaultKinds
  <1>3. RowsKeepUp'
    BY <1>1, <1>2 DEF ProgressInv, RowsKeepUp
  <1>4. CancelsMeetRows'
    BY <1>1 DEF ProgressInv, CancelsMeetRows
  <1>5. SettledStays
    BY <1>1 DEF SettledStays, Settled, InFlight
  <1> QED
    BY <1>3, <1>4, <1>5 DEF ProgressInv

LEMMA ProgressStep == OrderInv /\ ProgressInv /\ [Next]_vars => ProgressInv' /\ SettledStays
  BY HandlerProgress, CancelProgress, OtherProgress DEF Next

LEMMA ProgressHolds == Spec => []ProgressInv
  <1>1. Init => ProgressInv
    BY DEF Init, ProgressInv, RowsKeepUp, CancelsMeetRows, Requests
  <1> QED
    BY <1>1, Invariance, ProgressStep, PTL DEF Spec

(* An order that stays NEW with nobody to handle it was left by an error,  *)
(* of which its client knows unless it is the one that is ignored.         *)
THEOREM OrphansComeFromFaultsHolds == Spec => []OrphansComeFromFaults
  <1>1. OrderInv /\ ProgressInv => OrphansComeFromFaults
    BY DEF OrderInv, TypeOK, Requests, ProgressInv, RowsKeepUp, OrphansComeFromFaults, InFlight
  <1> QED
    BY Invariance, ProgressHolds, <1>1, PTL

(* A settled order never changes again.                                    *)
THEOREM SettledForeverHolds == Spec => SettledForever
  <1>1. OrderInv /\ ProgressInv /\ [Next]_vars =>
           [\A o \in Orders : Settled(o) => Settled(o)' /\ row'[o] = row[o]]_vars
    BY ProgressStep DEF SettledStays
  <1> QED
    BY Invariance, ProgressHolds, <1>1, PTL DEF Spec, SettledForever

-----------------------------------------------------------------------------
(* The order of the messages about a trade: only the goroutine of its own  *)
(* handler sends them.                                                     *)

TradesComeLast ==
    \A o \in Orders : publisher[o] \in {"none", "status"} => Sent("TRADE_EXECUTED", o) = {}

MessagesInOrder == TradesComeLast /\ FilledPrecedesTrade

(* Where a message is found that has just been sent.                       *)
LEMMA SentGrows ==
  ASSUME TypeOK, NEW e \in Events, topic' = Append(topic, e), NEW type, NEW o
  PROVE  /\ Len(topic) \in Nat
         /\ \A i \in Sent(type, o) : i \in 1..Len(topic)
         /\ \A i \in Sent(type, o)' : \/ i \in Sent(type, o)
                                      \/ i = Len(topic) + 1 /\ e.type = type /\ e.order = o
  <1>1. /\ Len(topic) \in Nat /\ DOMAIN topic = 1..Len(topic)
        /\ DOMAIN topic' = 1..(Len(topic) + 1) /\ topic'[Len(topic) + 1] = e
        /\ \A i \in 1..Len(topic) : topic'[i] = topic[i]
    BY AppendProperties, LenProperties DEF TypeOK
  <1>2. \A i \in Sent(type, o) : i \in 1..Len(topic)
    BY <1>1 DEF Sent
  <1>3. ASSUME NEW i \in Sent(type, o)'
        PROVE  \/ i \in Sent(type, o)
               \/ i = Len(topic) + 1 /\ e.type = type /\ e.order = o
    <2>1. i \in DOMAIN topic' /\ topic'[i].type = type /\ topic'[i].order = o
      BY <1>3 DEF Sent
    <2>2. CASE i = Len(topic) + 1
      BY <1>1, <2>1, <2>2
    <2>3. CASE i \in 1..Len(topic)
      BY <1>1, <2>1, <2>3 DEF Sent
    <2> QED
      BY <1>1, <2>1, <2>2, <2>3
  <1> QED
    BY <1>1, <1>2, <1>3

(* What the goroutine of p sends is about its own order.                   *)
LEMMA SendsItsOwn ==
  ASSUME OrderInv, NEW p \in Requests, answer[p] \in {"FILLED", "REJECTED", "CANCELLED"}
  PROVE  /\ StatusEvent(p).type = "ORDER_FILLED" => p \in Orders /\ StatusEvent(p).order = p
         /\ answer[p] = "FILLED" => p \in Orders /\ StatusEvent(p).order = p
  <1>1. answer[p] = "FILLED" => p \in Orders
    BY DEF OrderInv, AnswersFollowVerdict, Requests
  <1>2. StatusEvent(p).order = OrderOf(p)
    BY DEF StatusEvent
  <1>3. StatusEvent(p).type = "ORDER_FILLED" => answer[p] = "FILLED"
    BY DEF StatusEvent
  <1> QED
    BY <1>1, <1>2, <1>3 DEF OrderOf

LEMMA SendKeepsOrder ==
  ASSUME OrderInv, MessagesInOrder, NEW p \in Requests, NEW e \in Events, NEW next,
         Produce(p, e, next), next \in {"trade", "gone"},
         \/ publisher[p] = "status" /\ e.type # "TRADE_EXECUTED"
            /\ (e.type = "ORDER_FILLED" => p \in Orders /\ e.order = p)
         \/ publisher[p] = "trade" /\ e.type = "TRADE_EXECUTED" /\ p \in Orders /\ e.order = p
  PROVE  MessagesInOrder'
  <1>1. \A q \in Requests : publisher'[q] \in {"none", "status"} => publisher'[q] = publisher[q]
    BY DEF Produce, OrderInv, TypeOK
  <1>2. CASE topic' = topic
    BY <1>1, <1>2 DEF MessagesInOrder, TradesComeLast, FilledPrecedesTrade, Sent, Requests
  <1>3. CASE topic' = Append(topic, e)
    <2>1. ASSUME NEW o \in Orders, publisher'[o] \in {"none", "status"}
          PROVE  Sent("TRADE_EXECUTED", o)' = {}
      <3>1. publisher[o] \in {"none", "status"} /\ Sent("TRADE_EXECUTED", o) = {}
        BY <1>1, <2>1 DEF MessagesInOrder, TradesComeLast, Requests
      <3>2. ~(e.type = "TRADE_EXECUTED" /\ e.order = o)
        BY <3>1
      <3> QED
        BY <1>3, <3>1, <3>2, SentGrows DEF OrderInv
    <2>2. ASSUME NEW o \in Orders, NEW i \in Sent("ORDER_FILLED", o)', NEW j \in Sent("TRADE_EXECUTED", o)'
          PROVE  i < j
      <3>1. /\ Len(topic) \in Nat
            /\ \/ i \in Sent("ORDER_FILLED", o) /\ i \in 1..Len(topic)
               \/ i = Len(topic) + 1 /\ e.type = "ORDER_FILLED" /\ e.order = o
            /\ \/ j \in Sent("TRADE_EXECUTED", o) /\ j \in 1..Len(topic)
               \/ j = Len(topic) + 1 /\ e.type = "TRADE_EXECUTED" /\ e.order = o
        BY <1>3, SentGrows DEF OrderInv
      <3>2. CASE i \in Sent("ORDER_FILLED", o) /\ j \in Sent("TRADE_EXECUTED", o)
        BY <3>2 DEF MessagesInOrder, FilledPrecedesTrade
      <3>3. CASE i = Len(topic) + 1 /\ e.type = "ORDER_FILLED" /\ e.order = o
        <4>1. publisher[o] = "status" /\ Sent("TRADE_EXECUTED", o) = {}
          BY <3>3 DEF MessagesInOrder, TradesComeLast
        <4> QED
          BY <3>1, <3>3, <4>1
      <3>4. CASE i \in 1..Len(topic) /\ j = Len(topic) + 1
        BY <3>1, <3>4
      <3> QED
        BY <3>1, <3>2, <3>3, <3>4
    <2> QED
      BY <2>1, <2>2 DEF MessagesInOrder, TradesComeLast, FilledPrecedesTrade
  <1> QED
    BY <1>2, <1>3 DEF Produce

LEMMA MessagesStep == OrderInv /\ MessagesInOrder /\ [Next]_vars => MessagesInOrder'
  <1> SUFFICES ASSUME OrderInv, MessagesInOrder, [Next]_vars
               PROVE  MessagesInOrder'
    OBVIOUS
  <1>1. ASSUME NEW p \in Requests, PublishStatus(p)
        PROVE  MessagesInOrder'
    <2>1. answer[p] \in {"FILLED", "REJECTED", "CANCELLED"}
      BY <1>1 DEF PublishStatus, OrderInv, SilentUntilDone
    <2>2. AfterStatus(p) \in {"trade", "gone"}
      BY DEF AfterStatus
    <2>3. /\ StatusEvent(p) \in Events /\ StatusEvent(p).type # "TRADE_EXECUTED"
          /\ StatusEvent(p).type = "ORDER_FILLED" => p \in Orders /\ StatusEvent(p).order = p
      BY <2>1, StatusEventAgrees, SendsItsOwn
    <2> QED
      BY <1>1, <2>2, <2>3, SendKeepsOrder DEF PublishStatus
  <1>2. ASSUME NEW p \in Requests, PublishTrade(p)
        PROVE  MessagesInOrder'
    <2> DEFINE e == [StatusEvent(p) EXCEPT !.type = "TRADE_EXECUTED"]
    <2>1. answer[p] = "FILLED"
      BY <1>2 DEF PublishTrade, OrderInv, SilentUntilDone
    <2>2. StatusEvent(p) \in Events /\ p \in Orders /\ StatusEvent(p).order = p
      BY <2>1, StatusEventAgrees, SendsItsOwn
    <2>3. e \in Events /\ e.type = "TRADE_EXECUTED" /\ e.order = p
      BY <2>2 DEF Events
    <2>4. publisher[p] = "trade" /\ Produce(p, e, "gone")
      BY <1>2 DEF PublishTrade
    <2> HIDE DEF e
    <2> QED
      BY <2>2, <2>3, <2>4, SendKeepsOrder
  <1>3. CASE ~ \E p \in Requests : Publish(p)
    <2>1. /\ topic' = topic /\ Orders \subseteq Requests
          /\ \A p \in Requests : publisher'[p] \in {"none", "status"} =>
                                 publisher[p] \in {"none", "status"}
      <3>1. ASSUME NEW o \in Orders, CreateOrder(o) \/ HandleOrder(o)
            PROVE  /\ topic' = topic
                   /\ \A p \in Requests : publisher'[p] = publisher[p] \/ (p = o /\ pc[o] = "fetch")
        BY <3>1 DEF CreateOrder, HandleOrder, MarketAnswers, PortfolioAnswers, FailOrder, RejectOrder,
                    FillOrder, GoPublish, Fetched, OrderInv, TypeOK
      <3>2. ASSUME NEW c \in Cancels, ReadForCancel(c) \/ CancelOrder(c)
            PROVE  /\ topic' = topic
                   /\ \A p \in Requests : publisher'[p] = publisher[p] \/ (p = c /\ pc[c] = "write")
        BY <3>2 DEF ReadForCancel, CancelOrder, GoPublish, OrderInv, TypeOK
      <3>3. CASE Crash \/ Shutdown
        BY <3>3 DEF Crash, Shutdown, DropPublishers, Requests
      <3>4. \A p \in Requests : pc[p] \in {"fetch", "write"} => publisher[p] = "none"
        BY DEF OrderInv, SilentUntilDone
      <3> QED
        BY <1>3, <3>1, <3>2, <3>3, <3>4 DEF Next, vars, Requests
    <2> QED
      BY <2>1 DEF MessagesInOrder, TradesComeLast, FilledPrecedesTrade, Sent
  <1> QED
    BY <1>1, <1>2, <1>3 DEF Publish

(* ORDER_FILLED comes before TRADE_EXECUTED of the same order.             *)
THEOREM FilledPrecedesTradeHolds == Spec => []FilledPrecedesTrade
  <1>1. Init => MessagesInOrder
    BY DEF Init, MessagesInOrder, TradesComeLast, FilledPrecedesTrade, Sent
  <1>2. MessagesInOrder => FilledPrecedesTrade
    BY DEF MessagesInOrder
  <1> QED
    BY <1>1, <1>2, Invariance, MessagesStep, PTL DEF Spec

-----------------------------------------------------------------------------
(* What the services that read the topic rely on.                          *)

(* Only FillOrder trades.                                                  *)
LEMMA OnlyFillsTrade ==
  ASSUME TypeOK, [Next]_vars, NEW o \in Orders, row[o].trade = NoTrade, row'[o].trade # NoTrade
  PROVE  FillOrder(o)
  <1>0. row \in [Orders -> Rows]
    BY DEF TypeOK
  <1>1. ASSUME NEW x \in Orders, NEW r, row' \in {row, [row EXCEPT ![x] = r]}, r.trade = row[x].trade
        PROVE  FALSE
    BY <1>0, <1>1
  <1>2. ASSUME NEW x \in Orders, CreateOrder(x) PROVE FALSE
    <2>1. Inserted(x).trade = NoTrade
      BY DEF Inserted
    <2> QED
      BY <1>0, <1>2, <2>1 DEF CreateOrder, Exec, ExecErr
  <1>3. ASSUME NEW x \in Orders, RejectOrder(x) PROVE FALSE
    <2>1. Rejected(x).trade = row[x].trade
      BY <1>3, RowUpdates DEF RejectOrder
    <2> QED
      BY <1>1, <1>3, <2>1 DEF RejectOrder, Exec, ExecErr
  <1>4. ASSUME NEW c \in Cancels, CancelOrder(c) PROVE FALSE
    <2>1. target[c] \in Orders /\ Cancelled(target[c]).trade = row[target[c]].trade
      BY RowUpdates DEF TypeOK
    <2> QED
      BY <1>1, <1>4, <2>1 DEF CancelOrder, Exec, ExecErr
  <1>5. ASSUME NEW x \in Orders, FillOrder(x) PROVE x = o
    BY <1>0, <1>5 DEF FillOrder, Exec, ExecErr
  <1>6. ~ UNCHANGED row
    OBVIOUS
  <1> QED
    BY <1>2, <1>3, <1>4, <1>5, <1>6
    DEF Next, HandleOrder, MarketAnswers, PortfolioAnswers, FailOrder, ReadForCancel, Publish,
        PublishStatus, PublishTrade, Crash, Shutdown, vars

(* An order is filled on two answers, the second of which covers it.       *)
LEMMA FillIsCovered ==
  ASSUME TypeOK, NEW o \in Orders, FillOrder(o)
  PROVE  portfolio[o] \notin {Pending, Failed} /\ Covered(o)
  <1>1. Verdict(o) = "fill" /\ portfolio[o] # Pending /\ market[o] # Pending
    BY DEF FillOrder, Fetched
  <1>2. market[o] \in Quotes /\ market[o] # Failed
    BY <1>1, VerdictOfFetched, AnswersAssumption
  <1>3. market[o].volume < Qty[o] \/ (~(market[o].volume < Qty[o]) /\ market[o].volume >= Qty[o])
    BY <1>2, OrdersAssumption, AnswersAssumption
  <1>4. CASE market[o].volume < Qty[o]
    BY <1>1, <1>2, <1>4, Zenon DEF Verdict
  <1>5. CASE ~(market[o].volume < Qty[o]) /\ market[o].volume >= Qty[o]
    <2>1. CASE portfolio[o] # Failed /\ Covered(o)
      BY <1>1, <2>1
    <2>2. CASE portfolio[o] = Failed
      BY <1>1, <1>2, <1>5, <2>2, Zenon DEF Verdict
    <2>3. CASE portfolio[o] # Failed /\ ~Covered(o)
      BY <1>1, <1>2, <1>5, <2>3, Zenon DEF Verdict
    <2> QED
      BY <2>1, <2>2, <2>3
  <1> QED
    BY <1>3, <1>4, <1>5

(* A filled order is traded at the price it was quoted.                    *)
LEMMA FillTakesQuote ==
  ASSUME TypeOK, NEW o \in Orders, FillOrder(o), row'[o].trade # row[o].trade
  PROVE  row'[o].trade = market[o].price
  <1>1. row \in [Orders -> Rows]
    BY DEF TypeOK
  <1>2. row' = row \/ row' = [row EXCEPT ![o] = Filled(o)]
    BY DEF FillOrder, Exec, ExecErr
  <1>3. row' = [row EXCEPT ![o] = Filled(o)] /\ row'[o] = Filled(o)
    BY <1>1, <1>2
  <1>4. Filled(o).trade = market[o].price
    BY <1>1 DEF Filled, Rows
  <1> QED
    BY <1>3, <1>4

(* A handler starts from the beginning, and its answer from                *)
(* portfolio-service comes while it waits.                                 *)
LEMMA HandlersGoOn ==
  ASSUME TypeOK, [Next]_vars, NEW o \in Orders
  PROVE  /\ pc'[o] = "idle" => pc[o] = "idle"
         /\ pc'[o] = "fetch" => pc[o] \in {"idle", "fetch"}
         /\ portfolio'[o] # portfolio[o] => pc[o] = "fetch" /\ pc'[o] = "fetch"
  <1>0. /\ pc \in [Requests -> {"idle", "fetch", "write", "done"}] /\ o \in Requests
        /\ portfolio = [x \in Orders |-> portfolio[x]]
    BY DEF TypeOK, Requests
  <1>1. ASSUME NEW p \in Requests, NEW a, Respond(p, a), UNCHANGED portfolio
        PROVE  pc'[o] \in {pc[o], "done"} /\ UNCHANGED portfolio
    BY <1>0, <1>1 DEF Respond
  <1>2. ASSUME NEW x \in Orders, CreateOrder(x)
        PROVE  /\ pc'[o] \in {pc[o], "done"} \/ (pc[o] = "idle" /\ pc'[o] = "fetch")
               /\ UNCHANGED portfolio
    <2>1. CASE pc' = [pc EXCEPT ![x] = "fetch"]
      BY <1>0, <1>2, <2>1 DEF CreateOrder
    <2>2. CASE Respond(x, "INTERNAL_ERROR")
      BY <1>0, <1>1, <1>2, <2>2 DEF CreateOrder, Requests
    <2> QED
      BY <1>2, <2>1, <2>2 DEF CreateOrder
  <1>3. ASSUME NEW x \in Orders, NEW reply, PortfolioAnswers(x, reply)
        PROVE  pc' = pc /\ (portfolio'[o] # portfolio[o] => pc[o] = "fetch")
    BY <1>0, <1>3 DEF PortfolioAnswers
  <1>4. ASSUME NEW x \in Orders, FailOrder(x) \/ RejectOrder(x) \/ FillOrder(x)
        PROVE  pc'[o] \in {pc[o], "done"} /\ UNCHANGED portfolio
    BY <1>1, <1>4 DEF FailOrder, RejectOrder, FillOrder, Requests
  <1>5. ASSUME NEW c \in Cancels, ReadForCancel(c) \/ CancelOrder(c)
        PROVE  pc'[o] = pc[o] /\ UNCHANGED portfolio
    <2>1. c # o
      BY OrdersAssumption
    <2>2. UNCHANGED portfolio /\ \E step : pc' = [pc EXCEPT ![c] = step]
      BY <1>5 DEF ReadForCancel, CancelOrder, Respond
    <2> QED
      BY <1>0, <2>1, <2>2
  <1>6. ASSUME Crash PROVE pc'[o] \in {pc[o], "done"} /\ UNCHANGED portfolio
    BY <1>0, <1>6 DEF Crash
  <1>7. CASE UNCHANGED <<pc, portfolio>>
    BY <1>7
  <1> QED
    BY <1>2, <1>3, <1>4, <1>5, <1>6, <1>7
    DEF Next, HandleOrder, MarketAnswers, Publish, PublishStatus, PublishTrade, Shutdown, vars

(* A step adds at most one message to the topic.                           *)
LEMMA TopicAppends ==
  ASSUME OrderInv, [Next]_vars
  PROVE  UNCHANGED topic \/ \E e \in Events : topic' = Append(topic, e)
  <1>1. ASSUME NEW p \in Requests, publisher[p] \in {"status", "trade"}
        PROVE  /\ StatusEvent(p) \in Events
               /\ [StatusEvent(p) EXCEPT !.type = "TRADE_EXECUTED"] \in Events
    <2>1. answer[p] \in {"FILLED", "REJECTED", "CANCELLED"}
      BY <1>1 DEF OrderInv, SilentUntilDone
    <2>2. StatusEvent(p) \in Events
      BY <2>1, StatusEventAgrees
    <2> QED
      BY <2>2 DEF Events
  <1>2. ASSUME NEW p \in Requests, Publish(p)
        PROVE  UNCHANGED topic \/ \E e \in Events : topic' = Append(topic, e)
    BY <1>1, <1>2 DEF Publish, PublishStatus, PublishTrade, Produce
  <1>3. UNCHANGED topic \/ \E p \in Requests : Publish(p)
    BY DEF Next, CreateOrder, HandleOrder, MarketAnswers, PortfolioAnswers, FailOrder, RejectOrder,
           FillOrder, ReadForCancel, CancelOrder, Crash, Shutdown, vars
  <1> QED
    BY <1>2, <1>3

(* What has been sent stays where it is.                                   *)
LEMMA TopicGrows ==
  ASSUME OrderInv, [Next]_vars, NEW i \in DOMAIN topic
  PROVE  i \in DOMAIN topic' /\ topic'[i] = topic[i]
  <1>0. topic \in Seq(Events)
    BY DEF OrderInv, TypeOK
  <1>1. CASE UNCHANGED topic
    BY <1>1
  <1>2. ASSUME NEW e \in Events, topic' = Append(topic, e)
        PROVE  i \in DOMAIN topic' /\ topic'[i] = topic[i]
    <2>1. DOMAIN topic = 1..Len(topic) /\ Len(topic) \in Nat
      BY <1>0, LenProperties
    <2>2. DOMAIN topic' = 1..(Len(topic) + 1) /\ \A j \in 1..Len(topic) : topic'[j] = topic[j]
      BY <1>0, <1>2, <2>1, AppendProperties, LenProperties
    <2> QED
      BY <2>1, <2>2
  <1> QED
    BY <1>1, <1>2, TopicAppends

-----------------------------------------------------------------------------
(* trading-service implements TradeBook                                    *)

BookStep == [Book!Next]_(Book!book)

TradeOf == [o \in Orders |-> row[o].trade]
ReasonOf == [o \in Orders |-> IF answer[o] = "REJECTED" THEN Verdict(o) ELSE "none"]

(* A rejection is told before any statement can say so, and for good.      *)
LEMMA ReasonsStay ==
  ASSUME OrderInv, Kept, NEW o \in Orders, answer'[o] = answer[o]
  PROVE  ReasonOf'[o] = ReasonOf[o]
  BY DEF OrderInv, AnswersFollowVerdict, Kept, ReasonOf

(* Steps that decide nothing and say nothing.                              *)
LEMMA BookStutters ==
  ASSUME OrderInv, Kept, UNCHANGED topic,
         \A o \in Orders : row'[o].trade = row[o].trade,
         \A o \in Orders : answer'[o] = answer[o] \/ "REJECTED" \notin {answer'[o], answer[o]}
  PROVE  BookStep
  <1>1. TradeOf' = TradeOf
    BY DEF TradeOf
  <1>2. \A o \in Orders : ReasonOf'[o] = ReasonOf[o]
    BY ReasonsStay DEF ReasonOf
  <1>3. ReasonOf' = ReasonOf
    BY <1>2 DEF ReasonOf
  <1> QED
    BY <1>1, <1>3 DEF BookStep, Book!book, TradeOf, ReasonOf

LEMMA FillDecides ==
  ASSUME OrderInv, Kept, NEW o \in Orders, FillOrder(o)
  PROVE  BookStep
  <1>1. TypeOK /\ o \in Requests /\ pc[o] = "fetch" /\ answer[o] = "none" /\ row[o].trade = NoTrade
    BY DEF OrderInv, SilentUntilDone, RowFollowsVerdict, FillOrder, Fetched, Requests
  <1>2. /\ answer'[o] \in {"FILLED", "INTERNAL_ERROR"} /\ UNCHANGED topic
        /\ \A x \in Orders \ {o} : answer'[x] = answer[x]
        /\ row' \in {row, [row EXCEPT ![o] = Filled(o)]}
    BY <1>1 DEF FillOrder, Exec, ExecErr, Respond, TypeOK, Requests
  <1>3. CASE row' = row
    BY <1>1, <1>2, <1>3, BookStutters
  <1>4. CASE row' = [row EXCEPT ![o] = Filled(o)]
    <2>1. market[o].price \in Prices /\ Filled(o).trade = market[o].price
      BY <1>1, VerdictOfFetched, RowUpdates DEF FillOrder, Fetched
    <2>2. TradeOf' = [TradeOf EXCEPT ![o] = market[o].price]
      BY <1>1, <1>4, <2>1 DEF TradeOf, TypeOK
    <2>3. \A x \in Orders : ReasonOf'[x] = ReasonOf[x]
      BY <1>1, <1>2, ReasonsStay DEF ReasonOf
    <2>4. ReasonOf' = ReasonOf
      BY <2>3 DEF ReasonOf
    <2>5. TradeOf[o] = NoTrade /\ ReasonOf[o] = "none"
      BY <1>1 DEF TradeOf, ReasonOf
    <2>6. Book!Trade(o)
      BY <1>2, <2>1, <2>2, <2>4, <2>5 DEF Book!Trade, Book!Undecided, TradeOf, ReasonOf
    <2> QED
      BY <2>6 DEF BookStep, Book!Next, Book!Decide
  <1> QED
    BY <1>2, <1>3, <1>4

LEMMA RejectDecides ==
  ASSUME OrderInv, Kept, NEW o \in Orders, RejectOrder(o)
  PROVE  BookStep
  <1>1. TypeOK /\ o \in Requests /\ pc[o] = "fetch" /\ answer[o] = "none" /\ row[o].trade = NoTrade
    BY DEF OrderInv, SilentUntilDone, RowFollowsVerdict, RejectOrder, Fetched, Requests
  <1>2. /\ answer'[o] = "REJECTED" /\ UNCHANGED topic /\ Verdict(o) \in Reasons
        /\ \A x \in Orders \ {o} : answer'[x] = answer[x]
        /\ row' \in {row, [row EXCEPT ![o] = Rejected(o)]}
    BY <1>1 DEF RejectOrder, Exec, ExecErr, Respond, TypeOK, Requests
  <1>3. Verdict(o)' = Verdict(o)
    BY VerdictStable DEF RejectOrder
  <1>4. TradeOf' = TradeOf
    <2>1. \A x \in Orders : row'[x].trade = row[x].trade
      BY <1>1, <1>2, RowUpdates DEF TypeOK
    <2> QED
      BY <2>1 DEF TradeOf
  <1>5. \A x \in Orders \ {o} : ReasonOf'[x] = ReasonOf[x]
    BY <1>2, ReasonsStay
  <1>6. ReasonOf' = [ReasonOf EXCEPT ![o] = Verdict(o)]
    <2>1. ReasonOf'[o] = Verdict(o)
      BY <1>2, <1>3 DEF ReasonOf
    <2> QED
      BY <1>5, <2>1 DEF ReasonOf
  <1>7. TradeOf[o] = NoTrade /\ ReasonOf[o] = "none"
    BY <1>1 DEF TradeOf, ReasonOf
  <1>8. Book!Reject(o)
    BY <1>2, <1>4, <1>6, <1>7 DEF Book!Reject, Book!Undecided, TradeOf, ReasonOf
  <1> QED
    BY <1>8 DEF BookStep, Book!Next, Book!Decide

(* What the goroutine of p sends first is a decision of its handler.       *)
LEMMA StatusAnnounces ==
  ASSUME OrderInv, Kept, MessagesInOrder, NEW p \in Requests, PublishStatus(p)
  PROVE  BookStep
  <1>1. /\ answer[p] \in {"FILLED", "REJECTED", "CANCELLED"} /\ publisher[p] = "status"
        /\ UNCHANGED <<row, answer>> /\ OrderOf(p) \in Orders
    BY DEF PublishStatus, OrderInv, SilentUntilDone, OrderOf, TypeOK, Requests
  <1>2. CASE UNCHANGED topic
    BY <1>1, <1>2, BookStutters
  <1>3. CASE topic' = Append(topic, StatusEvent(p))
    <2>1. TradeOf' = TradeOf
      BY <1>1 DEF TradeOf
    <2>2. ReasonOf' = ReasonOf
      <3>1. \A x \in Orders : ReasonOf'[x] = ReasonOf[x]
        BY <1>1, ReasonsStay
      <3> QED
        BY <3>1 DEF ReasonOf
    <2>3. ASSUME answer[p] \in {"FILLED", "REJECTED"} PROVE p \in Orders /\ OrderOf(p) = p
      BY <2>3 DEF OrderInv, AnswersFollowVerdict, Requests, OrderOf
    <2>4. CASE answer[p] = "FILLED"
      <3>1. p \in Orders /\ row[p].trade # NoTrade /\ row[p].trade = market[p].price
        BY <2>3, <2>4 DEF OrderInv, AnswersFollowVerdict, RowFollowsVerdict
      <3>2. StatusEvent(p) = [type |-> "ORDER_FILLED", order |-> p, reason |-> ReasonOf[p], trade |-> TradeOf[p]]
        BY <2>3, <2>4, <3>1 DEF StatusEvent, ReasonOf, TradeOf
      <3>3. ~Book!Reported(p)
        BY <1>1, <3>1 DEF MessagesInOrder, TradesComeLast, Sent, Book!Reported
      <3>4. TradeOf[p] # NoTrade
        BY <3>1 DEF TradeOf
      <3>5. Book!AnnounceFill(p)
        BY <1>3, <2>1, <2>2, <3>2, <3>3, <3>4 DEF Book!AnnounceFill, Book!Say, TradeOf, ReasonOf
      <3> QED
        BY <3>1, <3>5 DEF BookStep, Book!Next, Book!Announce
    <2>5. CASE answer[p] = "REJECTED"
      <3>1. p \in Orders /\ Verdict(p) \in Reasons
        BY <2>3, <2>5 DEF OrderInv, AnswersFollowVerdict
      <3>2. row[p].trade = NoTrade
        BY <3>1 DEF OrderInv, RowFollowsVerdict, Reasons
      <3>3. ReasonOf[p] = Verdict(p) /\ TradeOf[p] = NoTrade /\ Verdict(p) # "none"
        BY <2>5, <3>1, <3>2 DEF ReasonOf, TradeOf, Reasons
      <3>4. StatusEvent(p) = [type |-> "ORDER_REJECTED", order |-> p, reason |-> ReasonOf[p], trade |-> TradeOf[p]]
        BY <2>3, <2>5, <3>3 DEF StatusEvent
      <3>5. Book!AnnounceRejection(p)
        BY <1>3, <2>1, <2>2, <3>3, <3>4 DEF Book!AnnounceRejection, Book!Say, TradeOf, ReasonOf
      <3> QED
        BY <3>1, <3>5 DEF BookStep, Book!Next, Book!Announce
    <2>6. CASE answer[p] = "CANCELLED"
      <3>1. StatusEvent(p) = [type |-> "ORDER_CANCELLED", order |-> OrderOf(p), reason |-> "none", trade |-> NoTrade]
        BY <2>6 DEF StatusEvent
      <3>2. Book!AnnounceCancellation(OrderOf(p))
        BY <1>3, <2>1, <2>2, <3>1 DEF Book!AnnounceCancellation, TradeOf, ReasonOf
      <3> QED
        BY <1>1, <3>2 DEF BookStep, Book!Next, Book!Announce
    <2> QED
      BY <1>1, <2>4, <2>5, <2>6
  <1> QED
    BY <1>2, <1>3 DEF PublishStatus, Produce

LEMMA TradeAnnounces ==
  ASSUME OrderInv, Kept, NEW p \in Requests, PublishTrade(p)
  PROVE  BookStep
  <1>1. answer[p] = "FILLED" /\ UNCHANGED <<row, answer>>
    BY DEF PublishTrade, OrderInv, SilentUntilDone
  <1>2. p \in Orders /\ OrderOf(p) = p /\ row[p].trade # NoTrade /\ row[p].trade = market[p].price
    BY <1>1 DEF OrderInv, AnswersFollowVerdict, RowFollowsVerdict, Requests, OrderOf
  <1>3. CASE UNCHANGED topic
    BY <1>1, <1>3, BookStutters
  <1>4. CASE topic' = Append(topic, [StatusEvent(p) EXCEPT !.type = "TRADE_EXECUTED"])
    <2>1. TradeOf' = TradeOf
      BY <1>1 DEF TradeOf
    <2>2. ReasonOf' = ReasonOf
      <3>1. \A x \in Orders : ReasonOf'[x] = ReasonOf[x]
        BY <1>1, ReasonsStay
      <3> QED
        BY <3>1 DEF ReasonOf
    <2>3. [StatusEvent(p) EXCEPT !.type = "TRADE_EXECUTED"] =
              [type |-> "TRADE_EXECUTED", order |-> p, reason |-> ReasonOf[p], trade |-> TradeOf[p]]
      BY <1>1, <1>2 DEF StatusEvent, ReasonOf, TradeOf
    <2>4. TradeOf[p] # NoTrade
      BY <1>2 DEF TradeOf
    <2>5. Book!AnnounceTrade(p)
      BY <1>4, <2>1, <2>2, <2>3, <2>4 DEF Book!AnnounceTrade, Book!Say, TradeOf, ReasonOf
    <2> QED
      BY <1>2, <2>5 DEF BookStep, Book!Next, Book!Announce
  <1> QED
    BY <1>3, <1>4 DEF PublishTrade, Produce

LEMMA NextIsBookStep == OrderInv /\ MessagesInOrder /\ [Next]_vars => BookStep
  <1> SUFFICES ASSUME OrderInv, MessagesInOrder, [Next]_vars
               PROVE  BookStep
    OBVIOUS
  <1>0. Kept /\ TypeOK /\ Orders \subseteq Requests
    BY NextStep DEF OrderInv, Requests
  <1>1. ASSUME NEW o \in Orders, CreateOrder(o)
        PROVE  BookStep
    <2>1. row[o].trade = NoTrade /\ answer[o] = "none"
      BY <1>0, <1>1 DEF CreateOrder, OrderInv, RowFollowsVerdict, SilentUntilDone
    <2>2. row' \in {row, [row EXCEPT ![o] = Inserted(o)]} /\ Inserted(o).trade = NoTrade /\ UNCHANGED topic
      BY <1>1 DEF CreateOrder, Exec, ExecErr, Inserted
    <2>3. answer' = answer \/ answer' = [answer EXCEPT ![o] = "INTERNAL_ERROR"]
      BY <1>1 DEF CreateOrder, Respond
    <2> QED
      BY <1>0, <2>1, <2>2, <2>3, BookStutters DEF TypeOK
  <1>2. ASSUME NEW o \in Orders, HandleOrder(o) /\ ~FillOrder(o) /\ ~RejectOrder(o)
        PROVE  BookStep
    <2>1. UNCHANGED <<row, topic>>
      BY <1>2 DEF HandleOrder, MarketAnswers, PortfolioAnswers, FailOrder
    <2>2. answer' = answer \/ (pc[o] = "fetch" /\ answer' = [answer EXCEPT ![o] = "INTERNAL_ERROR"])
      BY <1>2 DEF HandleOrder, MarketAnswers, PortfolioAnswers, FailOrder, Fetched, Respond
    <2>3. pc[o] = "fetch" => answer[o] = "none"
      BY <1>0 DEF OrderInv, SilentUntilDone
    <2> QED
      BY <1>0, <2>1, <2>2, <2>3, BookStutters DEF TypeOK
  <1>3. ASSUME NEW c \in Cancels, ReadForCancel(c) \/ CancelOrder(c)
        PROVE  BookStep
    <2>1. target[c] \in Orders /\ \A o \in Orders : o # c /\ answer'[o] = answer[o]
      BY <1>0, <1>3, OrdersAssumption DEF ReadForCancel, CancelOrder, Respond, TypeOK, Requests
    <2>2. row' \in {row, [row EXCEPT ![target[c]] = Cancelled(target[c])]} /\ UNCHANGED topic
      BY <1>3 DEF ReadForCancel, CancelOrder, Exec, ExecErr
    <2>3. \A o \in Orders : row'[o].trade = row[o].trade
      <3>1. Cancelled(target[c]).trade = row[target[c]].trade
        BY <1>0, <2>1, RowUpdates
      <3> QED
        BY <1>0, <2>1, <2>2, <3>1 DEF TypeOK
    <2> QED
      BY <1>0, <2>1, <2>2, <2>3, BookStutters
  <1>4. CASE Crash \/ Shutdown
    <2>1. UNCHANGED <<row, topic>>
      BY <1>4 DEF Crash, Shutdown
    <2>2. \A o \in Orders : InFlight(o) => answer[o] = "none"
      BY <1>0 DEF InFlight, OrderInv, SilentUntilDone
    <2>3. \A o \in Orders : answer'[o] = answer[o] \/ (InFlight(o) /\ answer'[o] = "connection lost")
      BY <1>0, <1>4 DEF Crash, Shutdown
    <2> QED
      BY <1>0, <2>1, <2>2, <2>3, BookStutters
  <1>5. CASE UNCHANGED vars
    BY <1>0, <1>5, BookStutters DEF vars
  <1>6. ASSUME NEW o \in Orders, FillOrder(o) \/ RejectOrder(o) PROVE BookStep
    BY <1>0, <1>6, FillDecides, RejectDecides
  <1>7. ASSUME NEW p \in Requests, Publish(p) PROVE BookStep
    BY <1>0, <1>7, StatusAnnounces, TradeAnnounces DEF Publish
  <1> QED
    BY <1>1, <1>2, <1>3, <1>4, <1>5, <1>6, <1>7 DEF Next, HandleOrder

(* trading-service keeps the promises of TradeBook, for any orders, cancel *)
(* requests and faults: each step decides one undecided order, says        *)
(* something that was decided, or neither.                                 *)
THEOREM TradeBookIsImplemented == Spec => ImplementsTradeBook
  <1>1. Init => Book!Init
    <2> SUFFICES ASSUME Init PROVE Book!Init
      OBVIOUS
    <2>1. \A o \in Orders : row[o].trade = NoTrade /\ answer[o] = "none"
      BY DEF Init, Requests
    <2> QED
      BY <2>1 DEF Book!Init, Init
  <1>2. Init => MessagesInOrder
    BY DEF Init, MessagesInOrder, TradesComeLast, FilledPrecedesTrade, Sent
  <1>3. OrderInv /\ MessagesInOrder /\ [Next]_vars => [Book!Next]_(Book!book)
    BY NextIsBookStep DEF BookStep
  <1> QED
    BY <1>1, <1>2, <1>3, Invariance, MessagesStep, PTL DEF Spec, ImplementsTradeBook, Book!Spec

-----------------------------------------------------------------------------
(* How the status of an order leaves the documented diagram                *)

(* A cancelled order was cancelled by a request that is over.              *)
CancelledByRequest ==
    \A o \in Orders :
        row[o].status = "CANCELLED" =>
            \E c \in Cancels : target[c] = o /\ pc[c] = "done" /\ answer[c] \in {"CANCELLED", "INTERNAL_ERROR"}

(* While its handler works, nobody but a cancel request changes an order.  *)
HandledRowsAreOpen ==
    \A o \in Orders : pc[o] = "fetch" => row[o].status \in {"NEW", "CANCELLED"}

CausesInv == CancelledByRequest /\ HandledRowsAreOpen

(* A step that changes the status of o is a statement about o.             *)
LEMMA StatusChanges ==
  ASSUME OrderInv, [Next]_vars, NEW o \in Orders, row'[o].status # row[o].status
  PROVE  \/ CreateOrder(o) /\ row'[o].status = "NEW"
         \/ RejectOrder(o) /\ row'[o].status = "REJECTED"
         \/ FillOrder(o) /\ row'[o].status = "FILLED"
         \/ \E c \in Cancels : CancelOrder(c) /\ target[c] = o /\ row'[o].status = "CANCELLED"
  <1>0. TypeOK /\ row \in [Orders -> Rows] /\ target \in [Cancels -> Orders]
    BY DEF OrderInv, TypeOK
  <1>1. ASSUME NEW x \in Orders, NEW r, row' \in {row, [row EXCEPT ![x] = r]}
        PROVE  x = o /\ row'[o] = r
    BY <1>0, <1>1
  <1>2. ASSUME NEW x \in Orders, CreateOrder(x) PROVE x = o /\ row'[o].status = "NEW"
    BY <1>0, <1>1, <1>2, StatusUpdates DEF CreateOrder, Exec, ExecErr
  <1>3. ASSUME NEW x \in Orders, RejectOrder(x) PROVE x = o /\ row'[o].status = "REJECTED"
    BY <1>0, <1>1, <1>3, StatusUpdates DEF RejectOrder, Exec, ExecErr
  <1>4. ASSUME NEW x \in Orders, FillOrder(x) PROVE x = o /\ row'[o].status = "FILLED"
    BY <1>0, <1>1, <1>4, StatusUpdates DEF FillOrder, Exec, ExecErr
  <1>5. ASSUME NEW c \in Cancels, CancelOrder(c) PROVE target[c] = o /\ row'[o].status = "CANCELLED"
    BY <1>0, <1>1, <1>5, StatusUpdates DEF CancelOrder, Exec, ExecErr
  <1>6. ~ UNCHANGED row
    OBVIOUS
  <1> QED
    BY <1>2, <1>3, <1>4, <1>5, <1>6
    DEF Next, HandleOrder, MarketAnswers, PortfolioAnswers, FailOrder, ReadForCancel, Publish,
        PublishStatus, PublishTrade, Crash, Shutdown, vars

(* A request that is over stays so, with its answer.                       *)
LEMMA AnswersStay ==
  ASSUME OrderInv, [Next]_vars, NEW c \in Cancels, pc[c] = "done"
  PROVE  pc'[c] = "done" /\ answer'[c] = answer[c] /\ target'[c] = target[c]
  <1>0. TypeOK
    BY DEF OrderInv
  <1>1. ASSUME NEW o \in Orders, CreateOrder(o) \/ HandleOrder(o)
        PROVE  pc'[c] = "done" /\ answer'[c] = answer[c] /\ target'[c] = target[c]
    <2>1. o # c /\ o \in Requests /\ c \in Requests
      BY OrdersAssumption DEF Requests
    <2> QED
      BY <1>0, <1>1, <2>1
      DEF TypeOK, CreateOrder, HandleOrder, MarketAnswers, PortfolioAnswers, FailOrder, RejectOrder,
          FillOrder, Fetched, Respond
  <1>2. ASSUME NEW d \in Cancels, ReadForCancel(d) \/ CancelOrder(d)
        PROVE  pc'[c] = "done" /\ answer'[c] = answer[c] /\ target'[c] = target[c]
    <2>1. d # c /\ d \in Requests /\ c \in Requests
      BY <1>2 DEF Requests, ReadForCancel, CancelOrder
    <2> QED
      BY <1>0, <1>2, <2>1 DEF TypeOK, ReadForCancel, CancelOrder, Respond
  <1>3. ASSUME \/ \E p \in Requests : Publish(p)
               \/ Crash \/ Shutdown \/ UNCHANGED vars
        PROVE  pc'[c] = "done" /\ answer'[c] = answer[c] /\ target'[c] = target[c]
    BY <1>0, <1>3 DEF TypeOK, Requests, Publish, PublishStatus, PublishTrade, Crash, Shutdown, InFlight, vars
  <1> QED
    BY <1>1, <1>2, <1>3 DEF Next

LEMMA CausesStep == OrderInv /\ ProgressInv /\ CausesInv /\ [Next]_vars => CausesInv'
  <1> SUFFICES ASSUME OrderInv, ProgressInv, CausesInv, [Next]_vars
               PROVE  CausesInv'
    OBVIOUS
  <1>0. TypeOK
    BY DEF OrderInv
  <1>1. ASSUME NEW o \in Orders, row'[o].status = "CANCELLED"
        PROVE  \E c \in Cancels : target'[c] = o /\ pc'[c] = "done" /\ answer'[c] \in {"CANCELLED", "INTERNAL_ERROR"}
    <2>1. CASE row[o].status = "CANCELLED"
      BY <2>1, AnswersStay DEF CausesInv, CancelledByRequest
    <2>2. CASE row[o].status # "CANCELLED"
      <3>1. PICK c \in Cancels : CancelOrder(c) /\ target[c] = o
        BY <1>1, <2>2, StatusChanges
      <3>2. target'[c] = o /\ pc'[c] = "done" /\ answer'[c] \in {"CANCELLED", "INTERNAL_ERROR"}
        BY <1>0, <3>1 DEF CancelOrder, Respond, TypeOK, Requests
      <3> QED
        BY <3>2
    <2> QED
      BY <2>1, <2>2
  <1>2. ASSUME NEW o \in Orders, pc'[o] = "fetch"
        PROVE  row'[o].status \in {"NEW", "CANCELLED"}
    <2>1. pc[o] = "fetch" \/ CreateOrder(o)
      <3>1. ASSUME NEW p \in Orders, p # o, CreateOrder(p) \/ HandleOrder(p) PROVE pc'[o] = pc[o]
        BY <1>0, <3>1
        DEF TypeOK, Requests, CreateOrder, HandleOrder, MarketAnswers, PortfolioAnswers, FailOrder,
            RejectOrder, FillOrder, Fetched, Respond
      <3>2. ASSUME HandleOrder(o) PROVE pc[o] = "fetch"
        BY <3>2 DEF HandleOrder, MarketAnswers, PortfolioAnswers, FailOrder, RejectOrder, FillOrder, Fetched
      <3>3. ASSUME NEW c \in Cancels, ReadForCancel(c) \/ CancelOrder(c) PROVE pc'[o] = pc[o]
        <4>1. c # o /\ o \in Requests
          BY OrdersAssumption DEF Requests
        <4> QED
          BY <1>0, <3>3, <4>1 DEF TypeOK, ReadForCancel, CancelOrder, Respond
      <3>4. ASSUME \/ \E p \in Requests : Publish(p)
                   \/ Crash \/ Shutdown \/ UNCHANGED vars
            PROVE  pc[o] = "fetch"
        BY <1>0, <1>2, <3>4
        DEF TypeOK, Requests, Publish, PublishStatus, PublishTrade, Crash, Shutdown, InFlight, vars
      <3> QED
        BY <1>2, <3>1, <3>2, <3>3, <3>4 DEF Next
    <2>2. CASE CreateOrder(o)
      <3>1. row' = [row EXCEPT ![o] = Inserted(o)]
        BY <1>0, <1>2, <2>2 DEF CreateOrder, Respond, Exec, TypeOK, Requests
      <3> QED
        BY <1>0, <3>1, StatusUpdates DEF TypeOK
    <2>3. CASE pc[o] = "fetch" /\ row'[o].status # row[o].status
      <3>1. ~CreateOrder(o) /\ ~RejectOrder(o) /\ ~FillOrder(o)
        BY <1>0, <1>2, <2>3 DEF CreateOrder, RejectOrder, FillOrder, Respond, TypeOK, Requests
      <3> QED
        BY <2>3, <3>1, StatusChanges
    <2>4. CASE pc[o] = "fetch" /\ row'[o].status = row[o].status
      BY <2>4 DEF CausesInv, HandledRowsAreOpen
    <2> QED
      BY <2>1, <2>2, <2>3, <2>4
  <1> QED
    BY <1>1, <1>2 DEF CausesInv, CancelledByRequest, HandledRowsAreOpen

(* A change that is not an arrow of the documented diagram is one of four, *)
(* and a cancel request overlapped the decision: either the request, which *)
(* had read NEW, overwrites the outcome, or the outcome overwrites what the*)
(* request wrote while the handler was working.  FILLED never becomes      *)
(* REJECTED or NEW, nor the other way round (CreateOrder, CancelOrder).    *)
OffDiagramByRace ==
    [][\A o \in Orders :
          row[o].status \notin {"absent", row'[o].status}
          /\ <<row[o].status, row'[o].status>> \notin DocumentedChanges =>
              \/ /\ row[o].status \in {"FILLED", "REJECTED"} /\ row'[o].status = "CANCELLED"
                 /\ \E c \in Cancels : target[c] = o /\ pc[c] = "write" /\ pc'[c] = "done"
              \/ /\ row[o].status = "CANCELLED" /\ row'[o].status \in {"FILLED", "REJECTED"}
                 /\ pc[o] = "fetch" /\ pc'[o] = "done"
                 /\ \E c \in Cancels : target[c] = o /\ answer[c] \in {"CANCELLED", "INTERNAL_ERROR"}]_vars

(* The ways StatusFollowsDiagram fails are the only ones: all of them need *)
(* a cancel request that met the order as NEW.                             *)
THEOREM OffDiagramOnlyByRace == Spec => OffDiagramByRace
  <1>1. Init => CausesInv
    BY DEF Init, CausesInv, CancelledByRequest, HandledRowsAreOpen, Requests
  <1>2. Spec => []CausesInv
    BY <1>1, Invariance, ProgressHolds, CausesStep, PTL DEF Spec
  <1>3. ASSUME OrderInv, ProgressInv, CausesInv, [Next]_vars, NEW o \in Orders,
               row[o].status \notin {"absent", row'[o].status},
               <<row[o].status, row'[o].status>> \notin DocumentedChanges
        PROVE  \/ /\ row[o].status \in {"FILLED", "REJECTED"} /\ row'[o].status = "CANCELLED"
                  /\ \E c \in Cancels : target[c] = o /\ pc[c] = "write" /\ pc'[c] = "done"
               \/ /\ row[o].status = "CANCELLED" /\ row'[o].status \in {"FILLED", "REJECTED"}
                  /\ pc[o] = "fetch" /\ pc'[o] = "done"
                  /\ \E c \in Cancels : target[c] = o /\ answer[c] \in {"CANCELLED", "INTERNAL_ERROR"}
    <2>1. TypeOK /\ row[o].status \in {"absent", "NEW", "FILLED", "REJECTED", "CANCELLED"}
      BY <1>3 DEF OrderInv, TypeOK, Rows
    <2>2. ~CreateOrder(o)
      BY <1>3 DEF CreateOrder, ProgressInv, RowsKeepUp
    <2>3. CASE RejectOrder(o) \/ FillOrder(o)
      <3>1. pc[o] = "fetch" /\ pc'[o] = "done"
        BY <2>1, <2>3 DEF RejectOrder, FillOrder, Fetched, Respond, TypeOK, Requests
      <3>2. row[o].status \in {"NEW", "CANCELLED"}
        BY <1>3, <3>1 DEF CausesInv, HandledRowsAreOpen
      <3>3. row'[o].status \in {"FILLED", "REJECTED"}
        <4>1. ~ \E c \in Cancels : CancelOrder(c)
          BY <2>1, <3>1, OrdersAssumption DEF CancelOrder, Respond, TypeOK, Requests
        <4> QED
          BY <1>3, <2>2, <4>1, StatusChanges
      <3>4. row[o].status = "CANCELLED"
        BY <1>3, <3>2, <3>3 DEF DocumentedChanges
      <3> QED
        BY <1>3, <3>1, <3>3, <3>4 DEF CausesInv, CancelledByRequest
    <2>4. ASSUME NEW c \in Cancels, CancelOrder(c), target[c] = o, row'[o].status = "CANCELLED"
          PROVE  /\ row[o].status \in {"FILLED", "REJECTED"} /\ row'[o].status = "CANCELLED"
                 /\ pc[c] = "write" /\ pc'[c] = "done"
      <3>1. pc[c] = "write" /\ pc'[c] = "done"
        BY <2>1, <2>4 DEF CancelOrder, Respond, TypeOK, Requests
      <3> QED
        BY <1>3, <2>1, <2>4, <3>1 DEF DocumentedChanges
    <2> QED
      BY <1>3, <2>2, <2>3, <2>4, StatusChanges
  <1>4. OrderInv /\ ProgressInv /\ CausesInv /\ [Next]_vars =>
          [\A o \in Orders :
              row[o].status \notin {"absent", row'[o].status}
              /\ <<row[o].status, row'[o].status>> \notin DocumentedChanges =>
                  \/ /\ row[o].status \in {"FILLED", "REJECTED"} /\ row'[o].status = "CANCELLED"
                     /\ \E c \in Cancels : target[c] = o /\ pc[c] = "write" /\ pc'[c] = "done"
                  \/ /\ row[o].status = "CANCELLED" /\ row'[o].status \in {"FILLED", "REJECTED"}
                     /\ pc[o] = "fetch" /\ pc'[o] = "done"
                     /\ \E c \in Cancels : target[c] = o /\ answer[c] \in {"CANCELLED", "INTERNAL_ERROR"}]_vars
    BY <1>3
  <1> QED
    BY <1>2, <1>4, Invariance, ProgressHolds, PTL DEF Spec, OffDiagramByRace

-----------------------------------------------------------------------------
(* A trade that nobody is about to publish has been published              *)

(* Nothing happened that could silence a goroutine: neither failed calls   *)
(* upstream nor repeated messages do.                                      *)
NothingLost == \A k \in {"db", "lost", "crash", "shutdown"} : faults[k] = 0

(* A trade in the orders table whose goroutine is over is on the topic, or *)
(* a fault the model counts has kept it off: what is safe in               *)
(* TradesReachTopic (publishEvent, which goes on to TRADE_EXECUTED even if *)
(* its first message failed).                                              *)
TradesAreSent ==
    NothingLost =>
        \A o \in Orders :
            row[o].trade # NoTrade =>
                publisher[o] \in {"status", "trade"} \/ Sent("TRADE_EXECUTED", o) # {}

(* Its client was told so.                                                 *)
FillsAreTold == NothingLost => \A o \in Orders : row[o].trade # NoTrade => answer[o] = "FILLED"

SentInv == TradesAreSent /\ FillsAreTold

(* The goroutine of p sends e and goes on to next.                         *)
LEMMA ProducedIsSent ==
  ASSUME OrderInv, NEW p \in Requests, NEW e \in Events, NEW next, Produce(p, e, next), NothingLost'
  PROVE  /\ publisher' = publisher \/ publisher' = [publisher EXCEPT ![p] = next]
         /\ publisher'[p] # publisher[p] => topic' = Append(topic, e)
         /\ \A q \in Requests : q # p => publisher'[q] = publisher[q]
  <1>1. /\ faults \in [FaultKinds -> Nat] /\ {"lost", "dup"} \subseteq FaultKinds
        /\ publisher \in [Requests -> {"none", "status", "trade", "gone"}]
    BY DEF OrderInv, TypeOK, FaultKinds
  <1>2. ~Spend("lost")
    BY <1>1 DEF Spend, NothingLost
  <1> QED
    BY <1>1, <1>2 DEF Produce

LEMMA SentStep == OrderInv /\ SentInv /\ [Next]_vars => SentInv'
  <1> SUFFICES ASSUME OrderInv, SentInv, [Next]_vars, NothingLost',
                      NEW o \in Orders, row'[o].trade # NoTrade
               PROVE  /\ publisher'[o] \in {"status", "trade"} \/ Sent("TRADE_EXECUTED", o)' # {}
                      /\ answer'[o] = "FILLED"
    BY DEF SentInv, TradesAreSent, FillsAreTold
  <1>0. /\ TypeOK /\ o \in Requests /\ o \notin Cancels /\ topic \in Seq(Events)
        /\ faults \in [FaultKinds -> Nat] /\ {"db", "lost", "crash", "shutdown"} \subseteq FaultKinds
        /\ publisher \in [Requests -> {"none", "status", "trade", "gone"}]
        /\ pc \in [Requests -> {"idle", "fetch", "write", "done"}]
        /\ answer \in [Requests -> Answers]
    BY OrdersAssumption DEF OrderInv, TypeOK, FaultKinds, Requests
  <1>1. ASSUME NEW k \in {"db", "lost", "crash", "shutdown"}, Spend(k) PROVE FALSE
    BY <1>0, <1>1 DEF Spend, NothingLost
  <1>2. \/ UNCHANGED faults
        \/ \E k \in FaultKinds : Spend(k)
    BY DEF Next, CreateOrder, HandleOrder, MarketAnswers, PortfolioAnswers, FailOrder, RejectOrder, FillOrder,
           ReadForCancel, CancelOrder, Publish, PublishStatus, PublishTrade, Produce, Crash, Shutdown, Exec,
           ExecErr, FaultKinds, vars
  <1>3. NothingLost
    BY <1>0, <1>2 DEF NothingLost, Spend
  <1>4. CASE row[o].trade = NoTrade
    <2>1. FillOrder(o)
      BY <1>0, <1>4, OnlyFillsTrade
    <2>2. GoPublish(o) /\ Respond(o, "FILLED")
      BY <1>1, <2>1 DEF FillOrder, ExecErr
    <2> QED
      BY <1>0, <2>2 DEF GoPublish, Respond
  <1>5. CASE row[o].trade # NoTrade
    <2>1. /\ publisher[o] \in {"status", "trade"} \/ Sent("TRADE_EXECUTED", o) # {}
          /\ answer[o] = "FILLED"
      BY <1>3, <1>5 DEF SentInv, TradesAreSent, FillsAreTold
    <2>2. pc[o] = "done"
      BY <1>5 DEF OrderInv, RowFollowsVerdict
    <2>3. answer'[o] = answer[o]
      BY <1>0, <2>2
      DEF Next, CreateOrder, HandleOrder, MarketAnswers, PortfolioAnswers, FailOrder, RejectOrder, FillOrder,
          Fetched, ReadForCancel, CancelOrder, Publish, PublishStatus, PublishTrade, Crash, Shutdown, Respond,
          InFlight, vars
    <2>4. ASSUME Sent("TRADE_EXECUTED", o) # {}
          PROVE  Sent("TRADE_EXECUTED", o)' # {}
      <3>1. PICK i \in DOMAIN topic : topic[i].type = "TRADE_EXECUTED" /\ topic[i].order = o
        BY <2>4 DEF Sent
      <3>2. i \in DOMAIN topic' /\ topic'[i] = topic[i]
        BY TopicGrows
      <3> QED
        BY <3>1, <3>2 DEF Sent
    <2>5. CASE publisher'[o] = publisher[o]
      BY <2>1, <2>3, <2>4, <2>5
    <2>6. CASE publisher'[o] # publisher[o]
      <3>1. ASSUME NEW x \in Orders, CreateOrder(x) \/ HandleOrder(x) PROVE FALSE
        BY <1>0, <2>2, <2>6, <3>1
        DEF CreateOrder, HandleOrder, MarketAnswers, PortfolioAnswers, FailOrder, RejectOrder, FillOrder,
            Fetched, GoPublish
      <3>2. ASSUME NEW c \in Cancels, ReadForCancel(c) \/ CancelOrder(c) PROVE FALSE
        BY <1>0, <2>6, <3>2 DEF ReadForCancel, CancelOrder, GoPublish
      <3>3. ~Crash /\ ~Shutdown /\ ~UNCHANGED vars
        BY <1>1, <2>6 DEF Crash, Shutdown, vars
      <3>4. PICK p \in Requests : Publish(p)
        BY <3>1, <3>2, <3>3 DEF Next
      <3>5. publisher[p] \in {"status", "trade"}
        BY <3>4 DEF Publish, PublishStatus, PublishTrade
      <3>6. answer[p] \in {"FILLED", "REJECTED", "CANCELLED"}
        BY <3>5 DEF OrderInv, SilentUntilDone
      <3>7. StatusEvent(p) \in Events /\ [StatusEvent(p) EXCEPT !.type = "TRADE_EXECUTED"] \in Events
        <4>1. StatusEvent(p) \in Events
          BY <3>6, StatusEventAgrees
        <4> QED
          BY <4>1 DEF Events
      <3>8. CASE PublishStatus(p)
        <4>1. p = o
          BY <2>6, <3>7, <3>8, <1>0, ProducedIsSent DEF PublishStatus
        <4>2. AfterStatus(p) = "trade"
          BY <2>1, <4>1 DEF AfterStatus
        <4> QED
          BY <1>0, <2>1, <2>3, <2>6, <3>7, <3>8, <4>1, <4>2, ProducedIsSent DEF PublishStatus
      <3>9. CASE PublishTrade(p)
        <4> DEFINE e == [StatusEvent(p) EXCEPT !.type = "TRADE_EXECUTED"]
        <4>1. p = o /\ topic' = Append(topic, e)
          BY <2>6, <3>7, <3>9, <1>0, ProducedIsSent DEF PublishTrade
        <4>2. e.type = "TRADE_EXECUTED" /\ e.order = o
          BY <2>1, <3>6, <3>7, <4>1, SendsItsOwn DEF Events
        <4> HIDE DEF e
        <4>3. Len(topic) + 1 \in DOMAIN topic' /\ topic'[Len(topic) + 1] = e
          BY <1>0, <3>7, <4>1, AppendProperties, LenProperties DEF e
        <4> QED
          BY <2>1, <2>3, <4>2, <4>3 DEF Sent
      <3> QED
        BY <3>4, <3>8, <3>9 DEF Publish
    <2> QED
      BY <2>5, <2>6
  <1> QED
    BY <1>4, <1>5

(* TradesAreSent, with any number of repeated messages and upstream errors.*)
THEOREM TradesAreSentHolds == Spec => []TradesAreSent
  <1>1. Init => SentInv
    BY DEF Init, SentInv, TradesAreSent, FillsAreTold
  <1>2. SentInv => TradesAreSent
    BY DEF SentInv
  <1> QED
    BY <1>1, <1>2, Invariance, SentStep, PTL DEF Spec

=============================================================================
