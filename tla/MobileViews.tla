------------------------------ MODULE MobileViews ------------------------------
(***************************************************************************)
(* The screens of the mobile client once a user is signed in: the          *)
(* dashboard with its list of stocks, portfolio and history, the popup of  *)
(* a stock with the order form and the chart, and the forms that move      *)
(* money.  The order book and the price chart, which no screen mounts yet, *)
(* are taken each on its own, with a parent that changes the stock.        *)
(*                                                                         *)
(* Every screen loads what it shows, again and again: loads overtake each  *)
(* other, and an answer may find another tab, popup or form than the one   *)
(* that asked.  Time passes in periods of polling and all times are kept   *)
(* as ages, so that the model has no horizon.                              *)
(***************************************************************************)
EXTENDS MobileCharts, MobileMarket

CONSTANTS
    Commands,     \* orders, transfers and cancellations under way
    Duration,     \* Duration[v]: periods after which a load of v has timed out
    Drags,        \* how far a finger drags the chart
    Touches,      \* where it touches it
    MaxWindows    \* bound on the windows of candles appended to each other

Tabs == {"market", "portfolio", "history"}
Components == Tabs \cup {"orderbook", "pricechart"}

(* The history keeps trades and orders apart, the others keep one item.    *)
Slots == {"trades", "orders", "all"}

Keys(v) == CASE v = "history" -> {"trades", "orders"}
             [] v \in {"orderbook", "pricechart"} -> Stocks
             [] OTHER -> {"all"}

AllKeys == UNION {Keys(v) : v \in Components}

(* What a screen keeps: of which keys, how old, how many windows of candles*)
Items == [of : SUBSET AllKeys, age : Nat, windows : Nat]

ASSUME ViewsAssumption ==
    /\ Duration \in [Components -> Nat \ {0}]
    /\ Drags \subseteq Int /\ Touches \subseteq Int
    /\ MaxWindows \in Nat \ {0}
    /\ Stocks \cap Slots = {}
    /\ None \notin Stocks /\ None \notin Items /\ None \notin Charts

VARIABLES
    \* the component that is mounted
    view,        \* activeView of the dashboard, or the component on its own
    key,         \* what it shows: a tab of the history, a stock
    loads,       \* its requests on their way
    polled,      \* the load of this period has been started
    data, loading, error,
    \* the dashboard
    selectedStock, showStockModal, showModalChart,
    chart,       \* the state of ModalChart while it is mounted
    modal,       \* the modal of the portfolio that is opened, if any
    \* the price chart
    selectedPoint, \* the stock of the candle whose tooltip is shown
    \* requests that change something
    cmd,
    \* history variables
    doubt,       \* periods that loads from before the last change of the key may last
    overtaken,   \* what was shown of the key was replaced by an answer for another
    asked,       \* the user asked for the chart of the stock
    lingering    \* an order was accepted while the chart was open

pane == <<view, key, polled, doubt, overtaken>>
content == <<loads, data, loading, error>>
forms == <<modal, selectedPoint>>
popup == <<selectedStock, showStockModal, showModalChart, chart, asked, lingering>>
vars == <<pane, content, popup, forms, cmd>>

Slot(k) == IF k \in Slots THEN k ELSE "all"

Polls(v) == v # "pricechart"

(* Only these two call setLoading(true) with every load.                   *)
HidesWhileLoading == view \in {"history", "pricechart"}

(* The age no polled data exceed while they are shown: a load takes up to  *)
(* Duration and may have been answered at its start; the last load that is *)
(* older than Duration has ended.                                          *)
Bound(v) == 2 * Duration[v] + 1

Old == Bound(view) + 1

Load(k, by) == [of |-> k, age |-> 0, by |-> by]

Idle == [what |-> "nothing", reach |-> "gone", alert |-> FALSE]

-----------------------------------------------------------------------------
Transfers == {"deposit", "withdraw"}

TypeOK ==
    /\ view \in Components /\ key \in Keys(view)
    /\ loads \subseteq [of : Keys(view), age : 0..Duration[view], by : {"view", "command", "more"}]
    /\ polled \in BOOLEAN
    /\ data \in [Slots -> {None} \cup [of : SUBSET Keys(view), age : 0..Old,
                                       windows : 1..MaxWindows]]
    /\ loading \in BOOLEAN /\ error \in BOOLEAN
    /\ selectedStock \in Stocks \cup {None}
    /\ showStockModal \in BOOLEAN /\ showModalChart \in BOOLEAN
    /\ chart \in {None} \cup Charts
    /\ modal \in Transfers \cup {"none", "choose"}
    /\ selectedPoint \in Stocks \cup {None}
    /\ cmd \in [Commands -> [what : Transfers \cup {"nothing", "order", "cancel"},
                             reach : {"form", "screen", "gone"}, alert : BOOLEAN]]
    /\ doubt \in 0..Old /\ overtaken \in BOOLEAN
    /\ asked \in BOOLEAN /\ lingering \in BOOLEAN

Init ==
    /\ view \in {"market", "orderbook", "pricechart"}
    /\ key \in Keys(view)
    /\ loads = {Load(key, "view")} /\ polled = TRUE
    /\ data = [s \in Slots |-> None] /\ loading = TRUE /\ error = FALSE
    /\ selectedStock = None /\ showStockModal = FALSE /\ showModalChart = FALSE
    /\ chart = None /\ modal = "none" /\ selectedPoint = None
    /\ cmd = [c \in Commands |-> Idle]
    /\ doubt = 0 /\ overtaken = FALSE /\ asked = FALSE /\ lingering = FALSE

-----------------------------------------------------------------------------
(* What is on the screen                                                   *)

(* Neither the spinner nor, except in the history, an error.               *)
Shown == ~loading /\ (~error \/ view = "history")

PopupShown == showStockModal /\ selectedStock # None
ChartShown == chart # None
ModalShown == view = "portfolio" /\ Shown /\ modal # "none"

(* Otherwise the price chart is a spinner, an error or a note.             *)
CandlesShown == view = "pricechart" /\ Shown /\ data["all"] # None

(* An empty list, or nothing at all, and no word of an error.              *)
Blank == ~loading /\ ~error /\ data[Slot(key)] = None

(* What stands under the title is only what the title says.                *)
TitleFits == data[Slot(key)].of = {key}

(* What is asked for by the title is on its way.                           *)
OwnAwaited == \E l \in loads : l.of = key /\ l.by # "more"

(* An alert takes all touches until it is confirmed.                       *)
NoAlert == \A c \in Commands : ~cmd[c].alert

(* cmd once the form of these requests is no longer mounted: their answers *)
(* do not reach it, but may reach the screen below it.                     *)
FormGone(these) ==
    [c \in Commands |-> IF cmd[c].what \in these /\ cmd[c].reach = "form"
                        THEN [cmd[c] EXCEPT !.reach = "screen"] ELSE cmd[c]]

-----------------------------------------------------------------------------
(* Screens and their loads                                                 *)

(* setActiveView: the other component is mounted anew.                     *)
SetActiveView(v) ==
    /\ view \in Tabs /\ v \in Tabs \ {view}
    /\ ~PopupShown /\ ~ModalShown /\ NoAlert
    /\ view' = v
    /\ key' = IF v = "history" THEN "trades" ELSE "all"
    /\ loads' = {Load(key', "view")} /\ polled' = TRUE
    /\ data' = [s \in Slots |-> None] /\ loading' = TRUE /\ error' = FALSE
    /\ modal' = "none"
    /\ cmd' = [c \in Commands |-> IF cmd[c].what = "order" THEN cmd[c]
                                  ELSE [cmd[c] EXCEPT !.reach = "gone"]]
    /\ doubt' = 0 /\ overtaken' = FALSE
    /\ UNCHANGED <<popup, selectedPoint>>

(* What was loaded for another key counts as old.                          *)
Aside == [s \in Slots |-> IF data[s] = None THEN None ELSE [data[s] EXCEPT !.age = Old]]

(* Faulty variant of ChangeKey: the key is not a dependency of the effect. *)
ChangeKeyUnloaded(k) ==
    /\ k \in Keys(view) \ {key}
    /\ view = "history" => ~loading /\ NoAlert
    /\ key' = k /\ overtaken' = FALSE
    /\ doubt' = IF Polls(view) THEN Old ELSE 0
    /\ data' = Aside
    /\ UNCHANGED <<view, loads, polled, loading, error, popup, forms, cmd>>

(* Faulty variant of ChangeKey: the history does not hide what it shows.   *)
ChangeKeyQuietly(k) ==
    /\ k \in Keys(view) \ {key}
    /\ view = "history" => ~loading /\ NoAlert
    /\ key' = k
    /\ loads' = loads \cup {Load(k, "view")} /\ polled' = TRUE
    /\ doubt' = (IF Polls(view) /\ loads # {} THEN Old ELSE 0) /\ overtaken' = FALSE
    /\ data' = Aside
    /\ UNCHANGED <<view, loading, error, popup, forms, cmd>>

(* The other tab of the history, or another stock: the effect starts a new *)
(* load, the history and the price chart hide what they show.  Loads on    *)
(* their way are not cancelled.                                            *)
ChangeKey(k) ==
    /\ k \in Keys(view) \ {key}
    /\ view = "history" => ~loading /\ NoAlert
    /\ key' = k
    /\ loads' = loads \cup {Load(k, "view")} /\ polled' = TRUE
    /\ loading' = (loading \/ HidesWhileLoading)
    /\ doubt' = IF Polls(view) /\ (loads # {} \/ view = "orderbook") THEN Old ELSE 0
    /\ overtaken' = FALSE
    /\ data' = Aside
    /\ UNCHANGED <<view, error, popup, forms, cmd>>

(* setInterval.                                                            *)
Poll ==
    /\ Polls(view) /\ ~polled
    /\ loads' = loads \cup {Load(key, "view")} /\ polled' = TRUE
    /\ loading' = (loading \/ HidesWhileLoading)
    /\ UNCHANGED <<view, key, doubt, overtaken, data, error, popup, forms, cmd>>

(* Scrolling near the end of the price chart.  Despite its name it asks    *)
(* for the same hour again.                                                *)
LoadMore ==
    /\ CandlesShown
    /\ ~ \E l \in loads : l.by = "more"
    /\ data["all"].windows < MaxWindows
    /\ loads' = loads \cup {Load(key, "more")}
    /\ UNCHANGED <<pane, data, loading, error, popup, forms, cmd>>

(* Touching a candle, and closing its tooltip.  A change of the stock      *)
(* leaves the tooltip open.                                                *)
SelectPoint ==
    /\ CandlesShown
    /\ selectedPoint' \in (data["all"].of \cup {None}) \ {selectedPoint}
    /\ UNCHANGED <<pane, content, popup, modal, cmd>>

(* What the screen keeps of an answer that tells what was when it was so   *)
(* old.                                                                    *)
Converted(l, readAge) ==
    [of |-> {l.of}, windows |-> 1, age |-> IF Slot(l.of) = Slot(key) THEN readAge ELSE Old]

(* The candles with a further window, up to MaxWindows.                    *)
Appended(d, k) ==
    IF d = None \/ d.windows = MaxWindows THEN d
    ELSE [d EXCEPT !.of = @ \cup {k}, !.windows = @ + 1]

(* A load is answered with what the services knew when it was this old.    *)
Arrive(l, readAge) ==
    /\ l \in loads /\ readAge \in 0..l.age
    /\ loads' = loads \ {l}
    /\ IF l.by = "more"
       THEN /\ data' = [data EXCEPT !["all"] = Appended(@, l.of)]
            /\ UNCHANGED <<loading, error>>
       ELSE /\ data' = [data EXCEPT ![Slot(l.of)] = Converted(l, readAge)]
            /\ loading' = FALSE /\ error' = FALSE
    /\ overtaken' = IF l.of = key THEN overtaken /\ l.by = "more"
                    ELSE overtaken \/ (Slot(l.of) = Slot(key) /\ ~OwnAwaited)
    /\ UNCHANGED <<view, key, polled, doubt, popup, forms, cmd>>

(* Faulty variant of Fail: the spinner is only taken away by an answer.    *)
FailLoading(l) ==
    /\ l \in loads
    /\ loads' = loads \ {l}
    /\ IF l.by = "more" THEN UNCHANGED <<error, cmd>>
       ELSE error' = TRUE /\ cmd' = FormGone(Transfers)
    /\ UNCHANGED <<pane, data, loading, popup, forms>>

(* A load fails or times out.  The error takes the place of the portfolio, *)
(* its open forms included.                                                *)
Fail(l) ==
    /\ l \in loads
    /\ loads' = loads \ {l}
    /\ IF l.by = "more" THEN UNCHANGED <<loading, error, cmd>>
       ELSE loading' = FALSE /\ error' = TRUE /\ cmd' = FormGone(Transfers)
    /\ UNCHANGED <<pane, data, popup, forms>>

Finish == \E l \in loads : Fail(l) \/ \E a \in 0..l.age : Arrive(l, a)

Older(n) == IF Polls(view) /\ n < Old THEN n + 1 ELSE n

(* A period passes: the timer has fired, and no load outlives its timeout. *)
Tick ==
    /\ polled /\ \A l \in loads : l.age < Duration[view]
    /\ loads' = {[l EXCEPT !.age = @ + 1] : l \in loads}
    /\ data' = [s \in Slots |-> IF data[s] = None THEN None
                                ELSE [data[s] EXCEPT !.age = Older(@)]]
    /\ doubt' = IF Polls(view) /\ doubt > 0 THEN doubt - 1 ELSE doubt
    /\ polled' = ~Polls(view)
    /\ UNCHANGED <<view, key, overtaken, loading, error, popup, forms, cmd>>

-----------------------------------------------------------------------------
(* The popup of a stock and its chart                                      *)

(* handleStockSelect.  A chart that was open stays so.                     *)
Select(s) ==
    /\ view = "market" /\ Shown /\ ~PopupShown /\ NoAlert
    /\ selectedStock' = s /\ showStockModal' = TRUE
    /\ chart' = IF showModalChart THEN Reload(Daily) ELSE None
    /\ asked' = FALSE
    /\ UNCHANGED <<pane, content, showModalChart, lingering, forms, cmd>>

OnPopup == PopupShown /\ ~ChartShown /\ NoAlert

ClosePopup ==
    /\ OnPopup
    /\ showStockModal' = FALSE /\ showModalChart' = FALSE
    /\ cmd' = FormGone({"order"}) /\ lingering' = FALSE
    /\ UNCHANGED <<pane, content, selectedStock, chart, asked, forms>>

(* onClose of the order form.                                              *)
CloseForm ==
    /\ OnPopup
    /\ selectedStock' = None /\ showStockModal' = FALSE
    /\ cmd' = FormGone({"order"})
    /\ UNCHANGED <<pane, content, showModalChart, chart, asked, lingering, forms>>

OpenChart ==
    /\ OnPopup
    /\ showModalChart' = TRUE /\ chart' = Reload(Daily) /\ asked' = TRUE
    /\ UNCHANGED <<pane, content, selectedStock, showStockModal, lingering, forms, cmd>>

OnChart == ChartShown /\ NoAlert

CloseChart ==
    /\ OnChart
    /\ showModalChart' = FALSE /\ chart' = None /\ lingering' = FALSE /\ asked' = FALSE
    /\ UNCHANGED <<pane, content, selectedStock, showStockModal, forms, cmd>>

(* Gestures on the chart.                                                  *)
Gesture ==
    /\ OnChart
    /\ \/ \E tf \in Timeframes : chart' = SwitchTo(chart, tf)
       \/ \E dx \in Drags : chart' = Moved(chart, dx)
       \/ chart' = Released(chart)
       \/ chart' = Terminated(chart)
       \/ \E x \in Touches : chart' = Touched(chart, x)
    /\ UNCHANGED <<pane, content, selectedStock, showStockModal, showModalChart,
                   asked, lingering, forms, cmd>>

-----------------------------------------------------------------------------
(* Requests that change something                                          *)

Send(c, what, reach) ==
    /\ cmd[c] = Idle
    /\ cmd' = [cmd EXCEPT ![c] = [what |-> what, reach |-> reach, alert |-> FALSE]]

(* Opening and closing the modals of the portfolio.                        *)
SetModal(to) ==
    /\ view = "portfolio" /\ Shown /\ NoAlert
    /\ to \in CASE modal = "none" -> {"choose"}
                [] modal = "choose" -> Transfers \cup {"none"}
                [] OTHER -> {"none"}
    /\ modal' = to
    /\ cmd' = FormGone(Transfers)
    /\ UNCHANGED <<pane, content, popup, selectedPoint>>

(* handleSubmit of the forms that move money, with an amount they accept.  *)
SubmitTransfer(c, what) ==
    /\ ModalShown /\ modal = what /\ NoAlert
    /\ Send(c, what, "form")
    /\ UNCHANGED <<pane, content, popup, forms>>

(* The button is disabled while the form waits, the keyboard is not.       *)
SubmitDeposit(c) == SubmitTransfer(c, "deposit")
SubmitWithdraw(c) == SubmitTransfer(c, "withdraw")

TransferAccepted(c) ==
    /\ cmd[c].what \in Transfers /\ ~cmd[c].alert
    /\ cmd' = [cmd EXCEPT ![c].alert = TRUE]
    /\ UNCHANGED <<pane, content, popup, forms>>

(* OK: the modal of this kind is closed, whichever form it has now, and    *)
(* the portfolio is loaded again.                                          *)
Confirm(c) ==
    /\ cmd[c].alert
    /\ IF cmd[c].reach = "gone"
       THEN cmd' = [cmd EXCEPT ![c] = Idle] /\ UNCHANGED <<loads, modal>>
       ELSE /\ cmd' = [FormGone({cmd[c].what}) EXCEPT ![c] = Idle]
            /\ modal' = IF modal = cmd[c].what THEN "none" ELSE modal
            /\ loads' = loads \cup {Load(key, "command")}
    /\ UNCHANGED <<pane, data, loading, error, popup, selectedPoint>>

(* handleSubmit of the order form.                                         *)
SubmitOrder(c) ==
    /\ OnPopup
    /\ ~ \E d \in Commands : cmd[d].what = "order" /\ cmd[d].reach = "form"
    /\ Send(c, "order", "form")
    /\ UNCHANGED <<pane, content, popup, forms>>

(* handleOrderCreated: the popup that is open by now is closed, and with   *)
(* it the chart, which is still set to be shown.                           *)
OrderAccepted(c) ==
    /\ cmd[c].what = "order"
    /\ selectedStock' = None /\ chart' = None /\ asked' = FALSE
    /\ lingering' = (lingering \/ showModalChart)
    /\ cmd' = [FormGone({"order"}) EXCEPT ![c] = Idle]
    /\ UNCHANGED <<pane, content, showStockModal, showModalChart, forms>>

(* Faulty variant of Refused: onOrderCreated is called in any case.        *)
RefusedClosing(c) ==
    /\ cmd[c].what \in Transfers \cup {"order"} /\ ~cmd[c].alert
    /\ cmd' = [cmd EXCEPT ![c] = Idle]
    /\ IF cmd[c].what = "order" THEN selectedStock' = None /\ chart' = None
                                ELSE UNCHANGED <<selectedStock, chart>>
    /\ UNCHANGED <<pane, content, showStockModal, showModalChart, asked, lingering, forms>>

(* An error, or no answer in time: the form says so, if it is mounted.     *)
Refused(c) ==
    /\ cmd[c].what \in Transfers \cup {"order"} /\ ~cmd[c].alert
    /\ cmd' = [cmd EXCEPT ![c] = Idle]
    /\ UNCHANGED <<pane, content, popup, forms>>

(* handleCancelOrder, on the tab of the orders.                            *)
SubmitCancel(c) ==
    /\ view = "history" /\ key = "orders" /\ Shown /\ data["orders"] # None /\ NoAlert
    /\ \E status \in Statuses : StatusShown(status) = "pending"
    /\ Send(c, "cancel", "screen")
    /\ UNCHANGED <<pane, content, popup, forms>>

(* The history is loaded again, the tab that was open when the button was  *)
(* pressed, or the error is shown.                                         *)
CancelAnswered(c) ==
    /\ cmd[c].what = "cancel"
    /\ cmd' = [cmd EXCEPT ![c] = Idle]
    /\ \/ cmd[c].reach = "gone" /\ UNCHANGED <<loads, loading, error, doubt>>
       \/ /\ cmd[c].reach = "screen"
          /\ loads' = loads \cup {Load("orders", "command")} /\ loading' = TRUE
          /\ doubt' = IF key = "orders" THEN doubt ELSE Old
          /\ UNCHANGED error
       \/ /\ cmd[c].reach = "screen"
          /\ error' = TRUE /\ UNCHANGED <<loads, loading, doubt>>
    /\ UNCHANGED <<view, key, polled, overtaken, data, popup, forms>>

Next ==
    \/ \E v \in Tabs : SetActiveView(v)
    \/ \E k \in AllKeys : ChangeKey(k)
    \/ Poll \/ LoadMore \/ SelectPoint \/ Finish \/ Tick
    \/ \E s \in Stocks : Select(s)
    \/ ClosePopup \/ CloseForm \/ OpenChart \/ CloseChart \/ Gesture
    \/ \E to \in Transfers \cup {"none", "choose"} : SetModal(to)
    \/ \E c \in Commands :
          \/ SubmitDeposit(c) \/ SubmitWithdraw(c) \/ TransferAccepted(c) \/ Confirm(c)
          \/ SubmitOrder(c) \/ OrderAccepted(c) \/ Refused(c)
          \/ SubmitCancel(c) \/ CancelAnswered(c)

(* Timers fire, and a request is answered or times out.                    *)
Fairness == WF_vars(Poll) /\ WF_vars(Tick) /\ WF_vars(Finish)

Spec == Init /\ [][Next]_vars /\ Fairness
-----------------------------------------------------------------------------
(* Properties                                                              *)

(* What a screen shows without an error was asked for by what it is        *)
(* titled with, and is no older than the polling allows, however the loads *)
(* overtake each other.  Something of another stock stands under a title   *)
(* only until the load for the title has come, or because an answer for    *)
(* the stock before came after it.  With an interval that is over, and the *)
(* age bounded, when the loads from before the change must have ended      *)
(* (loadStocks, loadPortfolio, loadData, loadOrderBook).  The price chart  *)
(* loads once: what came late stays under the wrong title until another    *)
(* stock is chosen (loadInitialData, loadMoreData).                        *)
ShownIsRecent ==
    Shown /\ ~error /\ data[Slot(key)] # None =>
        /\ TitleFits \/ OwnAwaited \/ overtaken
        /\ Polls(view) /\ doubt = 0 => TitleFits /\ data[Slot(key)].age <= Bound(view)

(* No screen claims that there is nothing to show, or shows nothing,       *)
(* before its first load has come, unless it is a tab of the history that  *)
(* was chosen with another load on its way (the finally of loadData takes  *)
(* the spinner away, whichever tab it has loaded).                         *)
NoFalseEmpty ==
    Blank => view = "history" /\ doubt > 0

(* The chart is open only if the user asked for it since the stock was     *)
(* selected, unless an order was accepted with the chart of its stock open *)
(* (the dashboard keeps showModalChart when it forgets selectedStock).     *)
ChartWhenAsked == ChartShown => asked \/ lingering

(* The spinner always gives way to an answer or an error (every load ends  *)
(* in a finally, and the timer of request ends every load).                *)
ScreensSettle == loading ~> ~loading

=============================================================================
