# TrumpInvestitions in TLA+

TLA+ models of the trading platform in this repository, the TLC runs that check
them on small instances, and TLAPS proofs about its core. References such as
`order_service.go:132` are to the sources; `PROJECT.json` maps every definition
to the lines it models.

## 1. The system

```
 Android client (front-ktl)  ->  auth-gateway  ->  trading-service   -> Kafka `trading-events`
 mobile client (RN)              (JWT, proxy)      portfolio-service <-'   (one partition)
                                                   market-data-service -> ClickHouse <- pricing_engine
 trading-service -> market-data-service, portfolio-service (HTTP);  load-service -> trading-service
```

| component | state | operations | what is hard about it | modelled in |
|---|---|---|---|---|
| trading-service (Go): orders | the `orders` table; per request: two fetch goroutines with their channels, a publish goroutine with a `background` context | CreateOrder, CancelOrder, publishEvent | no transaction around read-check-write; upstream errors after the INSERT; ignored statement errors; goroutines that die with the process | `OrderLifecycle`, `TradeBook` |
| portfolio-service (Go): cash, positions, consumer | `portfolios`, `positions`, `orders`, `trades` tables; consumer offset | Deposit, Withdraw, GetCashBalance and other reads that create a portfolio, ProcessTradingEvent | read-modify-write without a transaction by handlers and consumer at once; the offset is committed before the message is processed; duplicates | `PortfolioService`, `Ledger` |
| the two together | HTTP answers and the topic | a purchase asks for cash, its outcome comes back as an event | the balance an order is decided on is old when the order is booked | `TradingSystem` |
| auth-gateway (Kotlin): users and sessions | `auth_users`, `auth_refresh_tokens` | register, login, refresh (one transaction, `FOR UPDATE`), logout | concurrent refreshes of one token, errors inside the transaction, lost answers | `Sessions`, `TokenFamilies` |
| front-ktl: session | DataStore with one pair of tokens | interceptor, authenticator, login, register, logout | several calls get a 401 at once; refresh against logout; two forms at once; coroutines cancelled when their screen is left | `Sessions` |
| market-data-service (Go) | caches of quotes, candles, books, one page of symbols, totals of searches | quotes, candles, order book, search, instrument | slow queries overwrite newer entries; stale answers on errors; caches shared by different questions | `MarketData` |
| pricing_engine (C module) | per-symbol prices, history cursor | open, read | concurrent readers, index and sign boundaries | planned |
| load-service (Kotlin) | AtomicRunState, virtual users | start, stop, reset | start races, counters reset under running users | planned |
| mobile (React Native): session | three items of AsyncStorage, the user of AuthContext, the route | launch, login, register, calls, logout | every storage call is an await; any 401 clears the tokens, whichever it carried; killed between two writes | `MobileSession` |
| mobile: screens | per screen what it has loaded, spinner, error; popup, chart, forms | polling, tabs, popup, chart gestures, orders, transfers, cancellations | loads overtake each other; answers meet another tab, popup or form than the one that asked | `MobileViews`, `MobileCharts` |
| mobile: marketService, and the valuation it shows | none | conversions of answers | defaults for missing values, rounding of each figure on its own | `MobileMarket` |
| mobile: mockMarketService | a fixed market | the methods of marketService | wired to no screen at present | `MockMarket` |
| auth-gateway: proxy; front-ktl: screens; infrastructure; documents and test scripts | none of its own | forwarding, presentation, deployment | no protocol to check | no |

What makes each of them correct:

- orders: a row and the messages about it tell one outcome; an order is decided once
  and the topic speaks only of decisions that were made; a settled order does not
  change; requests end; trades reach the topic.
- portfolio: a trade moves cash and position at most once and in order; money
  moves for a reason; nothing but purchases overdraws; the consumer never stops;
  as long as writers take turns the service is a ledger.
- both: nothing is booked that the orders table does not hold; a booking finds
  the rows it needs; without faults every trade is booked.
- sessions: at most one usable refresh token per login, replaced in one step, and
  none after the session ended; no revoked token stays
  on the device unless something cut its call or logout short; a logout ends its
  session; requests end.
- mobile session: requests go out in the name of the user who is shown; a guest's
  device holds no token; a live session can be revoked by a logout and ends for a
  reason.
- mobile screens: what is shown is what the title says, once loads have caught up
  with it, and as recent as polling allows; nothing is called empty before it was loaded; spinners end; a chart opens
  when asked for and stays in view.
- market data: answers are as fresh as the cache promises; known symbols are not
  reported missing; the cached page is what lookups take it for, the beginning of
  the unfiltered list. (Filtered searches are answered from it all the same: section 5.)

## 2. Modules

**`OrderLifecycle`.** Each HTTP request is a process. A create request is
identified with its order (the id is a fresh UUID), a cancel request names one.
Each SQL statement is one step, because the repository opens no transaction:
`CreateOrder` is the INSERT of the NEW row, `MarketAnswers` and
`PortfolioAnswers` fill the two channels, `FailOrder` (an upstream error),
`RejectOrder` and `FillOrder` write the outcome and answer the client,
`ReadForCancel` and `CancelOrder` are the SELECT and the UPDATE of a cancel
request. `PublishStatus` and `PublishTrade` are the two writes of a publish
goroutine. `Verdict` is the chain of checks in the code: volume, then cash or
shares. Faults, each kind bounded by `MaxFaults`: an upstream call fails, a
statement returns an error with or without effect, a produced message is lost or
written twice, the process crashes, or it is shut down when no handler runs (which
still kills publish goroutines: `main.go:89` waits for handlers only).
`RejectOrder` ignores the error of its UPDATE, as `order_service.go:132` does.

**`TradeBook`.** What readers of the topic are promised: an order is traded or
rejected, once and for good, and a message is an announcement of such a decision.
The trade is the one in the table; a rejection is decided when its client is
answered, because the UPDATE may fail without anybody noticing. CANCELLED decides
nothing: `CancelOrder` writes no check and may be overwritten, so the abstract
specification lets any order be called cancelled.

**`PortfolioService`.** Each client and the consumer goroutine is a process over
the tables; each SQL statement is a step. Creating a missing portfolio is a
SELECT and a plain INSERT, so the second of two creators fails on the key. The
consumer fetches, commits the offset (or fails to), then processes: status row,
order row, trade row, cash, position; it logs errors and goes on. A crash
restarts the service from the committed offset. Of a position only the quantity
is kept. History variables count what was handled and booked.

**`Ledger`.** What users are promised: transfers and trades one after the other,
each at most once. `LedgerUnlessStale` says that every step of the service is one of
these, or writes a balance that was computed from an overwritten one (`WritesStale`),
which is the loss the run `PortfolioDeposits` shows.

**`TradingSystem`.** Both services: `T == INSTANCE OrderLifecycle` and
`P == INSTANCE PortfolioService`. P's topic is T's topic, decoded. A purchase is
a client of P that asks for the balance; the answer of P is T's `PortfolioAnswers`.
A sale reads the position in one SELECT.

**`Sessions`.** auth-gateway and one Android device. `Refresh` is the transaction
of `rotateRefreshToken`: SELECT FOR UPDATE takes the locks of the token's and the
user's row, `Rotate` revokes, inserts and commits, or rolls back. On the device
`StartCall`, `Authenticate` (after a 401), `Save`, `Clear`, `Submit`,
`SaveLogin`, `StartLogout`; `GiveUp` is the HTTP timeout, after which the gateway
goes on with the request. `Submit` is open as long as the store is empty: each form
disables its own button only, and the link between the forms stays, so a login and a
registration may overlap. `Leave` is the user leaving a screen: its view model is
cleared and the coroutine cancelled where it waits, in a logout also at the `clear` of
its `finally`. (The tabs at the bottom save the state of the profile screen; Back
clears it.) Tokens are numbered in the order they are issued; `session` and `parent`
remember where each comes from.

**`TokenFamilies`.** What the gateway promises of refresh tokens: the descendants of
one login have at most one usable member, a refresh replaces it in one step, a
family that ended stays ended. The family of a login are the tokens whose `session`
it is, the usable ones those not revoked.

**`MarketData`.** The read-through caches and the search. What a query returns is
named by the instant ClickHouse read it; a query takes time, only the critical
sections of the mutex are atomic. `Lookup` is the first one, `Query` the read,
`Store` the last one; `QueryError` answers with whatever the cache has. An order
book first makes a quotes call (`Inner`) and then takes two queries. `SearchPage`,
`SearchCount`, `ListSymbols`, `ListError`, `StoreList` are the steps of a search,
`LookupInstrument` and `SymbolExists` those of an instrument. Symbols are numbers, in
the order of `ORDER BY symbol`; a page is the set of symbols on it.

**`MobileSession`.** JavaScript has one thread, so what runs between two awaits is
one step and every call of AsyncStorage or the network is an await. Processes are
the sign-ins (`Submit`, then `Granted` or `Denied`, five times `Store`, `Enter`),
the calls of screens (`StartCall`, `Answer`, `Clear` after a 401), the logouts and
`Boot`, which is `checkAuth`. `Writes` is the order in which the items are written:
`apiClient` writes the tokens, `AuthContext` the user and the tokens again.
`Navigate` is the user moving between the guest's screen and the two forms; opening
a form enables its button, even while an earlier sign-in is under way. `Kill` ends
the application anywhere and launches it again, while the gateway may handle what
is on its way; `Stall` is a body that never arrives behind headers that did, which
the 30 s timer of `request` covers in the phone build but not in a browser. A pair
of tokens is named by its sign-in: no caller of `refreshTokens` exists.
`overlapped`, `torn` and `refused` are history variables that name the exceptions
the properties make.

**`MobileViews`** extends **`MobileCharts`** and **`MobileMarket`**. One component is
mounted: a view of the dashboard, or `OrderBook` or `PriceChart` alone. No screen of
the repository mounts the latter two; they are modelled under a parent that changes
their stock. `loads` are requests on their way, each for a key (a tab of the
history, a stock), started by an effect, the interval, a command or scrolling.
`Arrive` and `Fail` are the end of any of them, in any order; a change of the key
cancels none. Time passes in polling periods (`Tick`) and is kept as ages, of loads
and of what is shown, so the model has no horizon; a load ends before it is older
than `Duration`. `Select`, `ClosePopup`, `CloseForm`, `OpenChart`, `CloseChart`,
`Gesture` are the popup of a stock, `SetModal` that of the portfolio. `cmd` holds
the orders, transfers and cancellations under way and what their answer will still
reach: the form that sent it, only the screen below, or nothing. History variables:
`doubt` counts, where an interval loads, the periods that loads from before the last
change of the key may still take; `overtaken` says that an answer for another key came
in after the one for this key; `asked` and `lingering` say why a chart is open.

`MobileCharts` has the state of `ModalChart` as a record, what each gesture makes of
it, and the arithmetic both charts draw by. `MobileMarket` has the services' answers,
the types of the screens and the conversions between them, with the valuation
`portfolio-service` answers with (rounded half away from zero, as `StringFixed`
does). **`MockMarket`** is the stand-in with the same methods. These are pure; the
`ASSUME`s of `MCMobileViews` compare them with what they should give over bounded
inputs (candles stay above the volumes, labels stand at their prices, the list has
every instrument once, an order is shown as it was asked for, a portfolio adds up,
the stand-in agrees with itself).

**`MC...`** modules give constants their values for TLC.
**`OrderLifecycleProofs`**, **`PortfolioProofs`**, **`SessionsProofs`**,
**`MarketDataProofs`**, **`MobileSessionProofs`**, **`MobileViewsProofs`**,
**`MobileChartsProofs`** and **`TradingSystemProofs`** hold the theorems; the last one
instantiates the first two.

Definitions called "Faulty variant of X" model no code: each is X with a plausible
bug, used to confirm that a property would notice it.

## 3. Runs

| run | instance | shows |
|---|---|---|
| OrderRace | a purchase, an order for nothing, two cancel requests, each kind of fault once | all safety and liveness properties of the order path, refinement of `TradeBook` |
| OrderDiagram | a purchase and a cancel request, no faults | **violated**: FILLED becomes CANCELLED and the other way round, which the life cycle diagram does not have |
| PortfolioBooking | a purchase, a sale, a deposit and a withdrawal of one account, a reader of another, each kind of fault once | bookings happen at most once and in order, money moves for a reason, only purchases overdraw, steps are those of `Ledger` but for stale writes, the consumer never stops |
| PortfolioDelivery | a purchase, one crash | **violated**: its message is committed when it is read, and lost with the process |
| PortfolioDeposits | two deposits at once | **violated**: one amount is lost |
| TradingBooks | a purchase, a sale of what was bought, a cancel request, a deposit, at most one fault | no service books what the other does not know, and the history speaks of trades only; bookings find their rows; trades are booked unless something fails, announced ones whatever fails in trading-service |
| TradingOverspend | two purchases, one deposit | **violated**: both are checked against the same balance |
| Sessions | two calls, a registration, a later login, a logout, at most one fault | refinement of `TokenFamilies`, revoked tokens leave the store (unless the application is killed or a logout is cancelled), logouts end sessions, requests end |
| SessionContinues | two calls after one login, no faults | **violated**: the second refresh is refused and empties the store |
| MarketData | three loads: two quotes requests and an order book; two requests for candles and one for a list of quotes; two searches and a lookup. A clock and one failing query | freshness, no false 404, the cached page |
| MobileSession | ann logs in and bob registers on one device, a call, a logout, a kill or a lost answer | requests carry the token of who is shown; guests hold none; live sessions stay within reach of a logout and end for a reason; requests end |
| MobileViews | two stocks, one request that changes something, three time frames, order book and price chart included | what is shown is recent and fits its title, unless an answer for the title is still to come or one for another came after it; no false "empty"; charts open when asked for and stay in view; spinners end |

Bounds, and why they are enough:

- One or two orders: requests about different orders share nothing but the topic
  (and, in the portfolio, the account), and the instances have two of those. Two
  cancel requests, because one can overtake the other. Quotes and holdings are
  chosen so that every verdict is reached.
- `MaxFaults` is one of each kind, or one in all where the run says so: every
  property but the liveness ones is also proved or is about a single fault; the
  liveness properties name the faults that excuse them.
- `MaxMessages` in the portfolio: two messages can be one trade twice, both
  trades, or a trade with its status event. In `TradingBooks` the bound is never
  reached: two orders and one duplicate make at most seven messages.
- `MaxTokens` in `Sessions` is never reached (two logins and one rotation per
  call); one token expires.
- `MaxTime = 2` with lifetimes of 1 (and 1 or 2 with jitter): a request that
  began in one unit can store after another one did in the next, and a third can
  come after both. `Loads` bounds which requests come together; those of different loads
  use different caches, except quotes, of which three share one key.
  Requests that ask for the same are symmetric; the properties are invariants.
- `MaxRunning = 2` in `MobileSession`: two processes at once show every overlap of two
  writers; a third adds only further orders of the same writes. `MaxFaults = 1`: a
  kill or a lost answer. The safety properties are proved for any number of each.
- `Duration` is one period (two of the order book), so that two (three) loads
  overlap. On the phone it is three periods and more (30 s against 10 s); the proofs
  take any. `Commands = {k1}`: two commands meet only through the popup and the
  modal, which the proofs cover too. `MaxWindows = 3` bounds the candles appended to
  each other. `Drags` go beyond both ends of the shortest chart, `Touches` beyond the
  last candle of it.

Runs have `CHECK_DEADLOCK FALSE` because every instance is finite: once all
requests are answered the system really stops.

## 4. Fairness

Weak fairness on what the code keeps doing by itself: handlers, publish
goroutines and the consumer take their next step, and upstream answers arrive
(the HTTP clients have timeouts, so a reply or a failure comes). Never on clients, users who
leave a screen, faults, clocks, the INSERT that starts a request, or a restart. In `Sessions` a
request, once on its way, goes on: `OkHttp` has timeouts, and each transaction
commits or rolls back, so that row locks are released. `MarketData` states
no liveness. In `MobileSession` the application stays in the foreground: AsyncStorage
answers, and the 30 s timer of `request` ends the wait for headers (`RequestsEnd` names
the bodies it does not wait for). In `MobileViews` intervals fire and requests end;
users owe nothing in either.

## 5. Where code and documents disagree

Each of these is a run of its own, quoted in `PROJECT.json`: the order diagram,
the sum of deposits, purchases that a balance covers, the session that goes on, and
delivery at least once: `Kafka.md:83` and `Kafka trading-events.md:86` say that the
offset is committed after processing, while `ReadMessage` commits it before the message
is handled (`HandledAtMostOnce` is the code's side).
Further ones, met on the way, have no run. In the services:

- a filtered search whose total is cached is answered from the unfiltered page
  (`service.go:112`; `README.md:470` documents the filter);

- after an upstream error an order stays NEW although its client was told
  INTERNAL_ERROR (the model has it: `OrphansComeFromFaults` says when);
- `UpdateOrderStatus` errors are ignored by a rejection (`order_service.go:132`),
  so an order may stay NEW whose client was told REJECTED;
- a shutdown does not wait for publish goroutines (`main.go:89`);
- ORDER_REJECTED never reaches the history of portfolio-service: its UPDATE
  (`repository.go:191`) finds no row (`BookedTradesAreStored` says so);
- two readers may race to create a portfolio (`repository.go:66`); for trades
  that race cannot matter, which is `BookingFindsItsRows`;
- a slow refresh may save its tokens over those of a later login; a logout that
  a refresh overtakes leaves the new token usable; a registration that fails
  half way leaves a user without a session;
- the depth of an order book is not part of its cache key (`service.go:359`), and
  its two sides are read at different moments;
- a user who leaves the profile screen with Back while a logout waits cancels its
  `clear` (`AuthRepository.kt:33`): the application keeps a token the gateway has
  revoked, until the next 401.

In the mobile client:

- a logout after a 401 has no refresh token left to present, so it revokes nothing;
- an answer of 401 to a call of an earlier session, or to a mistyped password, clears
  whatever tokens the storage holds by then (`ValidSessionsEndForAReason` lists this);
- the button of a form is enabled again by remounting the form, and the keyboard
  submits whether it is disabled or not: a deposit may be sent twice;
- an error of a form that was closed is told to nobody, and the OK of an alert
  closes whatever form of that kind is open by then;
- the answer to an order closes the popup of another stock, and leaves the chart to
  open by itself with the next stock (`Dashboard.tsx:40`, see `ChartWhenAsked`);
- `ModalChart` shows made-up candles, `README.md:277` asks for the history of the price;
- `handleTouch` subtracts the offset although `locationX` is relative to the drawing,
  and a tooltip of `PriceChart` outlives a change of the stock;
- bars of volume are moved down twice and lie below the drawing (`VolumesOutside`);
  bodies of `PriceChart` are moved twice as well, and many candles share one x;
- an answer for the previous stock that comes after that for the new one stays in
  `PriceChart` under the wrong title until another stock is chosen
  (`PriceChart.tsx:30-43`; the order book shows it until its next period);
- a flat history divides by zero in `PriceChart`;
- `loadMore` asks for the same hour again and appends it (`PriceChart.tsx:58`);
- percentages are compared with `'0'` where the service sends `'0.00'`; the test for
  `401` in `Portfolio.tsx:39` and the branch for `INSUFFICIENT_BALANCE` of the
  withdrawal match no message of the services;
- the stocks `StockList.tsx:36` falls back to are never shown, the error hides them;
- the current price in the order form is that of the moment the popup was opened;
- a history of the stand-in that falls back ignores stock and period.

## 6. Proofs

`OrderLifecycleProofs` proves for every set of orders, cancel requests, quotes,
holdings and every bound on the faults:

| theorem | says |
|---|---|
| `Invariance` | `Spec => []OrderInv` |
| `TypeCorrect` | `TypeOK` holds always |
| `OneOutcomeHolds` | an order is rejected or traded, never both, in its row and in the topic |
| `AnnouncedTradesHold` | whoever hears of a trade hears of the stored one |
| `TradeForever` | a stored trade is never lost or replaced |
| `TradeBookIsImplemented` | every step is one of `TradeBook` or a stutter |
| `OffDiagramOnlyByRace` | a change the diagram does not have needs a cancel request that met the order as NEW |
| `TradesAreSentHolds` | unless something failed but upstream calls, a stored trade whose goroutine is over is on the topic |
| `OrphansComeFromFaultsHolds` | an order nobody handles is NEW only after an error its client heard of, or a failed rejection |
| `SettledForeverHolds` | a settled order never changes again |
| `FilledPrecedesTradeHolds` | no ORDER_FILLED follows the TRADE_EXECUTED of its order |

They need the assumptions named in `OrderLifecycle` only. Neither safety property is
inductive: that a message agrees with the table depends on the publisher that
will write it and on the verdict its handler will reach. `OrderInv` adds
`SilentUntilDone` (a request has told nobody anything and has no publisher before
it is done), `AnswersFollowVerdict` (what a client was told is the verdict on
the answers in the two channels), `RowFollowsVerdict` (a reason or a price in a
row is that of the verdict, and the handler is past its write) and
`TopicFollowsRow` (messages agree with rows). Since channels are written once,
the verdict on an order cannot change after it is used; this lemma carries the
proof. Each action has its own step, and under it one step per conjunct.
`OrphansComeFromFaultsHolds`, `SettledForeverHolds` and `FilledPrecedesTradeHolds` need
more: `RowsKeepUp` (what a client was told and whether
a statement failed say which status a row can have) and `CancelsMeetRows` (a cancel
request about to write has read a row), and for the topic `TradesComeLast` (once a
trade is sent, its goroutine has only further copies of it to send).

`TradeBookIsImplemented` is the refinement. Two lemmas, one for `FillOrder` and one for
`RejectOrder`, show that a handler decides an order that was undecided (by
`AnswersFollowVerdict` the two decisions exclude each other); two more show that a
publish goroutine announces what was decided, in its words (`TopicFollowsRow`), a fill
before its trade (`TradesComeLast`). `OffDiagramOnlyByRace` complements the run
`OrderDiagram`, which is violated: `CancelledByRequest` and `HandledRowsAreOpen` say what
a handler that is about to write can find in its row, and leave FILLED or REJECTED
against CANCELLED, in either direction, as the only changes outside the diagram.
`TradesAreSentHolds` is the safety half of `TradesReachTopic`: it excludes failed
statements, lost messages, crashes and shutdowns, and allows any number of upstream
errors and repeated messages. Fairness is then needed only for the goroutine to end.

`PortfolioProofs` proves for any users, orders and clients, whatever each client
asks for, any length of the topic, repeated messages included, and any number of
faults of each kind:

| theorem | says |
|---|---|
| `Invariance` | `Spec => []PortfolioInv` |
| `TypeCorrect` | `TypeOK` holds always; no sale makes a quantity negative |
| `NothingHandledTwice` | no message is handled twice |
| `NothingBookedTwice` | no trade is booked twice, or into a position before the cash |
| `NothingElseOverdraws` | an account is overdrawn by booked purchases at most |
| `MoneyHasAReason` | an existing balance changes only where a transfer or a trade is written |
| `LedgerIsImplemented` | while the writers of an account take turns, every step is one of `Ledger` or a stutter |
| `LedgerUnlessStaleHolds` | however writers overlap, every step is one of `Ledger`, a stutter, or the write of an outdated balance |
| `AnswersTellTransfersHolds` | a transfer that is answered "ok" moved its money, a refused one did not |
| `PurchasesReadAreBooked` | while writers take turns and nothing fails, a waiting consumer has booked every purchase it read |

They need the assumptions named in `PortfolioService`. `PortfolioInv` adds to the
properties what each needs to be inductive. `LogInOrder` and `HandledIsCommitted`:
what was handled lies below the committed offset, where a restart never reads.
`BookingInStep`: while the consumer is on its way from the row in `trades` to the
cash and the position, nobody has booked that trade. `TransfersAreSound`: past the
first check an amount is positive, and a client moves money as its last step.
`ReadingsAreCovered`: also the balance a process has read, and may write back
after others wrote, is overdrawn by purchases only; `spent` never decreases, so a
stale reading stays covered. `MoneyHasAReason` is an action property: from
`PortfolioInv`, each disjunct of `Next` leaves existing balances alone or marks why.
`LedgerIsImplemented` is the refinement, `SerialSpec => ImplementsLedger`: `TurnsTaken`
keeps `ReadingsAreCurrent`, what a process has read and is about to write back is
still in the table; so a WriteBalance that takes effect is a Deposit or a Withdraw,
UpdateCash a Pay, UpdatePosition a Deliver, and every other step changes nothing the
`Ledger` sees. `BookingInStep` gives the guards of Pay and Deliver.
`LedgerUnlessStaleHolds` is the same argument without turns: a process that writes has
read what is still in the table, or the step is a `WritesStale`; `StepIsLedger` is
the lemma behind both.
`PurchasesReadAreBooked` says when a trade that was read is booked. `BookingInv` says
that a trade read is in `trades` and, unless the consumer works on it, booked. It is
kept wherever `NothingInTheWay` holds: nobody else creates the portfolio the consumer
is about to create, and a sale finds its position. Taking turns gives the first, but
nothing in this service gives the second; so the theorem is about purchases.

`TradingSystemProofs` proves for both services at work together, for any users,
orders, cancel requests, transfers and quotes and any number of faults:

| theorem | says |
|---|---|
| `Invariance` | `Spec => []BooksInv` |
| `BookedTradesHold` | no trade is booked that the orders table does not have, and no rejected order enters the history |
| `BookingsFindRows` | when a trade is announced, the account and the position its booking needs exist |
| `EachServiceIsItself` | each service's steps are those of its own module, whose inductive invariants hold here |
| `BookedAtItsPriceHolds` | a booking moves the balance by the stored price times the quantity |
| `BooksAgreeAtRestHolds` | at rest, and if nothing failed but upstream calls, exactly the trades of the orders table are booked, once, in cash and positions |
| `PurchasesInTurnAreCovered` | no balance is negative while nobody buys or withdraws beside an engaged purchase |

`Balances` only bounds what TLC enumerates as answers of portfolio-service; the
theorems take it to be the integers (`AnyBalance`). `StepIsTrading` shows that each
step of the system is one of `OrderLifecycle` or leaves it alone; so `OrderInv` and the
lemmas of `OrderLifecycleProofs` hold here, by an INSTANCE of that module with the same
substitution. On the other side every action of `PortfolioService` keeps
`PortfolioKept`: rows are never deleted, and the consumer books nothing but a trade
message (`TradeAtHand`), of a trade that is stored since it is on the topic.
`AnswersFindRows` joins the two: an answer with which an order passes was read from
the rows its booking will need, so a trade decided on it has them (`TradesFindRows`).

`EachServiceIsItself` carries the other theorems over: the system is, for each service,
a behaviour of its module. `TopicBounded` in its hypothesis says that the topic is not
longer than `MaxMessages`; the code has no such bound, and since the constant is
arbitrary, every finite behaviour satisfies it for some value of it.
`BooksAgreeAtRestHolds` joins `TradesAreSentHolds` and the argument of
`PurchasesReadAreBooked`, now for sales too and without turns: `TradesFindRows` keeps
everything out of the consumer's way, since a trade's rows exist before it is announced.
It is the safety half of `TradesAreBooked`. It says that the right trades are booked,
each once; that the sums are right as well needs turns, as the run `PortfolioDeposits`
shows. `PurchasesInTurnAreCovered` says what the run
`TradingOverspend` lacks: a purchase is engaged from its request until its booking, and
if nobody else buys or withdraws meanwhile, and writers take turns, the balance
answered is a lower bound until then (`PurchaseCovered`), whatever fails or comes twice.
Deposits and bookings of sales need no such restraint: they only raise the balance.

`SessionsProofs` proves for any users, calls, logins and logouts, any number of
tokens, of processes at work at once and of faults:

| theorem | says |
|---|---|
| `Invariance` | `Spec => []SessionsInv` |
| `TypeCorrect` | `TypeOK` holds always |
| `OneLivePerSessionHolds` | a session has at most one usable refresh token |
| `TokenFamiliesAreImplemented` | every step is one of `TokenFamilies` or a stutter |
| `RevokedLeavesStoreHolds` | a revoked token in the store is about to be replaced or cleared, unless a logout was cancelled with its screen or the application killed |
| `LogoutEndsSessionHolds` | a logout ends its session, or a refresh replaced what it presented |
| `LostOnlyWhenOvertakenHolds` | a live session is deleted without a fault, an old token or a logout only by a call whose token a concurrent refresh replaced |
| `RetriesCarryNewTokensHolds` | a call is sent again with a later access token only |

On the gateway `OneLive` is kept because of `LocksHold` (what a rotation has locked
nobody revokes before it is replaced, and one rotation at a time works on a user) and
`LoginsIssueOnce`; `RevokedIsReplaced` says what becomes of a session when a token is
revoked, which is a rotation or its end. On the device a token that an answer has
brought belongs to one process and has been presented by nobody until it is stored
(`FreshIsUnused`); so whoever presented what is in the store has not finished yet, or
was a logout that was cancelled (`PresentersGoOn`), and a revoked token in the store has been presented by somebody
(`RevokedWasPresented`). `LogoutsRevoke`: without faults the end of a logout means
that its token is revoked.

In the refinement of `TokenFamilies` the transaction of `Rotate` is a Renew, an
`IssueToken` an Open, a `Revoke` an End unless the token was replaced already, and
everything else a stutter; `LocksHold`, `OneLive` and `LoginsIssueOnce` give their guards.
`LostOnlyWhenOvertakenHolds` complements the run `SessionContinues`, which is violated:
`OvertakenInv` follows a refused call back to the rotation that overtook it, and
finds that the session it empties has a live token. `RetriesCarryNewTokensHolds` is the
measure behind `RequestsEnd`: tokens are finite in number, so no call retries for ever.

`MarketDataProofs` proves for any requests, symbols, lifetimes, delays and errors:

| theorem | says |
|---|---|
| `Invariance` | `Spec => []CachesInv` |
| `TypeCorrect` | `TypeOK` holds always; half an order book is never cached |
| `AnswersAreFreshHolds` | an answer without an error is younger than its lifetime |
| `NoFalse404Holds` | a symbol that has quotes is not reported as unknown |
| `CachedPageIsFirstHolds` | the cached page is the beginning of the list |

`Promises` says of each request what holds of what it has in its hands: it read
nothing before it began, it overlooked no symbol that was listed by then, its page is
the beginning of the list if it may be kept. `EntriesExpire`, `QuotesExpire` and
`PageExpires` say the same of the caches in terms of their expiry, which is a lifetime
after the beginning of the request that stored the entry. A hit transfers them to a
request that began before that expiry. `InnerAfterOuter` carries the answer of the
quotes inside an order book over to it; this needs that quotes live no longer than
order books (`service.go:57`: 200 ms against 5 s).

`MobileSessionProofs` proves for any sign-ins, calls, logouts and accounts and any
number of processes at once and of faults:

| theorem | says |
|---|---|
| `Invariance` | `Spec => []SessionInv` |
| `TypeCorrect` | `TypeOK` holds always |
| `OneAccountHolds` | a stored token is one of the user who is shown |
| `GuestsHoldNoTokenHolds` | a device at rest with nobody shown holds no token |
| `LiveTokensAreHeldHolds` | a live pair is where a logout finds it |
| `SessionsEndForAReason` | a valid session loses its token for one of the reasons listed |

The properties speak of single moments, the writes of a sign-in or a logout come in
five steps; `SessionInv` says what holds between them. `Alone`: unless sign-ins
overlapped, whoever signs in does so on the device of a guest and next to calls
only, and so does `checkAuth`; this is what lets each other part speak of one writer.
`TokenHasItsUser` and `SignInsBringTheirs` say which items agree after which write,
`RemovedIsGone` and `LogoutsRevoke` what is gone after which removal, `FoundIsStored`
that what `checkAuth` read still stands, `GuestHasNoToken` what is left when nobody
writes.

`MobileViewsProofs` proves for any stocks, commands, timeouts, drags and touches:

| theorem | says |
|---|---|
| `Invariance` | `Spec => []ViewsInv` |
| `TypeCorrect` | `TypeOK` holds always, with the chart in view |
| `ShownIsRecentHolds` | data shown are those of the title, unless its load is on its way or an answer for another came after it; with an interval, once older loads are over, they are those of the title and at most 2 x Duration + 1 periods old |
| `NoFalseEmptyHolds` | a blank screen is a tab of the history opened over another load |
| `ChartWhenAskedHolds` | an open chart was asked for, or an order left it |
| `FiguresAgreeToACent` | the rounded figures of a position agree to a cent, for any stored position and price |
| `EquityAddsUp` | the equity shown is cash plus market value, within a cent if the cash is overdrawn and exactly otherwise |

`TitleExplained` carries the first half: a change of the key starts a load for it, and
only an answer for another key, which sets `overtaken`, replaces what that one brought.
That shown data are recent is not inductive: a late answer replaces data by older
ones. `ShownIsRenewed` adds why that does not last: data are young, or a load for
the key is on its way that ends before they exceed the bound. `OthersAreDoubted`
bounds by `doubt` how long loads for another key live where an interval loads, `BlankIsDoubted` and
`KeptInItsSlot` say what they can leave behind. `ChartFollowsPopup` and
`LingeringExplained` do the same for the chart. `MobileChartsProofs` has the
arithmetic: `GesturesStayInside` (no gesture leaves a gap or a tooltip without a
candle), `CandlesFit`, `VolumesOutside`.
The last two theorems are about the conversions of a portfolio and rest on
`FixedRounds`: a rounded figure is within half a cent of the exact one, in either sign.
`EquityAddsUp` takes the market value of all positions to be a number of cents, since
the sum over the positions is a fold.

Every invariant and action property of the passing runs is a theorem, and so are their
refinements. Only model-checked:

- what has to happen: `RequestsAnswered`, `TradesReachTopic`, `TopicIsDrained`,
  `TradesAreBooked`, `AnnouncedTradesAreBooked`, and that requests and spinners end. Neither
  fairness nor ENABLED is within the prover's reach. Of the three that say a trade
  arrives, what is safe in them is proved (`TradesAreSentHolds`,
  `PurchasesReadAreBooked`, `BooksAgreeAtRestHolds`);
- what a fold or a recursive function computes (sums over positions, the scales of
  charts, the stand-in's lists): this needs induction over data, which the prover does
  not do either. No module that is proved about reaches a RECURSIVE operator.

## 7. Not modelled

Formatting, JSON, SQL texts, validation of parameters, telemetry, Flyway, the
proxy of the gateway, average prices and profits of positions, levels of the
order book, totals of searches. Tests are read as statements of intent.

Of the mobile client: styles, icons, colours of avatars, formats of dates and
numbers, `refreshTokens` and `getStockById` of marketService (no caller), the legacy
entry `App.tsx`, the components of the project template, and the fixed lists of
orders, trades and positions of the stand-in. The front-ktl screens load and show
what the services answer and are not modelled.

## 8. Plan

1. `PricingEngine`: concurrent readers of the device, the history, prices at their
   bounds with 64-bit arithmetic; composed with `MarketData` through the table of
   quotes.
2. `LoadRunner`: starting, stopping and resetting runs of load-service under its
   virtual users.
3. Reads of trading-service and portfolio-service (lists and summaries).
4. Proofs: abstract specifications of the market data caches (an answer is some recent
   instant of ClickHouse) and of the mobile session, each shown to be implemented; what
   a lost deposit needs besides two writers of one account.
