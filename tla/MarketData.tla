------------------------------ MODULE MarketData ------------------------------
(***************************************************************************)
(* market-data-service: the read-through caches in front of ClickHouse for *)
(* quotes, candles and order books, and the two caches of the instrument   *)
(* search, with concurrent requests, slow queries and errors.              *)
(*                                                                         *)
(* What a query returns is named by the instant at which ClickHouse read   *)
(* it.  A query takes time; only the accesses to the caches are atomic, by *)
(* the service's mutex, and none of them spans a query.                    *)
(***************************************************************************)
EXTENDS Integers, Sequences, FiniteSetsExt

CONSTANTS
    Requests,
    Ask,            \* what each request asks for
    Inner,          \* Inner[b]: the quotes call that order book request b makes
    Symbols,        \* all the symbols, numbered in the order of their names
    Matches,        \* Matches[q]: the symbols a search for q finds
    Everything,     \* the empty query
    TTL,            \* TTL[kind]: how long an entry may live (a set: jitter)
    SymbolTTL,
    Empty, Never,
    MaxTime,        \* bound on the clock
    Loads,          \* bound on the requests that clients make together
    MaxErrors       \* bound on the failing queries

Time == 0..MaxTime

RequestsFor(kinds) == {r \in Requests : Ask[r].kind \in kinds}
Cached   == RequestsFor({"quotes", "candles", "book"})
Books    == RequestsFor({"book"})
Searches == RequestsFor({"search"})
Lookups  == RequestsFor({"instrument"})
InnerCalls == {Inner[b] : b \in Books}

(* The keys of quoteCache, candleCache and orderBookCache: a kind and the  *)
(* symbols asked for.  The depth of an order book is not part of its key.  *)
Key(r) == <<Ask[r].kind, Ask[r].symbols>>
Keys == {Key(r) : r \in Cached}

(* The keys of symbolCountCache.                                           *)
SearchKey(r) == <<Ask[r].query, Ask[r].limit, Ask[r].offset>>
SearchKeys == {SearchKey(r) : r \in Searches}

ASSUME RequestsAssumption ==
    /\ Symbols \subseteq Nat /\ IsFiniteSet(Symbols)
    /\ \A r \in Cached : Ask[r].symbols \subseteq Symbols
    /\ \A r \in Searches : /\ Ask[r].query \in DOMAIN Matches
                           /\ Ask[r].limit \in Nat \ {0} /\ Ask[r].offset \in Nat
    /\ \A r \in Lookups : Ask[r].symbol \in Symbols
    /\ Inner \in [Books -> RequestsFor({"quotes"})]
    /\ \A b \in Books : Ask[Inner[b]].symbols = Ask[b].symbols
    /\ Matches[Everything] = Symbols

(* Quotes are kept for less time than order books.                         *)
ASSUME BoundsAssumption ==
    /\ MaxTime \in Nat /\ MaxErrors \in Nat /\ SymbolTTL \in Nat
    /\ \A kind \in {"quotes", "candles", "book"} :
          /\ TTL[kind] \subseteq Nat \ {0}
          /\ \E longest \in TTL[kind] : \A ttl \in TTL[kind] : ttl <= longest
    /\ \A quotes \in TTL["quotes"], book \in TTL["book"] : quotes <= book
    /\ Loads \subseteq SUBSET (Requests \ InnerCalls)
    /\ Never \notin Nat

VARIABLES
    now,          \* the clock
    listedAt,     \* when the first quote of each symbol was written
    cache,        \* quoteCache, candleCache and orderBookCache
    symbolCache,  \* one page of the list of symbols
    countCache,   \* the totals of searches
    pc,           \* where each request is
    began,        \* the `now` each request read first
    got,          \* what its queries returned
    page,         \* the symbols a search has in its hands
    answer,       \* what the client was told
    errors        \* failed queries

vars == <<now, listedAt, cache, symbolCache, countCache, pc, began, got, page, answer, errors>>

-----------------------------------------------------------------------------
(* Snapshots: when they were read and the symbols they contain.            *)
(* An order book takes one query for the bids and one for the asks.        *)
Queries(kind) == IF kind = "book" THEN 2 ELSE 1

Snapshots == [read : Seq(Time), found : SUBSET Symbols]
Nothing == [read |-> <<>>, found |-> {}]

Answered(status, data, items, stale) ==
    [status |-> status, data |-> data, items |-> items, stale |-> stale]

NoAnswer == Answered("none", Nothing, {}, FALSE)

TypeOK ==
    /\ now \in Time
    /\ listedAt \in [Symbols -> {Never} \cup Time]
    /\ cache \in [Keys -> {Empty} \cup [data : Snapshots, until : Nat]]
    /\ \A k \in Keys : cache[k] # Empty => Len(cache[k].data.read) = Queries(k[1])
    /\ symbolCache \in {Empty} \cup [page : SUBSET Symbols, until : Nat]
    /\ countCache \in [SearchKeys -> {Empty} \cup Nat]
    /\ pc \in [Requests -> {"idle", "quotes", "fetch", "store", "count", "list",
                            "storelist", "exists", "done"}]
    /\ began \in [Requests -> Time]
    /\ got \in [Requests -> Snapshots]
    /\ page \in [Requests -> {Empty} \cup SUBSET Symbols]
    /\ answer \in [Requests -> [status : {"none", "ok", "NOT_FOUND", "INTERNAL_ERROR"},
                                data : Snapshots, items : SUBSET Symbols, stale : BOOLEAN]]
    /\ errors \in 0..MaxErrors

Init ==
    /\ now = 0
    /\ listedAt \in [Symbols -> {0, Never}]
    /\ cache = [k \in Keys |-> Empty]
    /\ symbolCache = Empty
    /\ countCache = [k \in SearchKeys |-> Empty]
    /\ pc = [r \in Requests |-> "idle"]
    /\ began = [r \in Requests |-> 0]
    /\ got = [r \in Requests |-> Nothing]
    /\ page = [r \in Requests |-> Empty]
    /\ answer = [r \in Requests |-> NoAnswer]
    /\ errors = 0

-----------------------------------------------------------------------------
Listed == {s \in Symbols : listedAt[s] # Never}

Goto(r, step) == pc' = [pc EXCEPT ![r] = step]

(* An answered request lets go of what it had in its hands.                *)
Respond(r, a) ==
    /\ Goto(r, "done")
    /\ answer' = [answer EXCEPT ![r] = a]
    /\ got' = [got EXCEPT ![r] = Nothing]
    /\ page' = [page EXCEPT ![r] = Empty]

GoOn(r, step) == Goto(r, step) /\ UNCHANGED <<answer, got, page>>

(* The clients' requests, without the calls inside order book requests.    *)
Made == {r \in Requests \ InnerCalls : pc[r] # "idle"}

Start(r) ==
    /\ pc[r] = "idle"
    /\ r \in InnerCalls \/ \E load \in Loads : Made \cup {r} \subseteq load
    /\ began' = [began EXCEPT ![r] = now]

QueryFails == errors < MaxErrors /\ errors' = errors + 1

InternalError == Answered("INTERNAL_ERROR", Nothing, {}, FALSE)

-----------------------------------------------------------------------------
(* getLatestQuotesCached, GetCandleHistory and GetOrderBook                *)

(* One symbol without a quote is NOT_FOUND (GetQuoteBySymbol and the call  *)
(* inside GetOrderBook); a list of them, candles and books may be empty.   *)
Cacheable(r, data, stale) ==
    Answered(IF Ask[r].kind = "quotes" /\ Cardinality(Ask[r].symbols) = 1 /\ data.found = {}
             THEN "NOT_FOUND" ELSE "ok",
             data, {}, stale)

Unexpired(entry, t) == entry # Empty /\ t < entry.until

(* The call inside an order book request begins when that request has come *)
(* to it.                                                                  *)
Called(r) == \A b \in Books : Inner[b] = r => pc[b] = "quotes"

Lookup(r) ==
    /\ Start(r) /\ Called(r)
    /\ IF Unexpired(cache[Key(r)], now)
       THEN Respond(r, Cacheable(r, cache[Key(r)].data, FALSE))
       ELSE GoOn(r, IF r \in Books THEN "quotes" ELSE "fetch")
    /\ UNCHANGED <<now, listedAt, cache, symbolCache, countCache, errors>>

(* GetOrderBook goes on when the quotes are there.                         *)
QuotesArrive(b) ==
    /\ pc[b] = "quotes" /\ pc[Inner[b]] = "done"
    /\ LET quotes == answer[Inner[b]] IN
       IF quotes.status = "ok" THEN GoOn(b, "fetch") ELSE Respond(b, quotes)
    /\ UNCHANGED <<now, listedAt, cache, symbolCache, countCache, began, errors>>

Query(r) ==
    /\ pc[r] = "fetch"
    /\ got' = [got EXCEPT ![r] = [read  |-> Append(got[r].read, now),
                                  found |-> Listed \cap Ask[r].symbols]]
    /\ Goto(r, IF Len(got[r].read) + 1 = Queries(Ask[r].kind) THEN "store" ELSE "fetch")
    /\ UNCHANGED <<now, listedAt, cache, symbolCache, countCache, began, page, answer, errors>>

(* Faulty variant of QueryError: what has been read goes into the cache.   *)
KeepTheRest(r) ==
    /\ pc[r] = "fetch" /\ QueryFails
    /\ Goto(r, "store")
    /\ UNCHANGED <<now, listedAt, cache, symbolCache, countCache, began, got, page, answer>>

(* An error is answered with what is in the cache, however old, and leaves *)
(* the cache as it is.                                                     *)
QueryError(r) ==
    /\ pc[r] = "fetch" /\ QueryFails
    /\ Respond(r, IF cache[Key(r)] = Empty THEN InternalError
                  ELSE Cacheable(r, cache[Key(r)].data, TRUE))
    /\ UNCHANGED <<now, listedAt, cache, symbolCache, countCache, began>>

(* Faulty variant of Expiry: the lifetime starts when the entry is stored. *)
ExpiryFromNow(r) == {now + ttl : ttl \in TTL[Ask[r].kind]}

(* An entry expires a lifetime after its request began, not after it was   *)
(* stored.                                                                 *)
Expiry(r) == {began[r] + ttl : ttl \in TTL[Ask[r].kind]}

Store(r) ==
    /\ pc[r] = "store"
    /\ \E until \in Expiry(r) :
          cache' = [cache EXCEPT ![Key(r)] = [data |-> got[r], until |-> until]]
    /\ Respond(r, Cacheable(r, got[r], FALSE))
    /\ UNCHANGED <<now, listedAt, symbolCache, countCache, began, errors>>

-----------------------------------------------------------------------------
(* SearchInstruments                                                       *)

(* Items offset to offset + limit of a list, as far as it goes.            *)
Clipped(symbols, r) ==
    LET before(s) == {t \in symbols : t < s} IN
    {s \in symbols :
        Cardinality(before(s)) \in Ask[r].offset .. Ask[r].offset + Ask[r].limit - 1}

(* The first critical section: the page in symbolCache.                    *)
SearchPage(r) ==
    /\ Start(r)
    /\ page' = [page EXCEPT ![r] = IF Unexpired(symbolCache, now) THEN symbolCache.page ELSE Empty]
    /\ Goto(r, "count")
    /\ UNCHANGED <<now, listedAt, cache, symbolCache, countCache, got, answer, errors>>

(* The second one: the total.  With both the search is answered from that  *)
(* page, whatever it was a page of.                                        *)
SearchCount(r) ==
    /\ pc[r] = "count"
    /\ IF countCache[SearchKey(r)] # Empty /\ began[r] < countCache[SearchKey(r)] /\ page[r] # Empty
       THEN Respond(r, Answered("ok", Nothing, Clipped(page[r], r), FALSE))
       ELSE GoOn(r, "list")
    /\ UNCHANGED <<now, listedAt, cache, symbolCache, countCache, began, errors>>

(* What ClickHouse answers to a search at this moment.                     *)
Found(r) == Clipped(Listed \cap Matches[Ask[r].query], r)

ListSymbols(r) ==
    /\ pc[r] = "list"
    /\ page' = [page EXCEPT ![r] = Found(r)]
    /\ Goto(r, "storelist")
    /\ UNCHANGED <<now, listedAt, cache, symbolCache, countCache, began, got, answer, errors>>

ListError(r) ==
    /\ pc[r] = "list" /\ QueryFails
    /\ Respond(r, IF countCache[SearchKey(r)] # Empty /\ symbolCache # Empty
                  THEN Answered("ok", Nothing, Clipped(symbolCache.page, r), TRUE)
                  ELSE InternalError)
    /\ UNCHANGED <<now, listedAt, cache, symbolCache, countCache, began>>

(* Faulty variant of Kept: any first page will do.                         *)
KeptFiltered(r) ==
    /\ Ask[r].offset = 0
    /\ symbolCache = Empty \/ began[r] > symbolCache.until

(* Only a first page of an unfiltered search is kept, and only once the    *)
(* one that is there has expired.                                          *)
Kept(r) ==
    /\ Ask[r].query = Everything /\ Ask[r].offset = 0
    /\ symbolCache = Empty \/ began[r] > symbolCache.until

(* The totals are left out: only how long they live decides an answer.     *)
StoreList(r) ==
    /\ pc[r] = "storelist"
    /\ countCache' = [countCache EXCEPT ![SearchKey(r)] = began[r] + SymbolTTL]
    /\ symbolCache' = IF Kept(r) THEN [page |-> page[r], until |-> began[r] + SymbolTTL]
                      ELSE symbolCache
    /\ Respond(r, Answered("ok", Nothing, page[r], FALSE))
    /\ UNCHANGED <<now, listedAt, cache, began, errors>>

-----------------------------------------------------------------------------
(* GetInstrumentBySymbol                                                   *)

(* Faulty variant of LookupInstrument: a cached page without the symbol    *)
(* settles the matter.                                                     *)
LookupInPageOnly(r) ==
    /\ Start(r)
    /\ IF Unexpired(symbolCache, now)
       THEN Respond(r, Answered(IF Ask[r].symbol \in symbolCache.page THEN "ok"
                                ELSE "NOT_FOUND", Nothing, {}, FALSE))
       ELSE GoOn(r, "exists")
    /\ UNCHANGED <<now, listedAt, cache, symbolCache, countCache, errors>>

(* The cached page may be one of many: only a hit counts.                  *)
LookupInstrument(r) ==
    /\ Start(r)
    /\ IF Unexpired(symbolCache, now) /\ Ask[r].symbol \in symbolCache.page
       THEN Respond(r, Answered("ok", Nothing, {}, FALSE))
       ELSE GoOn(r, "exists")
    /\ UNCHANGED <<now, listedAt, cache, symbolCache, countCache, errors>>

SymbolExists(r) ==
    /\ pc[r] = "exists"
    /\ \/ /\ Respond(r, Answered(IF Ask[r].symbol \in Listed THEN "ok" ELSE "NOT_FOUND",
                                 Nothing, {}, FALSE))
          /\ UNCHANGED errors
       \/ QueryFails /\ Respond(r, InternalError)
    /\ UNCHANGED <<now, listedAt, cache, symbolCache, countCache, began>>

-----------------------------------------------------------------------------
Tick ==
    /\ now < MaxTime
    /\ now' = now + 1
    /\ UNCHANGED <<listedAt, cache, symbolCache, countCache, pc, began, got, page, answer, errors>>

(* The first quote of a symbol is written.                                 *)
List(s) ==
    /\ listedAt[s] = Never
    /\ listedAt' = [listedAt EXCEPT ![s] = now]
    /\ UNCHANGED <<now, cache, symbolCache, countCache, pc, began, got, page, answer, errors>>

ReadThrough(r) == Lookup(r) \/ Query(r) \/ QueryError(r) \/ Store(r)
Search(r) == SearchPage(r) \/ SearchCount(r) \/ ListSymbols(r) \/ ListError(r) \/ StoreList(r)

Next ==
    \/ \E r \in Cached : ReadThrough(r)
    \/ \E b \in Books : QuotesArrive(b)
    \/ \E r \in Searches : Search(r)
    \/ \E r \in Lookups : LookupInstrument(r) \/ SymbolExists(r)
    \/ \E s \in Symbols : List(s)
    \/ Tick

Spec == Init /\ [][Next]_vars

-----------------------------------------------------------------------------
(* Properties                                                              *)

(* The longest lifetime an entry of a kind is given.                       *)
Longest(kind) == Max(TTL[kind])

(* As long as ClickHouse answers, nothing a client is told is older than   *)
(* the lifetime of its cache, counted from the moment the client asked:    *)
(* a slow query that overwrites a newer entry does not prolong what it     *)
(* read (expiresAt is computed from the `now` taken before the query).     *)
AnswersAreFresh ==
    \A r \in Cached :
        answer[r].status # "none" /\ ~answer[r].stale =>
            \A i \in DOMAIN answer[r].data.read :
                answer[r].data.read[i] + Longest(Ask[r].kind) > began[r]

(* A symbol with quotes is never reported as unknown, whatever page the    *)
(* search has left in the cache; quotes and order books may overlook one   *)
(* for as long as a cached answer without it lives (GetInstrumentBySymbol  *)
(* asks ClickHouse unless it finds the symbol).                            *)
NoFalse404 ==
    /\ \A r \in Lookups :
          answer[r].status = "NOT_FOUND" =>
              listedAt[Ask[r].symbol] = Never \/ listedAt[Ask[r].symbol] >= began[r]
    /\ \A r \in Cached :
          answer[r].status = "NOT_FOUND" /\ ~answer[r].stale =>
              \A s \in Ask[r].symbols :
                  listedAt[s] = Never \/ listedAt[s] + Longest("quotes") >= began[r]

(* The cached page is the beginning of the list of symbols: between its    *)
(* first and its last symbol nothing is missing that ClickHouse had when   *)
(* the page was asked for (the comment at service.go:161: only the full    *)
(* unfiltered first page is cached).                                       *)
CachedPageIsFirst ==
    symbolCache # Empty =>
        \A s \in Symbols, t \in symbolCache.page :
            s < t =>
                \/ s \in symbolCache.page
                \/ listedAt[s] = Never
                \/ listedAt[s] + SymbolTTL >= symbolCache.until

=============================================================================
