---------------------------- MODULE MarketDataProofs ----------------------------
(***************************************************************************)
(* Theorems about the caches of market-data-service, for any requests in   *)
(* any order, any symbols, lifetimes and errors.                           *)
(*                                                                         *)
(* The argument: a request reads the clock before it reads anything else.  *)
(* What its queries return is therefore no older than that moment, an      *)
(* entry expires a lifetime after it at the latest, and a later request    *)
(* that finds the entry has begun before it expired.                       *)
(***************************************************************************)
EXTENDS MarketData, FiniteSetTheorems, SequenceTheorems, TLAPS

-----------------------------------------------------------------------------
(* A request at work                                                       *)

(* Who is not done has told nothing, and who does not fetch has nothing in *)
(* its hands.  Nobody begins in the future.                                *)
HandsEmpty(r) ==
    /\ pc[r] # "done" => answer[r] = NoAnswer
    /\ pc[r] \notin {"fetch", "store"} => got[r] = Nothing
    /\ began[r] <= now

(* What it has read is not older than itself, and it stores only what it   *)
(* has read completely.                                                    *)
ReadsAfterBegin(r) ==
    r \in Cached =>
        /\ \A i \in DOMAIN got[r].read : got[r].read[i] >= began[r]
        /\ pc[r] = "fetch" => Len(got[r].read) < Queries(Ask[r].kind)
        /\ pc[r] = "store" => Len(got[r].read) = Queries(Ask[r].kind)

(* A symbol it has not found had no quote at time t.                       *)
Overlooked(symbols, found, t) ==
    \A s \in symbols \ found : listedAt[s] = Never \/ listedAt[s] >= t

FindsQuotes(r) ==
    r \in Cached /\ Ask[r].kind = "quotes" /\ pc[r] = "store" =>
        Overlooked(Ask[r].symbols, got[r].found, began[r])

(* A page that may be kept is the beginning of the list.                   *)
IsHead(symbols, t) ==
    \A s \in Symbols, u \in symbols :
        s < u => s \in symbols \/ listedAt[s] = Never \/ listedAt[s] >= t

FindsHead(r) ==
    r \in Searches /\ pc[r] = "storelist" =>
        /\ page[r] \in SUBSET Symbols
        /\ Ask[r].query = Everything /\ Ask[r].offset = 0 => IsHead(page[r], began[r])

TellsFresh(r) ==
    r \in Cached /\ ~answer[r].stale =>
        \A i \in DOMAIN answer[r].data.read :
            answer[r].data.read[i] + Longest(Ask[r].kind) > began[r]

TellsNoFalse404(r) ==
    /\ r \in Lookups /\ answer[r].status = "NOT_FOUND" =>
          listedAt[Ask[r].symbol] = Never \/ listedAt[Ask[r].symbol] >= began[r]
    /\ r \in Cached /\ answer[r].status = "NOT_FOUND" /\ ~answer[r].stale =>
          \A s \in Ask[r].symbols :
              listedAt[s] = Never \/ listedAt[s] + Longest("quotes") >= began[r]

Promises(r) ==
    /\ HandsEmpty(r) /\ ReadsAfterBegin(r) /\ FindsQuotes(r) /\ FindsHead(r)
    /\ TellsFresh(r) /\ TellsNoFalse404(r)

(* The call inside an order book request begins after it.                  *)
InnerAfterOuter ==
    \A b \in Books :
        pc[Inner[b]] # "idle" => pc[b] # "idle" /\ began[b] <= began[Inner[b]]

-----------------------------------------------------------------------------
(* The caches                                                              *)

EntriesExpire ==
    \A k \in Keys :
        cache[k] # Empty =>
            /\ cache[k].until <= now + Longest(k[1])
            /\ \A i \in DOMAIN cache[k].data.read :
                  cache[k].until <= cache[k].data.read[i] + Longest(k[1])

QuotesExpire ==
    \A k \in Keys :
        cache[k] # Empty /\ k[1] = "quotes" =>
            Overlooked(k[2], cache[k].data.found, cache[k].until - Longest("quotes"))

PageExpires ==
    symbolCache # Empty =>
        /\ symbolCache.until <= now + SymbolTTL
        /\ IsHead(symbolCache.page, symbolCache.until - SymbolTTL)

CachesInv ==
    /\ TypeOK
    /\ \A r \in Requests : Promises(r)
    /\ InnerAfterOuter /\ EntriesExpire /\ QuotesExpire /\ PageExpires

-----------------------------------------------------------------------------
(* What the assumptions say                                                *)

LEMMA Lifetimes ==
    /\ \A kind \in {"quotes", "candles", "book"} :
          /\ Longest(kind) \in Nat \ {0}
          /\ \A ttl \in TTL[kind] : ttl \in Nat \ {0} /\ ttl <= Longest(kind)
    /\ Longest("quotes") <= Longest("book")
<1>1. ASSUME NEW kind \in {"quotes", "candles", "book"}
      PROVE  /\ TTL[kind] \subseteq Nat \ {0}
             /\ Longest(kind) \in TTL[kind] /\ \A ttl \in TTL[kind] : Longest(kind) >= ttl
  <2>1. TTL[kind] \subseteq Nat \ {0} /\ \E longest \in TTL[kind] : \A ttl \in TTL[kind] : longest >= ttl
    BY BoundsAssumption
  <2>2. Longest(kind) = CHOOSE x \in TTL[kind] : \A y \in TTL[kind] : x >= y
    BY DEF Longest, Max
  <2> QED
    BY <2>1, <2>2
<1>2. \A quotes \in TTL["quotes"], book \in TTL["book"] : quotes <= book
  BY BoundsAssumption
<1> QED
  BY <1>1, <1>2

Kinds == {"quotes", "candles", "book"}

LEMMA Asking ==
    /\ \A r \in Cached : r \in Requests /\ Ask[r].kind \in Kinds /\ Ask[r].symbols \subseteq Symbols
                         /\ Key(r) \in Keys /\ Key(r)[1] = Ask[r].kind /\ Key(r)[2] = Ask[r].symbols
    /\ \A k \in Keys : k[1] \in Kinds
    /\ \A b \in Books : /\ b \in Cached /\ Ask[b].kind = "book"
                        /\ Inner[b] \in Cached /\ Ask[Inner[b]].kind = "quotes" /\ Inner[b] # b
                        /\ Ask[Inner[b]].symbols = Ask[b].symbols
    /\ \A r \in Searches : /\ r \in Requests /\ r \notin Cached /\ r \notin Lookups
                           /\ Ask[r].limit \in Nat /\ Ask[r].offset \in Nat /\ SearchKey(r) \in SearchKeys
    /\ \A r \in Lookups : r \in Requests /\ r \notin Cached
  BY RequestsAssumption
     DEF Cached, Books, Searches, Lookups, RequestsFor, Key, Keys, SearchKey, SearchKeys, Kinds

Steps == {"idle", "quotes", "fetch", "store", "count", "list", "storelist", "exists", "done"}

Answers == [status : {"none", "ok", "NOT_FOUND", "INTERNAL_ERROR"},
            data : Snapshots, items : SUBSET Symbols, stale : BOOLEAN]

LEMMA Types ==
    ASSUME CachesInv
    PROVE  /\ now \in Nat /\ now <= MaxTime
           /\ listedAt \in [Symbols -> {Never} \cup Time] /\ Never \notin Nat
           /\ cache \in [Keys -> {Empty} \cup [data : Snapshots, until : Nat]]
           /\ symbolCache \in {Empty} \cup [page : SUBSET Symbols, until : Nat]
           /\ countCache \in [SearchKeys -> {Empty} \cup Nat]
           /\ pc \in [Requests -> Steps] /\ began \in [Requests -> Time]
           /\ got \in [Requests -> Snapshots] /\ page \in [Requests -> {Empty} \cup SUBSET Symbols]
           /\ answer \in [Requests -> Answers] /\ errors \in 0..MaxErrors
           /\ Nothing \in Snapshots
  BY BoundsAssumption DEF CachesInv, TypeOK, Steps, Answers, Time, Nothing, Snapshots

LEMMA Reads ==
    \A data \in Snapshots :
        /\ data.read \in Seq(Time) /\ DOMAIN data.read = 1..Len(data.read)
        /\ \A i \in DOMAIN data.read : data.read[i] \in Nat
  BY BoundsAssumption DEF Snapshots, Time

(* A request moves, and nothing of the other requests changes.             *)
Only(r) ==
    /\ pc' \in [Requests -> Steps] /\ began' \in [Requests -> Time]
    /\ got' \in [Requests -> Snapshots] /\ page' \in [Requests -> {Empty} \cup SUBSET Symbols]
    /\ answer' \in [Requests -> Answers]
    /\ \A q \in Requests \ {r} :
          /\ pc'[q] = pc[q] /\ began'[q] = began[q] /\ got'[q] = got[q]
          /\ page'[q] = page[q] /\ answer'[q] = answer[q]

Begins(r) == began' = [began EXCEPT ![r] = now]

LEMMA Responding ==
    ASSUME CachesInv, NEW r \in Requests, NEW a \in Answers, Respond(r, a), Begins(r) \/ UNCHANGED began
    PROVE  /\ Only(r) /\ pc'[r] = "done" /\ answer'[r] = a /\ got'[r] = Nothing
           /\ Begins(r) => began'[r] = now
  BY Types DEF Respond, Goto, Only, Begins, Steps, Time

LEMMA GoingOn ==
    ASSUME CachesInv, NEW r \in Requests, NEW step \in Steps, GoOn(r, step), Begins(r) \/ UNCHANGED began
    PROVE  /\ Only(r) /\ pc'[r] = step /\ UNCHANGED <<answer, got, page>>
           /\ Begins(r) => began'[r] = now
  BY Types DEF GoOn, Goto, Only, Begins, Time

(* The answers there are.                                                  *)
LEMMA Answering ==
    /\ InternalError \in Answers /\ NoAnswer \in Answers
    /\ InternalError.status = "INTERNAL_ERROR" /\ InternalError.data = Nothing
    /\ \A status \in {"ok", "NOT_FOUND"}, items \in SUBSET Symbols, stale \in BOOLEAN :
          LET a == Answered(status, Nothing, items, stale) IN
          a \in Answers /\ a.status = status /\ a.data = Nothing /\ a.stale = stale
    /\ \A r \in Cached, data \in Snapshots, stale \in BOOLEAN :
          LET a == Cacheable(r, data, stale) IN
          /\ a \in Answers /\ a.data = data /\ a.stale = stale /\ a.status \in {"ok", "NOT_FOUND"}
          /\ a.status = "NOT_FOUND" => Ask[r].kind = "quotes" /\ data.found = {}
<1>1. Nothing \in Snapshots
  BY DEF Nothing, Snapshots
<1> QED
  BY <1>1 DEF InternalError, NoAnswer, Answered, Cacheable, Answers

(* A request that moves keeps its own promises, and those of the others    *)
(* are not touched.                                                        *)
LEMMA OthersKeep ==
    ASSUME CachesInv, NEW r \in Requests, Only(r), UNCHANGED <<now, listedAt>>, Promises(r)'
    PROVE  \A q \in Requests : Promises(q)'
<1> SUFFICES ASSUME NEW q \in Requests, q # r PROVE Promises(q)'
  OBVIOUS
<1>1. Promises(q)
  BY DEF CachesInv
<1>2. /\ pc'[q] = pc[q] /\ began'[q] = began[q] /\ got'[q] = got[q]
      /\ page'[q] = page[q] /\ answer'[q] = answer[q]
  BY DEF Only
<1> QED
  BY <1>1, <1>2 DEF Promises, HandsEmpty, ReadsAfterBegin, FindsQuotes, FindsHead, TellsFresh,
                    TellsNoFalse404, Overlooked, IsHead

(* An answer that ends a request is all it still promises.                 *)
LEMMA PromisesOfAnswer ==
    ASSUME CachesInv, NEW r \in Requests, NEW a \in Answers, UNCHANGED <<now, listedAt>>,
           Only(r), pc'[r] = "done", answer'[r] = a, got'[r] = Nothing, began'[r] <= now,
           r \in Cached /\ ~a.stale =>
               /\ \A i \in DOMAIN a.data.read : a.data.read[i] + Longest(Ask[r].kind) > began'[r]
               /\ a.status = "NOT_FOUND" =>
                     \A s \in Ask[r].symbols :
                         listedAt[s] = Never \/ listedAt[s] + Longest("quotes") >= began'[r],
           r \in Lookups /\ a.status = "NOT_FOUND" =>
               listedAt[Ask[r].symbol] = Never \/ listedAt[Ask[r].symbol] >= began'[r]
    PROVE  \A q \in Requests : Promises(q)'
<1>1. HandsEmpty(r)' /\ FindsQuotes(r)' /\ FindsHead(r)'
  BY DEF HandsEmpty, FindsQuotes, FindsHead
<1>2. ReadsAfterBegin(r)'
  BY DEF ReadsAfterBegin, Nothing
<1>3. TellsFresh(r)' /\ TellsNoFalse404(r)'
  BY DEF TellsFresh, TellsNoFalse404
<1> QED
  BY <1>1, <1>2, <1>3, OthersKeep DEF Promises

(* A request that has answered nothing promises what it has in its hands.  *)
LEMMA PromisesOfWork ==
    ASSUME CachesInv, NEW r \in Requests, UNCHANGED <<now, listedAt>>,
           Only(r), pc'[r] # "done", answer'[r] = NoAnswer,
           HandsEmpty(r)', ReadsAfterBegin(r)', FindsQuotes(r)', FindsHead(r)'
    PROVE  \A q \in Requests : Promises(q)'
<1>1. NoAnswer.data.read = <<>> /\ NoAnswer.status = "none"
  BY DEF NoAnswer, Answered, Nothing
<1>2. TellsFresh(r)' /\ TellsNoFalse404(r)'
  BY <1>1 DEF TellsFresh, TellsNoFalse404
<1> QED
  BY <1>2, OthersKeep DEF Promises

(* A step that leaves the caches alone.                                    *)
LEMMA CachesFrame ==
    ASSUME CachesInv, NEW r \in Requests, Only(r), errors' \in 0..MaxErrors,
           UNCHANGED <<now, listedAt, cache, symbolCache, countCache>>
    PROVE  TypeOK' /\ EntriesExpire' /\ QuotesExpire' /\ PageExpires'
<1>1. TypeOK'
  BY DEF CachesInv, TypeOK, Only, Steps, Answers
<1> QED
  BY <1>1 DEF CachesInv, EntriesExpire, QuotesExpire, PageExpires, Overlooked, IsHead

(* Whoever has begun stays where it began.                                 *)
LEMMA OrderFrame ==
    ASSUME CachesInv, NEW r \in Requests, Only(r), pc[r] # "idle", pc'[r] # "idle", UNCHANGED began
    PROVE  InnerAfterOuter'
<1>1. \A q \in Requests : (pc'[q] = "idle") = (pc[q] = "idle")
  BY DEF Only
<1> QED
  BY <1>1, Asking DEF CachesInv, InnerAfterOuter

(* Whoever begins does so after those that wait for it.                    *)
LEMMA LookupOrders ==
    ASSUME CachesInv, NEW r \in Requests, Only(r), pc[r] = "idle", pc'[r] # "idle", began'[r] = now,
           r \in InnerCalls => Called(r)
    PROVE  InnerAfterOuter'
<1> SUFFICES ASSUME NEW b \in Books, pc'[Inner[b]] # "idle"
             PROVE  pc'[b] # "idle" /\ began'[b] <= began'[Inner[b]]
  BY DEF InnerAfterOuter
<1>1. b \in Requests /\ Inner[b] \in Requests /\ Inner[b] # b
  BY Asking
<1>2. began[b] <= now /\ (pc[Inner[b]] # "idle" => pc[b] # "idle" /\ began[b] <= began[Inner[b]])
  BY <1>1 DEF CachesInv, InnerAfterOuter, Promises, HandsEmpty
<1>3. CASE r = Inner[b]
  <2>1. pc[b] = "quotes"
    BY <1>3 DEF InnerCalls, Called
  <2> QED
    BY <1>1, <1>2, <1>3, <2>1 DEF Only
<1>4. CASE r # Inner[b]
  <2>1. pc[Inner[b]] # "idle" /\ b # r
    BY <1>1, <1>2, <1>4 DEF Only
  <2> QED
    BY <1>1, <1>2, <1>4, <2>1 DEF Only
<1> QED
  BY <1>3, <1>4

-----------------------------------------------------------------------------
(* Quotes, candles and order books                                         *)

(* A hit is younger than its lifetime; a miss begins to work.              *)
LEMMA LookupKeeps ==
    ASSUME CachesInv, NEW r \in Cached, Lookup(r)
    PROVE  CachesInv'
<1> DEFINE entry == cache[Key(r)]
<1>1. /\ r \in Requests /\ Key(r) \in Keys /\ Key(r)[1] = Ask[r].kind /\ Key(r)[2] = Ask[r].symbols
      /\ Ask[r].kind \in Kinds
      /\ pc[r] = "idle" /\ answer[r] = NoAnswer /\ got[r] = Nothing /\ Begins(r) /\ Called(r)
      /\ UNCHANGED <<now, listedAt, cache, symbolCache, countCache, errors>> /\ errors \in 0..MaxErrors
  BY Asking, Types DEF Lookup, Start, Begins, CachesInv, Promises, HandsEmpty
<1>2. CASE Unexpired(entry, now)
  <2>1. /\ entry # Empty /\ now < entry.until /\ entry.data \in Snapshots
    BY <1>1, <1>2, Types DEF Unexpired
  <2> DEFINE a == Cacheable(r, entry.data, FALSE)
  <2>2. a \in Answers /\ a.data = entry.data
        /\ (a.status = "NOT_FOUND" => Ask[r].kind = "quotes" /\ entry.data.found = {})
    <3>1. entry.data \in Snapshots /\ FALSE \in BOOLEAN
      BY <2>1
    <3> HIDE DEF entry
    <3> QED
      BY ONLY <3>1, r \in Cached, Answering, ZenonT(40) DEF a
  <2>3. Only(r) /\ pc'[r] = "done" /\ answer'[r] = a /\ got'[r] = Nothing /\ began'[r] = now
    BY <1>1, <1>2, <2>2, Responding DEF Lookup
  <2> HIDE DEF a
  <2>4. \A i \in DOMAIN a.data.read : a.data.read[i] + Longest(Ask[r].kind) > began'[r]
    <3>1. \A i \in DOMAIN entry.data.read :
             entry.data.read[i] \in Nat /\ entry.until <= entry.data.read[i] + Longest(Ask[r].kind)
      BY <1>1, <2>1, Reads DEF CachesInv, EntriesExpire
    <3>2. entry.until \in Nat /\ now \in Nat /\ Longest(Ask[r].kind) \in Nat
      BY <1>1, <2>1, Types, Lifetimes DEF Kinds
    <3>3. a.data.read = entry.data.read /\ now < entry.until /\ began'[r] = now
      BY <2>1, <2>2, <2>3
    <3> HIDE DEF entry
    <3> QED
      BY ONLY <3>1, <3>2, <3>3
  <2>5. ASSUME a.status = "NOT_FOUND", NEW s \in Ask[r].symbols
        PROVE  listedAt[s] = Never \/ listedAt[s] + Longest("quotes") >= began'[r]
    <3>1. listedAt[s] = Never \/ listedAt[s] >= entry.until - Longest("quotes")
      BY <1>1, <2>1, <2>2, <2>5 DEF CachesInv, QuotesExpire, Overlooked
    <3>2. entry.until \in Nat /\ listedAt[s] \in {Never} \cup Nat /\ Longest("quotes") \in Nat
      BY <1>1, <2>1, Types, Lifetimes, Asking DEF Time
    <3> QED
      BY <1>1, <2>1, <2>3, <3>1, <3>2, Types
  <2>6. r \notin Lookups
    BY Asking
  <2>7. began'[r] <= now
    BY <2>3, Types
  <2>8. \A q \in Requests : Promises(q)'
    BY <1>1, <2>2, <2>3, <2>4, <2>5, <2>6, <2>7, PromisesOfAnswer
  <2>9. pc'[r] # "idle" /\ began'[r] = now
    BY <2>3
  <2> QED
    BY <1>1, <2>3, <2>8, <2>9, CachesFrame, LookupOrders DEF CachesInv
<1>3. CASE ~Unexpired(entry, now)
  <2>1. PICK step \in {"quotes", "fetch"} : GoOn(r, step)
    BY <1>3 DEF Lookup
  <2>2. Only(r) /\ pc'[r] = step /\ UNCHANGED <<answer, got, page>> /\ began'[r] = now
    BY <1>1, <2>1, GoingOn DEF Steps
  <2>3. HandsEmpty(r)' /\ FindsQuotes(r)' /\ FindsHead(r)'
    BY <1>1, <2>2, Types, Asking DEF HandsEmpty, FindsQuotes, FindsHead
  <2>4. ReadsAfterBegin(r)'
    <3>1. Len(got'[r].read) = 0 /\ DOMAIN got'[r].read = {} /\ Queries(Ask[r].kind) \in {1, 2}
      BY <1>1, <2>2 DEF Nothing, Queries
    <3> QED
      BY <2>2, <3>1 DEF ReadsAfterBegin
  <2>5. \A q \in Requests : Promises(q)'
    BY <1>1, <2>2, <2>3, <2>4, PromisesOfWork
  <2> QED
    BY <1>1, <2>2, <2>5, CachesFrame, LookupOrders DEF CachesInv
<1> QED
  BY <1>2, <1>3

(* The answer of the call inside is the answer of an order book request.   *)
LEMMA QuotesArriveKeeps ==
    ASSUME CachesInv, NEW b \in Books, QuotesArrive(b)
    PROVE  CachesInv'
<1> DEFINE i == Inner[b]
<1>1. /\ b \in Requests /\ b \in Cached /\ i \in Requests /\ i \in Cached /\ i # b
      /\ Ask[b].kind = "book" /\ Ask[i].kind = "quotes" /\ Ask[i].symbols = Ask[b].symbols
      /\ Ask[b].symbols \subseteq Symbols
      /\ pc[b] = "quotes" /\ pc[i] = "done" /\ answer[b] = NoAnswer /\ got[b] = Nothing
      /\ UNCHANGED <<now, listedAt, cache, symbolCache, countCache, errors, began>> /\ errors \in 0..MaxErrors
  BY Asking, Types DEF QuotesArrive, CachesInv, Promises, HandsEmpty
<1>2. began[b] \in Nat /\ began[i] \in Nat /\ began[b] <= began[i] /\ began[b] <= now
  BY <1>1, Types DEF CachesInv, InnerAfterOuter, Promises, HandsEmpty, Time
<1>3. CASE answer[i].status = "ok"
  <2>1. Only(b) /\ pc'[b] = "fetch" /\ UNCHANGED <<answer, got, page>>
    BY <1>1, <1>3, GoingOn DEF QuotesArrive, Steps
  <2>2. HandsEmpty(b)' /\ FindsQuotes(b)' /\ FindsHead(b)'
    BY <1>1, <1>2, <2>1, Asking DEF HandsEmpty, FindsQuotes, FindsHead
  <2>3. ReadsAfterBegin(b)'
    <3>1. Len(got'[b].read) = 0 /\ DOMAIN got'[b].read = {} /\ Queries(Ask[b].kind) = 2
      BY <1>1, <2>1 DEF Nothing, Queries
    <3> QED
      BY <2>1, <3>1 DEF ReadsAfterBegin
  <2>4. \A q \in Requests : Promises(q)'
    BY <1>1, <2>1, <2>2, <2>3, PromisesOfWork
  <2> QED
    BY <1>1, <2>1, <2>4, CachesFrame, OrderFrame DEF CachesInv
<1>4. CASE answer[i].status # "ok"
  <2> DEFINE a == answer[i]
  <2>1. a \in Answers /\ Respond(b, a)
    BY <1>1, <1>4, Types DEF QuotesArrive
  <2>2. Only(b) /\ pc'[b] = "done" /\ answer'[b] = a /\ got'[b] = Nothing
    BY <1>1, <2>1, Responding
  <2>3. ~a.stale => \A j \in DOMAIN a.data.read : a.data.read[j] + Longest("book") > began[b]
    <3>1. ~a.stale => \A j \in DOMAIN a.data.read :
              a.data.read[j] \in Nat /\ a.data.read[j] + Longest("quotes") > began[i]
      <4>1. a.data \in Snapshots
        BY <2>1 DEF Answers
      <4> QED
        BY <1>1, <4>1, Reads DEF CachesInv, Promises, TellsFresh
    <3> QED
      BY <1>2, <3>1, Lifetimes
  <2>4. ~a.stale /\ a.status = "NOT_FOUND" =>
           \A s \in Ask[b].symbols : listedAt[s] = Never \/ listedAt[s] + Longest("quotes") >= began[b]
    <3>1. ~a.stale /\ a.status = "NOT_FOUND" =>
             \A s \in Ask[b].symbols : listedAt[s] = Never \/ listedAt[s] + Longest("quotes") >= began[i]
      BY <1>1 DEF CachesInv, Promises, TellsNoFalse404
    <3>2. \A s \in Ask[b].symbols : listedAt[s] \in {Never} \cup Nat
      BY <1>1, Types DEF Time
    <3> QED
      BY <1>2, <3>1, <3>2, Lifetimes
  <2>5. b \notin Lookups
    BY Asking
  <2>6. \A q \in Requests : Promises(q)'
    BY <1>1, <1>2, <2>1, <2>2, <2>3, <2>4, <2>5, PromisesOfAnswer
  <2> QED
    BY <1>1, <2>2, <2>6, CachesFrame, OrderFrame DEF CachesInv
<1> QED
  BY <1>3, <1>4

(* ClickHouse answers a query with what it has at this moment.             *)
LEMMA QueryKeeps ==
    ASSUME CachesInv, NEW r \in Cached, Query(r)
    PROVE  CachesInv'
<1> DEFINE found == Listed \cap Ask[r].symbols
           read == Append(got[r].read, now)
           step == IF Len(got[r].read) + 1 = Queries(Ask[r].kind) THEN "store" ELSE "fetch"
<1>1. /\ r \in Requests /\ Ask[r].kind \in Kinds /\ pc[r] = "fetch" /\ answer[r] = NoAnswer
      /\ UNCHANGED <<now, listedAt, cache, symbolCache, countCache, errors, began, page, answer>>
      /\ errors \in 0..MaxErrors /\ began[r] \in Nat /\ began[r] <= now /\ now \in Nat /\ now \in Time
      /\ r \notin Searches
  BY Asking, Types DEF Query, CachesInv, TypeOK, Promises, HandsEmpty, Time
<1>2. /\ got[r].read \in Seq(Time) /\ Len(got[r].read) \in Nat /\ Queries(Ask[r].kind) \in {1, 2}
      /\ Len(got[r].read) < Queries(Ask[r].kind)
      /\ \A i \in 1..Len(got[r].read) : got[r].read[i] >= began[r]
  BY <1>1, Types, Reads DEF Queries, CachesInv, Promises, ReadsAfterBegin
<1>3. /\ read \in Seq(Time) /\ Len(read) = Len(got[r].read) + 1 /\ DOMAIN read = 1..Len(read)
      /\ \A i \in 1..Len(read) : read[i] >= began[r]
  BY <1>1, <1>2
<1>4. /\ Only(r) /\ pc'[r] = step /\ got'[r].read = read /\ got'[r].found = found
  <2>1. [read |-> read, found |-> found] \in Snapshots
    BY <1>3 DEF Snapshots, Listed
  <2>2. got' = [got EXCEPT ![r] = [read |-> read, found |-> found]] /\ pc' = [pc EXCEPT ![r] = step]
    BY DEF Query, Goto
  <2> HIDE DEF read, found
  <2> QED
    BY <1>1, <2>1, <2>2, Types DEF Only, Steps
<1>5. Overlooked(Ask[r].symbols, found, began[r])
  BY <1>1, Asking DEF Overlooked, Listed
<1> HIDE DEF found, read
<1>6. HandsEmpty(r)' /\ FindsHead(r)'
  BY <1>1, <1>4 DEF HandsEmpty, FindsHead
<1>7. FindsQuotes(r)'
  BY <1>1, <1>4, <1>5 DEF FindsQuotes, Overlooked
<1>8. ReadsAfterBegin(r)'
  BY <1>1, <1>2, <1>3, <1>4 DEF ReadsAfterBegin
<1>9. \A q \in Requests : Promises(q)'
  BY <1>1, <1>4, <1>6, <1>7, <1>8, PromisesOfWork
<1> QED
  BY <1>1, <1>4, <1>9, CachesFrame, OrderFrame DEF CachesInv

(* An error is answered with what there is, however old.                   *)
LEMMA QueryErrorKeeps ==
    ASSUME CachesInv, NEW r \in Cached, QueryError(r)
    PROVE  CachesInv'
<1>1. /\ r \in Requests /\ Key(r) \in Keys /\ pc[r] = "fetch" /\ r \notin Lookups
      /\ UNCHANGED <<now, listedAt, cache, symbolCache, countCache, began>>
      /\ errors' \in 0..MaxErrors /\ began[r] <= now
  BY Asking, Types, BoundsAssumption DEF QueryError, QueryFails, CachesInv, Promises, HandsEmpty
<1>2. PICK a \in Answers : /\ Respond(r, a)
                           /\ a.stale \/ (a.status = "INTERNAL_ERROR" /\ a.data = Nothing)
  <2>1. CASE cache[Key(r)] = Empty
    BY <2>1, Answering DEF QueryError
  <2>2. CASE cache[Key(r)] # Empty
    <3>1. cache[Key(r)].data \in Snapshots
      BY <1>1, <2>2, Types
    <3> DEFINE b == Cacheable(r, cache[Key(r)].data, TRUE)
    <3>2. b \in Answers /\ b.stale
      BY <3>1, Answering
    <3>3. Respond(r, b)
      BY <2>2 DEF QueryError
    <3> HIDE DEF b
    <3> QED
      BY <3>2, <3>3
  <2> QED
    BY <2>1, <2>2
<1>3. Only(r) /\ pc'[r] = "done" /\ answer'[r] = a /\ got'[r] = Nothing
  BY <1>1, <1>2, Responding
<1>4. \A q \in Requests : Promises(q)'
  BY <1>1, <1>2, <1>3, PromisesOfAnswer DEF Nothing
<1> QED
  BY <1>1, <1>3, <1>4, CachesFrame, OrderFrame DEF CachesInv

(* A new entry expires a lifetime after the request that read it began.    *)
LEMMA StoreKeeps ==
    ASSUME CachesInv, NEW r \in Cached, Store(r)
    PROVE  CachesInv'
<1> DEFINE data == got[r]
           a == Cacheable(r, data, FALSE)
<1>1. /\ r \in Requests /\ Key(r) \in Keys /\ Key(r)[1] = Ask[r].kind /\ Key(r)[2] = Ask[r].symbols
      /\ Ask[r].kind \in Kinds /\ pc[r] = "store" /\ r \notin Lookups
      /\ UNCHANGED <<now, listedAt, symbolCache, countCache, errors, began>>
      /\ data \in Snapshots /\ began[r] \in Nat /\ began[r] <= now /\ now \in Nat
  BY Asking, Types DEF Store, CachesInv, Promises, HandsEmpty, Time
<1>2. /\ Len(data.read) = Queries(Ask[r].kind)
      /\ \A i \in DOMAIN data.read : data.read[i] \in Nat /\ data.read[i] >= began[r]
      /\ Ask[r].kind = "quotes" => Overlooked(Ask[r].symbols, data.found, began[r])
  BY <1>1, Reads DEF CachesInv, Promises, ReadsAfterBegin, FindsQuotes
<1>3. PICK until \in Expiry(r) :
          cache' = [cache EXCEPT ![Key(r)] = [data |-> data, until |-> until]] /\ Respond(r, a)
  BY DEF Store
<1>4. /\ until \in Nat /\ until <= began[r] + Longest(Ask[r].kind)
      /\ Longest(Ask[r].kind) \in Nat \ {0}
  BY <1>1, <1>3, Lifetimes DEF Expiry, Kinds
<1>5. a \in Answers /\ a.data = data
      /\ (a.status = "NOT_FOUND" => Ask[r].kind = "quotes" /\ data.found = {})
  BY <1>1, Answering, ZenonT(40)
<1>6. Only(r) /\ pc'[r] = "done" /\ answer'[r] = a /\ got'[r] = Nothing
  BY <1>1, <1>3, <1>5, Responding
<1>7. \A s \in Ask[r].symbols : listedAt[s] \in {Never} \cup Nat
  BY Types, Asking DEF Time
<1> HIDE DEF a, data
<1>8. \A q \in Requests : Promises(q)'
  <2>1. \A i \in DOMAIN a.data.read : a.data.read[i] + Longest(Ask[r].kind) > began[r]
    <3>1. a.data.read = data.read
      BY <1>5
    <3> QED
      BY ONLY <1>1, <1>2, <1>4, <3>1
  <2>2. ASSUME a.status = "NOT_FOUND", NEW s \in Ask[r].symbols
        PROVE  listedAt[s] = Never \/ listedAt[s] + Longest("quotes") >= began[r]
    <3>1. listedAt[s] = Never \/ listedAt[s] >= began[r]
      BY <1>2, <1>5, <2>2 DEF Overlooked
    <3> QED
      BY <1>1, <1>4, <1>5, <1>7, <2>2, <3>1
  <2> QED
    BY <1>1, <1>5, <1>6, <2>1, <2>2, PromisesOfAnswer
<1>9. cache' \in [Keys -> {Empty} \cup [data : Snapshots, until : Nat]]
  BY <1>1, <1>3, <1>4, Types
<1>10. cache'[Key(r)] = [data |-> data, until |-> until]
       /\ \A k \in Keys \ {Key(r)} : cache'[k] = cache[k]
  BY <1>1, <1>3, Types
<1>11. TypeOK'
  <2>1. \A k \in Keys : cache'[k] # Empty => Len(cache'[k].data.read) = Queries(k[1])
    <3>1. \A k \in Keys : cache[k] # Empty => Len(cache[k].data.read) = Queries(k[1])
      BY DEF CachesInv, TypeOK
    <3>2. cache'[Key(r)].data.read = data.read
      BY <1>10
    <3> QED
      BY <1>1, <1>2, <1>10, <3>1, <3>2
  <2> QED
    BY <1>1, <1>6, <1>9, <2>1 DEF CachesInv, TypeOK, Only, Steps, Answers
<1>12. EntriesExpire'
  <2> SUFFICES ASSUME NEW k \in Keys, cache'[k] # Empty
               PROVE  /\ cache'[k].until <= now + Longest(k[1])
                      /\ \A i \in DOMAIN cache'[k].data.read :
                            cache'[k].until <= cache'[k].data.read[i] + Longest(k[1])
    BY <1>1 DEF EntriesExpire
  <2>1. CASE k = Key(r)
    <3>1. cache'[k].until = until /\ cache'[k].data.read = data.read /\ k[1] = Ask[r].kind
      BY <1>1, <1>10, <2>1
    <3> QED
      BY ONLY <1>1, <1>2, <1>4, <3>1
  <2>2. CASE k # Key(r)
    BY <1>10, <2>2 DEF CachesInv, EntriesExpire
  <2> QED
    BY <2>1, <2>2
<1>13. QuotesExpire'
  <2> SUFFICES ASSUME NEW k \in Keys, cache'[k] # Empty, k[1] = "quotes"
               PROVE  Overlooked(k[2], cache'[k].data.found, cache'[k].until - Longest("quotes"))
    BY <1>1 DEF QuotesExpire, Overlooked
  <2>1. CASE k = Key(r)
    <3>1. /\ cache'[k].until = until /\ cache'[k].data.found = data.found
          /\ k[2] = Ask[r].symbols /\ Ask[r].kind = "quotes"
      BY <1>1, <1>10, <2>1
    <3>2. ASSUME NEW s \in Ask[r].symbols \ data.found
          PROVE  listedAt[s] = Never \/ listedAt[s] >= until - Longest("quotes")
      <4>1. listedAt[s] = Never \/ listedAt[s] >= began[r]
        BY <1>2, <3>1 DEF Overlooked
      <4> QED
        BY <1>1, <1>4, <1>7, <3>1, <4>1
    <3> QED
      BY <3>1, <3>2 DEF Overlooked
  <2>2. CASE k # Key(r)
    BY <1>10, <2>2 DEF CachesInv, QuotesExpire
  <2> QED
    BY <2>1, <2>2
<1>14. PageExpires'
  BY <1>1 DEF CachesInv, PageExpires, IsHead
<1> QED
  BY <1>1, <1>6, <1>8, <1>11, <1>12, <1>13, <1>14, OrderFrame DEF CachesInv

-----------------------------------------------------------------------------
(* Searches and instruments                                                *)

(* Nothing before a member of a first page is missing from it.             *)
LEMMA FirstPageIsHead ==
    ASSUME NEW symbols \in SUBSET Symbols, NEW r \in Searches, Ask[r].offset = 0,
           NEW t \in Clipped(symbols, r), NEW s \in symbols, s < t
    PROVE  s \in Clipped(symbols, r)
<1> DEFINE before(u) == {v \in symbols : v < u}
<1>1. symbols \subseteq Nat /\ IsFiniteSet(symbols)
  BY FS_Subset, RequestsAssumption
<1>2. IsFiniteSet(before(t)) /\ before(s) \subseteq before(t)
  <2>1. before(t) \subseteq symbols
    OBVIOUS
  <2>2. t \in Nat /\ s \in Nat
    BY <1>1 DEF Clipped
  <2>3. IsFiniteSet(before(t))
    <3> HIDE DEF before
    <3> QED
      BY <1>1, <2>1, FS_Subset
  <2>4. ASSUME NEW v \in symbols, v < s PROVE v < t
    BY <1>1, <2>2, <2>4
  <2> QED
    BY <2>3, <2>4
<1>3. /\ Cardinality(before(s)) \in Nat /\ Cardinality(before(t)) \in Nat
      /\ Cardinality(before(s)) <= Cardinality(before(t))
  <2>1. IsFiniteSet(before(s)) /\ Cardinality(before(s)) <= Cardinality(before(t))
    BY <1>2, FS_Subset
  <2> QED
    BY <1>2, <2>1, FS_CardinalityType
<1>4. Cardinality(before(t)) \in Ask[r].offset .. Ask[r].offset + Ask[r].limit - 1
  BY DEF Clipped
<1>5. Cardinality(before(s)) \in Ask[r].offset .. Ask[r].offset + Ask[r].limit - 1
  <2>1. Ask[r].offset \in Nat /\ Ask[r].limit \in Nat /\ Ask[r].offset = 0
    BY Asking
  <2>2. \A m, n, o, l \in Nat : o = 0 /\ m <= n /\ n \in o .. o + l - 1 => m \in o .. o + l - 1
    OBVIOUS
  <2> HIDE DEF before
  <2> QED
    BY ONLY <1>3, <1>4, <2>1, <2>2, Zenon
<1> QED
  BY <1>5 DEF Clipped

LEMMA ClippedIsPart ==
    ASSUME NEW symbols \in SUBSET Symbols, NEW r PROVE Clipped(symbols, r) \in SUBSET Symbols
  BY DEF Clipped

(* An answer to a search or an instrument ends it.                         *)
LEMMA SearchAnswered ==
    ASSUME CachesInv, NEW r \in Searches \cup Lookups, NEW a \in Answers, Respond(r, a),
           UNCHANGED <<now, listedAt, began>>, pc[r] # "idle",
           r \in Searches \/ a.status # "NOT_FOUND" \/ listedAt[Ask[r].symbol] = Never
    PROVE  Only(r) /\ InnerAfterOuter' /\ \A q \in Requests : Promises(q)'
<1>1. r \in Requests /\ r \notin Cached /\ began[r] <= now /\ (r \in Searches => r \notin Lookups)
  BY Asking DEF CachesInv, Promises, HandsEmpty
<1>2. Only(r) /\ pc'[r] = "done" /\ answer'[r] = a /\ got'[r] = Nothing
  BY <1>1, Responding
<1>3. \A q \in Requests : Promises(q)'
  BY <1>1, <1>2, PromisesOfAnswer
<1> QED
  BY <1>1, <1>2, <1>3, OrderFrame

(* A search looks at the cached page.                                      *)
LEMMA SearchPageKeeps ==
    ASSUME CachesInv, NEW r \in Searches, SearchPage(r)
    PROVE  CachesInv'
<1>1. /\ r \in Requests /\ r \notin Cached /\ pc[r] = "idle" /\ answer[r] = NoAnswer /\ got[r] = Nothing
      /\ Begins(r) /\ UNCHANGED <<now, listedAt, cache, symbolCache, countCache, got, answer, errors>>
      /\ errors \in 0..MaxErrors /\ now \in Nat /\ now \in Time
  BY Asking, Types DEF SearchPage, Start, Begins, CachesInv, TypeOK, Promises, HandsEmpty
<1>2. Only(r) /\ pc'[r] = "count" /\ began'[r] = now
  <2>1. PICK shown \in {Empty} \cup SUBSET Symbols : page' = [page EXCEPT ![r] = shown]
    BY Types DEF SearchPage, Unexpired
  <2> QED
    BY <1>1, <2>1, Types DEF SearchPage, Goto, Begins, Only, Steps
<1>3. r \notin InnerCalls
  BY <1>1, Asking DEF InnerCalls
<1>4. HandsEmpty(r)' /\ ReadsAfterBegin(r)' /\ FindsQuotes(r)' /\ FindsHead(r)'
  BY <1>1, <1>2 DEF HandsEmpty, ReadsAfterBegin, FindsQuotes, FindsHead
<1>5. \A q \in Requests : Promises(q)'
  BY <1>1, <1>2, <1>4, PromisesOfWork
<1> QED
  BY <1>1, <1>2, <1>3, <1>5, CachesFrame, LookupOrders DEF CachesInv

(* It is answered from that page, or goes on.                              *)
LEMMA SearchCountKeeps ==
    ASSUME CachesInv, NEW r \in Searches, SearchCount(r)
    PROVE  CachesInv'
<1>1. /\ r \in Requests /\ r \notin Cached /\ pc[r] = "count" /\ answer[r] = NoAnswer /\ got[r] = Nothing
      /\ UNCHANGED <<now, listedAt, cache, symbolCache, countCache, began, errors>>
      /\ errors \in 0..MaxErrors /\ began[r] <= now
  BY Asking, Types DEF SearchCount, CachesInv, Promises, HandsEmpty
<1>2. CASE GoOn(r, "list")
  <2>1. Only(r) /\ pc'[r] = "list" /\ UNCHANGED <<answer, got, page>>
    BY <1>1, <1>2, GoingOn DEF Steps
  <2>2. HandsEmpty(r)' /\ ReadsAfterBegin(r)' /\ FindsQuotes(r)' /\ FindsHead(r)'
    BY <1>1, <2>1 DEF HandsEmpty, ReadsAfterBegin, FindsQuotes, FindsHead
  <2>3. \A q \in Requests : Promises(q)'
    BY <1>1, <2>1, <2>2, PromisesOfWork
  <2> QED
    BY <1>1, <2>1, <2>3, CachesFrame, OrderFrame DEF CachesInv
<1>3. CASE page[r] # Empty /\ Respond(r, Answered("ok", Nothing, Clipped(page[r], r), FALSE))
  <2>1. Clipped(page[r], r) \in SUBSET Symbols
    BY <1>1, <1>3, Types, ClippedIsPart
  <2>2. Answered("ok", Nothing, Clipped(page[r], r), FALSE) \in Answers
    BY <2>1, Answering
  <2>3. Only(r) /\ InnerAfterOuter' /\ \A q \in Requests : Promises(q)'
    BY <1>1, <1>3, <2>2, SearchAnswered
  <2> QED
    BY <1>1, <2>3, CachesFrame DEF CachesInv
<1> QED
  BY <1>2, <1>3 DEF SearchCount

(* A first page of everything is the beginning of the list.                *)
LEMMA ListSymbolsKeeps ==
    ASSUME CachesInv, NEW r \in Searches, ListSymbols(r)
    PROVE  CachesInv'
<1>1. /\ r \in Requests /\ r \notin Cached /\ pc[r] = "list" /\ answer[r] = NoAnswer /\ got[r] = Nothing
      /\ UNCHANGED <<now, listedAt, cache, symbolCache, countCache, began, got, answer, errors>>
      /\ errors \in 0..MaxErrors /\ began[r] <= now
  BY Asking, Types DEF ListSymbols, CachesInv, Promises, HandsEmpty
<1>2. Found(r) \in SUBSET Symbols
  BY ClippedIsPart DEF Found, Listed
<1>3. Only(r) /\ pc'[r] = "storelist" /\ page'[r] = Found(r)
  BY <1>1, <1>2, Types DEF ListSymbols, Goto, Only, Steps
<1>4. Ask[r].query = Everything /\ Ask[r].offset = 0 => IsHead(Found(r), began[r])
  <2> SUFFICES ASSUME Ask[r].query = Everything, Ask[r].offset = 0,
                      NEW s \in Symbols, NEW u \in Found(r), s < u, listedAt[s] # Never
               PROVE  s \in Found(r)
    BY DEF IsHead
  <2>1. s \in Listed \cap Matches[Ask[r].query] /\ Listed \cap Matches[Ask[r].query] \in SUBSET Symbols
    BY RequestsAssumption DEF Listed
  <2> QED
    BY <2>1, FirstPageIsHead DEF Found
<1>5. HandsEmpty(r)' /\ ReadsAfterBegin(r)' /\ FindsQuotes(r)'
  BY <1>1, <1>3 DEF HandsEmpty, ReadsAfterBegin, FindsQuotes
<1>6. FindsHead(r)'
  BY <1>1, <1>2, <1>3, <1>4 DEF FindsHead, IsHead
<1>7. \A q \in Requests : Promises(q)'
  BY <1>1, <1>3, <1>5, <1>6, PromisesOfWork
<1> QED
  BY <1>1, <1>3, <1>7, CachesFrame, OrderFrame DEF CachesInv

(* An error is answered from the cached page, or with an error.            *)
LEMMA ListErrorKeeps ==
    ASSUME CachesInv, NEW r \in Searches, ListError(r)
    PROVE  CachesInv'
<1>1. /\ r \in Requests /\ pc[r] = "list" /\ errors' \in 0..MaxErrors
      /\ UNCHANGED <<now, listedAt, cache, symbolCache, countCache, began>>
  BY Asking, Types, BoundsAssumption DEF ListError, QueryFails
<1>2. PICK a \in Answers : Respond(r, a)
  <2>1. CASE symbolCache = Empty
    BY <2>1, Answering DEF ListError
  <2>2. CASE symbolCache # Empty
    <3>1. Clipped(symbolCache.page, r) \in SUBSET Symbols
      BY <2>2, Types, ClippedIsPart
    <3>2. Answered("ok", Nothing, Clipped(symbolCache.page, r), TRUE) \in Answers
      BY <3>1, Answering
    <3> QED
      BY <3>2, Answering DEF ListError
  <2> QED
    BY <2>1, <2>2
<1>3. Only(r) /\ InnerAfterOuter' /\ \A q \in Requests : Promises(q)'
  BY <1>1, <1>2, SearchAnswered
<1> QED
  BY <1>1, <1>3, CachesFrame DEF CachesInv

(* What is kept is the beginning of the list.                              *)
LEMMA StoreListKeeps ==
    ASSUME CachesInv, NEW r \in Searches, StoreList(r)
    PROVE  CachesInv'
<1>1. /\ r \in Requests /\ pc[r] = "storelist" /\ SearchKey(r) \in SearchKeys
      /\ UNCHANGED <<now, listedAt, cache, began, errors>>
      /\ began[r] \in Nat /\ began[r] <= now /\ now \in Nat /\ SymbolTTL \in Nat
      /\ page[r] \in SUBSET Symbols
      /\ (Ask[r].query = Everything /\ Ask[r].offset = 0 => IsHead(page[r], began[r]))
  BY Asking, Types, BoundsAssumption DEF StoreList, CachesInv, Promises, HandsEmpty, FindsHead, Time
<1>2. Answered("ok", Nothing, page[r], FALSE) \in Answers
  BY <1>1, Answering
<1>3. Only(r) /\ InnerAfterOuter' /\ \A q \in Requests : Promises(q)'
  BY <1>1, <1>2, SearchAnswered DEF StoreList
<1>4. countCache' \in [SearchKeys -> {Empty} \cup Nat]
  BY <1>1, Types DEF StoreList
<1>5. \/ UNCHANGED symbolCache
      \/ /\ symbolCache' = [page |-> page[r], until |-> began[r] + SymbolTTL]
         /\ IsHead(page[r], began[r])
  BY <1>1 DEF StoreList, Kept
<1>6. symbolCache' \in {Empty} \cup [page : SUBSET Symbols, until : Nat]
  BY <1>1, <1>5, Types
<1>7. PageExpires'
  <2>1. CASE UNCHANGED symbolCache
    BY <1>1, <2>1 DEF CachesInv, PageExpires, IsHead
  <2>2. CASE symbolCache' = [page |-> page[r], until |-> began[r] + SymbolTTL] /\ IsHead(page[r], began[r])
    <3>1. symbolCache'.page = page[r] /\ symbolCache'.until - SymbolTTL = began[r]
          /\ symbolCache'.until <= now + SymbolTTL
      BY <1>1, <2>2
    <3> QED
      BY <1>1, <2>2, <3>1 DEF PageExpires, IsHead
  <2> QED
    BY <1>5, <2>1, <2>2
<1>8. TypeOK'
  BY <1>1, <1>3, <1>4, <1>6 DEF CachesInv, TypeOK, Only, Steps, Answers
<1>9. EntriesExpire' /\ QuotesExpire'
  BY <1>1 DEF CachesInv, EntriesExpire, QuotesExpire, Overlooked
<1> QED
  BY <1>3, <1>7, <1>8, <1>9 DEF CachesInv

(* A cached page may only confirm an instrument.                           *)
LEMMA LookupInstrumentKeeps ==
    ASSUME CachesInv, NEW r \in Lookups, LookupInstrument(r)
    PROVE  CachesInv'
<1>1. /\ r \in Requests /\ r \notin Cached /\ r \notin Searches
      /\ pc[r] = "idle" /\ answer[r] = NoAnswer /\ got[r] = Nothing
      /\ Begins(r) /\ UNCHANGED <<now, listedAt, cache, symbolCache, countCache, errors>>
      /\ errors \in 0..MaxErrors /\ now \in Nat
  BY Asking, Types DEF LookupInstrument, Start, Begins, CachesInv, Promises, HandsEmpty
<1>2. r \notin InnerCalls
  BY <1>1, Asking DEF InnerCalls
<1>3. CASE GoOn(r, "exists")
  <2>1. Only(r) /\ pc'[r] = "exists" /\ UNCHANGED <<answer, got, page>> /\ began'[r] = now
    BY <1>1, <1>3, GoingOn DEF Steps
  <2>2. HandsEmpty(r)' /\ ReadsAfterBegin(r)' /\ FindsQuotes(r)' /\ FindsHead(r)'
    BY <1>1, <2>1 DEF HandsEmpty, ReadsAfterBegin, FindsQuotes, FindsHead
  <2>3. \A q \in Requests : Promises(q)'
    BY <1>1, <2>1, <2>2, PromisesOfWork
  <2> QED
    BY <1>1, <1>2, <2>1, <2>3, CachesFrame, LookupOrders DEF CachesInv
<1>4. CASE Respond(r, Answered("ok", Nothing, {}, FALSE))
  <2> DEFINE a == Answered("ok", Nothing, {}, FALSE)
  <2>1. a \in Answers /\ a.status = "ok"
    BY Answering
  <2>2. Only(r) /\ pc'[r] = "done" /\ answer'[r] = a /\ got'[r] = Nothing /\ began'[r] = now
    BY <1>1, <1>4, <2>1, Responding
  <2> HIDE DEF a
  <2>3. \A q \in Requests : Promises(q)'
    BY <1>1, <2>1, <2>2, PromisesOfAnswer
  <2> QED
    BY <1>1, <1>2, <2>2, <2>3, CachesFrame, LookupOrders DEF CachesInv
<1> QED
  BY <1>3, <1>4 DEF LookupInstrument

(* ClickHouse says whether it knows the symbol.                            *)
LEMMA SymbolExistsKeeps ==
    ASSUME CachesInv, NEW r \in Lookups, SymbolExists(r)
    PROVE  CachesInv'
<1>1. /\ r \in Requests /\ pc[r] = "exists" /\ errors' \in 0..MaxErrors
      /\ UNCHANGED <<now, listedAt, cache, symbolCache, countCache, began>>
  <2>1. errors \in 0..MaxErrors /\ MaxErrors \in Nat /\ (UNCHANGED errors \/ QueryFails)
    BY Types, BoundsAssumption DEF SymbolExists
  <2>2. errors' \in 0..MaxErrors
    BY <2>1 DEF QueryFails
  <2> QED
    BY <2>2, Asking DEF SymbolExists
<1>2. PICK a \in Answers : Respond(r, a) /\ (a.status # "NOT_FOUND" \/ listedAt[Ask[r].symbol] = Never)
  <2> DEFINE status == IF Ask[r].symbol \in Listed THEN "ok" ELSE "NOT_FOUND"
             b == Answered(status, Nothing, {}, FALSE)
  <2>1. b \in Answers /\ b.status = status
    <3>1. status \in {"ok", "NOT_FOUND"} /\ {} \in SUBSET Symbols /\ FALSE \in BOOLEAN
      OBVIOUS
    <3> HIDE DEF status
    <3> QED
      BY <3>1, Answering, ZenonT(40)
  <2>2. status # "NOT_FOUND" \/ listedAt[Ask[r].symbol] = Never
    BY RequestsAssumption DEF Listed
  <2>3. Respond(r, b) \/ Respond(r, InternalError)
    BY DEF SymbolExists
  <2> HIDE DEF b, status
  <2> QED
    BY <2>1, <2>2, <2>3, Answering
<1>3. Only(r) /\ InnerAfterOuter' /\ \A q \in Requests : Promises(q)'
  BY <1>1, <1>2, SearchAnswered
<1> QED
  BY <1>1, <1>3, CachesFrame DEF CachesInv

-----------------------------------------------------------------------------
(* The world around the service                                            *)

(* Everything only grows older.                                            *)
LEMMA TickKeeps == CachesInv /\ Tick => CachesInv'
<1> SUFFICES ASSUME CachesInv, Tick PROVE CachesInv'
  OBVIOUS
<1>1. /\ now' = now + 1 /\ now \in Nat /\ now' \in Time /\ SymbolTTL \in Nat
      /\ UNCHANGED <<listedAt, cache, symbolCache, countCache, pc, began, got, page, answer, errors>>
  BY Types, BoundsAssumption DEF Tick, Time
<1>2. TypeOK'
  BY <1>1 DEF CachesInv, TypeOK
<1>3. ASSUME NEW r \in Requests PROVE Promises(r)'
  <2>1. Promises(r) /\ began[r] \in Nat
    BY Types DEF CachesInv, Time
  <2> QED
    BY <1>1, <2>1 DEF Promises, HandsEmpty, ReadsAfterBegin, FindsQuotes, FindsHead, TellsFresh,
                      TellsNoFalse404, Overlooked, IsHead
<1>4. InnerAfterOuter'
  BY <1>1 DEF CachesInv, InnerAfterOuter
<1>5. EntriesExpire'
  <2> SUFFICES ASSUME NEW k \in Keys, cache[k] # Empty
               PROVE  /\ cache[k].until <= now' + Longest(k[1])
                      /\ \A i \in DOMAIN cache[k].data.read :
                            cache[k].until <= cache[k].data.read[i] + Longest(k[1])
    BY <1>1 DEF EntriesExpire
  <2>1. Longest(k[1]) \in Nat /\ cache[k].until \in Nat
    BY Asking, Lifetimes, Types DEF Kinds
  <2> QED
    BY <1>1, <2>1 DEF CachesInv, EntriesExpire
<1>6. QuotesExpire'
  BY <1>1 DEF CachesInv, QuotesExpire, Overlooked
<1>7. PageExpires'
  <2>1. symbolCache # Empty => symbolCache.until \in Nat
    BY Types
  <2> QED
    BY <1>1, <2>1 DEF CachesInv, PageExpires, IsHead
<1> QED
  BY <1>2, <1>3, <1>4, <1>5, <1>6, <1>7 DEF CachesInv

(* A symbol that appears now was rightly not found before.                 *)
LEMMA ListKeeps ==
    ASSUME CachesInv, NEW s \in Symbols, List(s)
    PROVE  CachesInv'
<1>1. /\ listedAt[s] = Never /\ listedAt'[s] = now /\ \A u \in Symbols \ {s} : listedAt'[u] = listedAt[u]
      /\ listedAt' \in [Symbols -> {Never} \cup Time] /\ now \in Nat
      /\ UNCHANGED <<now, cache, symbolCache, countCache, pc, began, got, page, answer, errors>>
      /\ SymbolTTL \in Nat
  BY Types, BoundsAssumption DEF List, CachesInv, TypeOK
<1>2. ASSUME NEW u \in Symbols, NEW t \in Int, listedAt[u] = Never \/ listedAt[u] >= t, t <= now
      PROVE  listedAt'[u] = Never \/ listedAt'[u] >= t
  BY <1>1, <1>2
<1>3. TypeOK'
  BY <1>1 DEF CachesInv, TypeOK
<1>4. ASSUME NEW r \in Requests PROVE Promises(r)'
  <2>1. Promises(r) /\ began[r] \in Nat /\ began[r] <= now
    BY Types DEF CachesInv, Promises, HandsEmpty, Time
  <2>2. HandsEmpty(r)' /\ ReadsAfterBegin(r)' /\ TellsFresh(r)'
    BY <1>1, <2>1 DEF Promises, HandsEmpty, ReadsAfterBegin, TellsFresh
  <2>3. FindsQuotes(r)'
    BY <1>1, <1>2, <2>1, Asking DEF Promises, FindsQuotes, Overlooked
  <2>4. FindsHead(r)'
    BY <1>1, <1>2, <2>1 DEF Promises, FindsHead, IsHead
  <2>5. TellsNoFalse404(r)'
    <3>1. r \in Lookups => Ask[r].symbol \in Symbols
      BY RequestsAssumption
    <3>2. r \in Cached => \A u \in Ask[r].symbols : u \in Symbols
      BY RequestsAssumption
    <3>3. Longest("quotes") \in Nat
      BY Lifetimes
    <3>4. ASSUME NEW u \in Symbols, listedAt[u] = Never \/ listedAt[u] + Longest("quotes") >= began[r]
          PROVE  listedAt'[u] = Never \/ listedAt'[u] + Longest("quotes") >= began[r]
      BY <1>1, <2>1, <3>3, <3>4
    <3> QED
      BY <1>1, <1>2, <2>1, <3>1, <3>2, <3>4 DEF Promises, TellsNoFalse404
  <2> QED
    BY <2>2, <2>3, <2>4, <2>5 DEF Promises
<1>5. InnerAfterOuter' /\ EntriesExpire'
  BY <1>1 DEF CachesInv, InnerAfterOuter, EntriesExpire
<1>6. QuotesExpire'
  <2> SUFFICES ASSUME NEW k \in Keys, cache[k] # Empty, k[1] = "quotes", NEW u \in k[2] \ cache[k].data.found
               PROVE  listedAt'[u] = Never \/ listedAt'[u] >= cache[k].until - Longest("quotes")
    BY <1>1 DEF QuotesExpire, Overlooked
  <2>1. cache[k].until \in Nat /\ Longest("quotes") \in Nat /\ u \in Symbols
    BY Types, Lifetimes, RequestsAssumption DEF Keys, Key
  <2>2. cache[k].until - Longest("quotes") <= now
    BY <1>1, <2>1 DEF CachesInv, EntriesExpire
  <2>3. listedAt[u] = Never \/ listedAt[u] >= cache[k].until - Longest("quotes")
    BY DEF CachesInv, QuotesExpire, Overlooked
  <2> QED
    BY <1>2, <2>1, <2>2, <2>3
<1>7. PageExpires'
  <2> SUFFICES ASSUME symbolCache # Empty PROVE PageExpires'
    BY <1>1 DEF PageExpires
  <2>1. symbolCache.until \in Nat /\ symbolCache.until - SymbolTTL <= now
    BY <1>1, Types DEF CachesInv, PageExpires
  <2> QED
    BY <1>1, <1>2, <2>1 DEF CachesInv, PageExpires, IsHead
<1> QED
  BY <1>3, <1>4, <1>5, <1>6, <1>7 DEF CachesInv

-----------------------------------------------------------------------------
(* The invariant                                                           *)

LEMMA InitEstablishes == Init => CachesInv
<1> SUFFICES ASSUME Init PROVE CachesInv
  OBVIOUS
<1>1. NoAnswer \in Answers /\ NoAnswer.status = "none" /\ NoAnswer.data.read = <<>>
  BY Answering DEF NoAnswer, Answered, Nothing
<1>2. TypeOK
  <2>1. 0 \in Time /\ 0 \in 0..MaxErrors
    BY BoundsAssumption DEF Time
  <2>2. Nothing \in Snapshots
    BY DEF Nothing, Snapshots
  <2> QED
    BY <1>1, <2>1, <2>2 DEF Init, TypeOK, Answers
<1>3. ASSUME NEW r \in Requests PROVE Promises(r)
  <2>1. pc[r] = "idle" /\ answer[r] = NoAnswer /\ got[r] = Nothing /\ began[r] = 0 /\ now = 0
    BY DEF Init
  <2>2. HandsEmpty(r) /\ FindsQuotes(r) /\ FindsHead(r)
    BY <2>1 DEF HandsEmpty, FindsQuotes, FindsHead
  <2>3. ReadsAfterBegin(r)
    BY <2>1 DEF ReadsAfterBegin, Nothing
  <2>4. TellsFresh(r) /\ TellsNoFalse404(r)
    BY <1>1, <2>1 DEF TellsFresh, TellsNoFalse404
  <2> QED
    BY <2>2, <2>3, <2>4 DEF Promises
<1>4. InnerAfterOuter /\ EntriesExpire /\ QuotesExpire /\ PageExpires
  BY Asking DEF Init, InnerAfterOuter, EntriesExpire, QuotesExpire, PageExpires
<1> QED
  BY <1>2, <1>3, <1>4 DEF CachesInv

LEMMA NextKeeps == CachesInv /\ [Next]_vars => CachesInv'
<1> SUFFICES ASSUME CachesInv, [Next]_vars PROVE CachesInv'
  OBVIOUS
<1>1. ASSUME NEW r \in Cached, ReadThrough(r) PROVE CachesInv'
  BY <1>1, LookupKeeps, QueryKeeps, QueryErrorKeeps, StoreKeeps DEF ReadThrough
<1>2. ASSUME NEW b \in Books, QuotesArrive(b) PROVE CachesInv'
  BY <1>2, QuotesArriveKeeps
<1>3. ASSUME NEW r \in Searches, Search(r) PROVE CachesInv'
  BY <1>3, SearchPageKeeps, SearchCountKeeps, ListSymbolsKeeps, ListErrorKeeps, StoreListKeeps DEF Search
<1>4. ASSUME NEW r \in Lookups, LookupInstrument(r) \/ SymbolExists(r) PROVE CachesInv'
  BY <1>4, LookupInstrumentKeeps, SymbolExistsKeeps
<1>5. ASSUME NEW s \in Symbols, List(s) PROVE CachesInv'
  BY <1>5, ListKeeps
<1>6. Tick => CachesInv'
  BY TickKeeps
<1>7. UNCHANGED vars => CachesInv'
  BY DEF vars, CachesInv, TypeOK, Promises, HandsEmpty, ReadsAfterBegin, FindsQuotes, FindsHead, TellsFresh,
         TellsNoFalse404, Overlooked, IsHead, InnerAfterOuter, EntriesExpire, QuotesExpire, PageExpires
<1> QED
  BY <1>1, <1>2, <1>3, <1>4, <1>5, <1>6, <1>7 DEF Next

(* All parts of the invariant hold in every reachable state.               *)
THEOREM Invariance == Spec => []CachesInv
  BY InitEstablishes, NextKeeps, PTL DEF Spec

-----------------------------------------------------------------------------
(* The properties of the model                                             *)

(* The variables keep their types; no half of an order book gets into the  *)
(* cache.                                                                  *)
THEOREM TypeCorrect == Spec => []TypeOK
<1>1. CachesInv => TypeOK
  BY DEF CachesInv
<1> QED
  BY <1>1, Invariance, PTL

(* While ClickHouse answers, nothing a client is told is older than the    *)
(* longest lifetime of its cache, counted from its request.                *)
THEOREM AnswersAreFreshHolds == Spec => []AnswersAreFresh
<1>1. CachesInv => AnswersAreFresh
  BY Asking DEF CachesInv, Promises, TellsFresh, AnswersAreFresh
<1> QED
  BY <1>1, Invariance, PTL

(* A symbol that has quotes is not reported as unknown.                    *)
THEOREM NoFalse404Holds == Spec => []NoFalse404
<1>1. CachesInv => NoFalse404
  BY Asking DEF CachesInv, Promises, TellsNoFalse404, NoFalse404
<1> QED
  BY <1>1, Invariance, PTL

(* The cached page is the beginning of the list of symbols.                *)
THEOREM CachedPageIsFirstHolds == Spec => []CachedPageIsFirst
<1>1. CachesInv => CachedPageIsFirst
  <2> SUFFICES ASSUME CachesInv, symbolCache # Empty, NEW s \in Symbols, NEW t \in symbolCache.page,
                      s < t, s \notin symbolCache.page, listedAt[s] # Never
               PROVE  listedAt[s] + SymbolTTL >= symbolCache.until
    BY DEF CachedPageIsFirst
  <2>1. listedAt[s] >= symbolCache.until - SymbolTTL
    BY DEF CachesInv, PageExpires, IsHead
  <2>2. listedAt[s] \in Nat /\ symbolCache.until \in Nat /\ SymbolTTL \in Nat
    BY Types, BoundsAssumption DEF Time
  <2> QED
    BY <2>1, <2>2
<1> QED
  BY <1>1, Invariance, PTL

=============================================================================
