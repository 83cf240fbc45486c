---------------------------- MODULE MCMarketData ----------------------------
(***************************************************************************)
(* Instances of MarketData for TLC.                                        *)
(***************************************************************************)
EXTENDS MarketData, TLC

CONSTANTS all, byName, q1, q2, p1, c1, c2, b1, i1, s1, s2, l1

a == 1
b == 2
MCSymbols == {a, b}
MCMatches == all :> {a, b} @@ byName :> {b}

(* A book has a lifetime of two units, more or less: its jitter.           *)
MCTTL == "quotes" :> {1} @@ "candles" :> {1, 2} @@ "book" :> {1, 2}

(* q1, q2 and the call i1 of the order book request b1 share a key, and so *)
(* do c1 and c2; p1 asks for a list; s1 looks at the first page, s2        *)
(* searches by name; l1 looks a symbol up.                                 *)
Asked == q1 :> [kind |-> "quotes", symbols |-> {a}]
      @@ i1 :> [kind |-> "quotes", symbols |-> {a}]
      @@ b1 :> [kind |-> "book", symbols |-> {a}]
      @@ q2 :> [kind |-> "quotes", symbols |-> {a}]
      @@ p1 :> [kind |-> "quotes", symbols |-> {a, b}]
      @@ c2 :> [kind |-> "candles", symbols |-> {a}]
      @@ c1 :> [kind |-> "candles", symbols |-> {a}]
      @@ l1 :> [kind |-> "instrument", symbol |-> b]
      @@ s1 :> [kind |-> "search", query |-> all, limit |-> 1, offset |-> 0]
      @@ s2 :> [kind |-> "search", query |-> byName, limit |-> 1, offset |-> 0]

MCAsk == [r \in Requests |-> Asked[r]]
MCInner == [r \in {b1} \cap Requests |-> i1]

MCLoads == {{q1, q2, b1}, {c1, c2, p1}, {s1, s2, l1}}

(* Twins ask for the same thing.                                           *)
Twins == Permutations({q1, q2}) \cup Permutations({c1, c2})

=============================================================================
