-------------------------- MODULE MCOrderLifecycle --------------------------
(***************************************************************************)
(* Instances of OrderLifecycle for TLC.  The orders of a run are chosen in *)
(* its .cfg among three: one that buys two shares, one that sells a single *)
(* share and one that asks for no share at all.                            *)
(***************************************************************************)
EXTENDS OrderLifecycle, TLC

CONSTANTS buy, sell, empty

MCSide == [o \in Orders |-> IF o = sell THEN "SELL" ELSE "BUY"]
MCQty  == [o \in Orders |-> CASE o = buy -> 2 [] o = sell -> 1 [] o = empty -> 0]

(* Every verdict is reachable: too little volume for buy, a price its cash *)
(* covers and one it does not, a position that covers sell or does not.    *)
MCQuotes   == {[price |-> 3, volume |-> 1], [price |-> 3, volume |-> 2],
               [price |-> 4, volume |-> 7]}
MCHoldings == {0, 6}

NoFaults      == [k \in FaultKinds |-> 0]
AllFaults     == [k \in FaultKinds |-> 1]
DbFault       == [NoFaults EXCEPT !["db"] = 1]
UpstreamFault == [NoFaults EXCEPT !["upstream"] = 1]
OneShutdown   == [NoFaults EXCEPT !["shutdown"] = 1]

=============================================================================
