------------------------------- MODULE TradeBook -------------------------------
(***************************************************************************)
(* What trading-service promises those who read the trading-events topic,  *)
(* without saying how: an order is decided at most once, traded at a price *)
(* or rejected for a reason, and the decision stands.  The topic speaks    *)
(* only of decisions that were made, in the words they were made in, and   *)
(* tells of the fill of an order before its trade.  It may repeat itself,  *)
(* stay silent, and call any order cancelled, which decides nothing.       *)
(***************************************************************************)
EXTENDS Sequences

CONSTANTS Orders, Prices, NoTrade, Reasons

VARIABLES
    trade,     \* the price each order was traded at, or NoTrade
    reason,    \* why each order was rejected, or "none"
    topic      \* what was said, oldest first

book == <<trade, reason, topic>>

Init ==
    /\ trade = [o \in Orders |-> NoTrade]
    /\ reason = [o \in Orders |-> "none"]
    /\ topic = <<>>

Undecided(o) == trade[o] = NoTrade /\ reason[o] = "none"

Trade(o) ==
    /\ Undecided(o)
    /\ \E price \in Prices : trade' = [trade EXCEPT ![o] = price]
    /\ UNCHANGED <<reason, topic>>

Reject(o) ==
    /\ Undecided(o)
    /\ \E why \in Reasons : reason' = [reason EXCEPT ![o] = why]
    /\ UNCHANGED <<trade, topic>>

(* One more message about o.                                               *)
Say(o, type) ==
    /\ topic' = Append(topic, [type |-> type, order |-> o, reason |-> reason[o], trade |-> trade[o]])
    /\ UNCHANGED <<trade, reason>>

(* The execution of the trade of o has been announced.                     *)
Reported(o) == \E i \in DOMAIN topic : topic[i].type = "TRADE_EXECUTED" /\ topic[i].order = o

AnnounceFill(o) == trade[o] # NoTrade /\ ~Reported(o) /\ Say(o, "ORDER_FILLED")
AnnounceTrade(o) == trade[o] # NoTrade /\ Say(o, "TRADE_EXECUTED")
AnnounceRejection(o) == reason[o] # "none" /\ Say(o, "ORDER_REJECTED")

(* Says nothing of a decision, even if there is one.                       *)
AnnounceCancellation(o) ==
    /\ topic' = Append(topic, [type |-> "ORDER_CANCELLED", order |-> o,
                               reason |-> "none", trade |-> NoTrade])
    /\ UNCHANGED <<trade, reason>>

Decide(o) == Trade(o) \/ Reject(o)
Announce(o) ==
    AnnounceFill(o) \/ AnnounceTrade(o) \/ AnnounceRejection(o) \/ AnnounceCancellation(o)

Next == \E o \in Orders : Decide(o) \/ Announce(o)

Spec == Init /\ [][Next]_book

=============================================================================
