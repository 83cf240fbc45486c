------------------------------- MODULE Ledger -------------------------------
(***************************************************************************)
(* What portfolio-service promises its users, without saying how: transfers*)
(* and trades move the balance of an account one after the other, each at  *)
(* most once, and a trade reaches the position only after the cash.        *)
(***************************************************************************)
EXTENDS Integers

CONSTANTS Users, Symbols, Orders, Clients,
          Owner, Symbol, Side, Qty,   \* attributes of each order
          Gross,                      \* what each order may cost or yield
          Kind, Account, Amount       \* what each client asks

VARIABLES
    balance,    \* the money of each user
    holding,    \* the shares of each user, by symbol
    paid,       \* orders whose trade is in the balance
    delivered,  \* orders whose trade is in the holding
    done        \* clients whose transfer is in the balance

vars == <<balance, holding, paid, delivered, done>>

Init ==
    /\ balance = [u \in Users |-> 0]
    /\ holding = [p \in Users \X Symbols |-> 0]
    /\ paid = {} /\ delivered = {} /\ done = {}

Deposit(c) ==
    /\ Kind[c] = "deposit" /\ c \notin done
    /\ balance' = [balance EXCEPT ![Account[c]] = @ + Amount[c]]
    /\ done' = done \cup {c}
    /\ UNCHANGED <<holding, paid, delivered>>

Withdraw(c) ==
    /\ Kind[c] = "withdraw" /\ c \notin done
    /\ balance[Account[c]] >= Amount[c]
    /\ balance' = [balance EXCEPT ![Account[c]] = @ - Amount[c]]
    /\ done' = done \cup {c}
    /\ UNCHANGED <<holding, paid, delivered>>

(* The price was agreed when the order was filled: a purchase is paid for  *)
(* even if that makes the balance negative.                                *)
Pay(o) ==
    /\ o \notin paid
    /\ \E gross \in Gross[o] :
          balance' = [balance EXCEPT ![Owner[o]] = IF Side[o] = "BUY" THEN @ - gross ELSE @ + gross]
    /\ paid' = paid \cup {o}
    /\ UNCHANGED <<holding, delivered, done>>

(* A sale takes at most what is there.                                     *)
Deliver(o) ==
    /\ o \in paid \ delivered
    /\ holding' = [holding EXCEPT ![<<Owner[o], Symbol[o]>>] =
                     IF Side[o] = "BUY" THEN @ + Qty[o]
                     ELSE IF @ >= Qty[o] THEN @ - Qty[o] ELSE 0]
    /\ delivered' = delivered \cup {o}
    /\ UNCHANGED <<balance, paid, done>>

Next ==
    \/ \E c \in Clients : Deposit(c) \/ Withdraw(c)
    \/ \E o \in Orders : Pay(o) \/ Deliver(o)

Spec == Init /\ [][Next]_vars

=============================================================================
