----------------------------- MODULE TokenFamilies -----------------------------
(***************************************************************************)
(* What auth-gateway promises about refresh tokens: the tokens that descend*)
(* from one login are a family with at most one usable member.  A login    *)
(* opens its family with a token nobody had before, a refresh replaces the *)
(* member by such a token in one step, a logout ends the family, and a     *)
(* family that has ended stays ended.  No step touches two families.       *)
(***************************************************************************)
CONSTANTS Logins, Tokens

VARIABLES
    used,      \* the tokens handed out so far
    usable     \* usable[l] is what can still be used of the family of login l;
               \* a family that is not in the domain has not been opened

families == <<used, usable>>

Init ==
    /\ used = {}
    /\ usable = [l \in {} |-> {}]

(* A token nobody had before becomes the only usable one of family l.      *)
HandOut(l, t) ==
    /\ t \in Tokens \ used
    /\ used' = used \cup {t}
    /\ usable' = [m \in DOMAIN usable \cup {l} |-> IF m = l THEN {t} ELSE usable[m]]

(* A login succeeds.                                                       *)
Open(l) == l \notin DOMAIN usable /\ \E t \in Tokens : HandOut(l, t)

(* A refresh replaces the usable token.                                    *)
Renew(l) == l \in DOMAIN usable /\ usable[l] # {} /\ \E t \in Tokens : HandOut(l, t)

(* A logout ends the family.                                               *)
End(l) ==
    /\ l \in DOMAIN usable /\ usable[l] # {}
    /\ usable' = [usable EXCEPT ![l] = {}]
    /\ UNCHANGED used

Next == \E l \in Logins : Open(l) \/ Renew(l) \/ End(l)

Spec == Init /\ [][Next]_families

=============================================================================
