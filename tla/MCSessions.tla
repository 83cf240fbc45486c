----------------------------- MODULE MCSessions -----------------------------
(***************************************************************************)
(* Instances of Sessions for TLC: a user who registers and, after losing   *)
(* the session, logs in again.                                             *)
(***************************************************************************)
EXTENDS Sessions, TLC

CONSTANTS join, back, alice

MCKind == [l \in Logins |-> IF l = join THEN "register" ELSE "login"]
MCName == [l \in Logins |-> alice]

=============================================================================
