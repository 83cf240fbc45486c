---------------------------- MODULE MCMobileSession ----------------------------
(***************************************************************************)
(* An instance of MobileSession for TLC: one device on which ann logs in   *)
(* and bob registers.                                                      *)
(***************************************************************************)
EXTENDS MobileSession

CONSTANTS ann, bob, s1, s2

MCKind == [s \in SignIns |-> IF s = s1 THEN "login" ELSE "register"]
MCAccount == [s \in SignIns |-> IF s = s1 THEN ann ELSE bob]

=============================================================================
