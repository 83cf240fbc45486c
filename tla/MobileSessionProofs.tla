---------------------------- MODULE MobileSessionProofs ----------------------------
(***************************************************************************)
(* Theorems about the session of the mobile client, for any sign-ins,      *)
(* calls and logouts of any accounts and any number of faults.             *)
(***************************************************************************)
EXTENDS MobileSession, TLAPS

-----------------------------------------------------------------------------
(* The invariant.  Most of it is about devices whose sign-ins have run     *)
(* alone, some of it about devices without any trouble.                    *)

Calm == ~overlapped /\ ~torn
Untroubled == ~refused /\ ~overlapped /\ faults = 0 /\ kills = 0

Token == storage.access_token
Refresh == storage.refresh_token
Data == storage.user_data

(* Whoever has several items to write begins with the first.               *)
WritesInOrder ==
    \A p \in Processes : /\ pc[p] \notin {"store", "clear"} => at[p] = 1
                         /\ pc[p] = "clear" => at[p] \in {1, 2}

ClearingWasRejected == \A c \in Calls : pc[c] = "clear" => Rejected(c) /\ refused

NotYetIssued == \A s \in SignIns : pc[s] \in {"idle", "sent", "clear"} => s \notin issued

HeldIsIssued ==
    /\ Token \in issued \cup {None} /\ Refresh \in issued \cup {None}
    /\ \A p \in Calls \cup Logouts : carried[p] \in issued \cup {None}
    /\ \A s \in SignIns : pc[s] = "store" => s \in issued

UsersSeeTheDashboard == user # None => screen = "dashboard"

Alone ==
    ~overlapped =>
        /\ \A s \in SignIns : Running(s) =>
              user = None /\ \A p \in (SignIns \cup Logouts \cup {Boot}) \ {s} : ~Running(p)
        /\ Running(Boot) => user = None /\ \A o \in Logouts : ~Running(o)

(* What a logout has removed stays away, and checkAuth finds what it read. *)
RemovedIsGone ==
    ~overlapped =>
        \A o \in Logouts : (pc[o] = "store" /\ at[o] >= 2) \/ pc[o] = "show" => Token = None

FoundIsStored ==
    /\ pc[Boot] \in {"token", "user", "clear"} => found = None
    /\ ~overlapped =>
          /\ pc[Boot] = "clear" => Data = None /\ (at[Boot] = 2 => Token = None)
          /\ pc[Boot] = "show" => IF found = None THEN Token = None ELSE Data = found

(* The user next to a token is its owner, except while it is written.      *)
TokenHasItsUser ==
    Calm =>
        /\ \A s \in SignIns :
              /\ Token = s => Data = Account[s] \/ (pc[s] = "store" /\ at[s] \in {2, 3})
              /\ pc[s] = "store" /\ at[s] >= 2 => Token \in {s, None}
              /\ (pc[s] = "store" /\ at[s] >= 4) \/ pc[s] = "show" => Data = Account[s]
        /\ user # None /\ Token # None => Data = user

(* Nobody but a sign-in on its way brings a token to a guest's device.     *)
Guest ==
    /\ user = None /\ ~Running(Boot)
    /\ \A o \in Logouts : ~Running(o)
    /\ \A s \in SignIns : pc[s] \notin {"store", "show"}

GuestHasNoToken == ~overlapped /\ Guest => Token = None

(* The same for refresh tokens, as long as nothing fails.                  *)
IssuedIsKept ==
    Untroubled => \A s \in issued \ revoked : Refresh = s \/ (pc[s] = "store" /\ at[s] <= 2)

LogoutsRevoke ==
    Untroubled =>
        \A o \in Logouts :
            /\ pc[o] = "sent" => Refresh \in {carried[o], None}
            /\ pc[o] = "store" => Refresh \in revoked \cup {None}
            /\ (pc[o] = "store" /\ at[o] >= 3) \/ pc[o] = "show" => Refresh = None

GuestHasNoRefreshToken == Untroubled /\ (Running(Boot) \/ Guest) => Refresh = None

SignInsBringTheirs ==
    Untroubled =>
        \A s \in SignIns :
            /\ pc[s] = "store" /\ at[s] <= 2 => Refresh = None
            /\ pc[s] = "store" /\ at[s] >= 3 => Refresh \in {s, None}

SessionInv ==
    /\ TypeOK
    /\ WritesInOrder /\ ClearingWasRejected /\ NotYetIssued /\ HeldIsIssued
    /\ UsersSeeTheDashboard
    /\ Alone /\ RemovedIsGone /\ FoundIsStored
    /\ TokenHasItsUser /\ GuestHasNoToken
    /\ IssuedIsKept /\ LogoutsRevoke /\ GuestHasNoRefreshToken /\ SignInsBringTheirs

-----------------------------------------------------------------------------
(* What the actions have in common                                         *)

Steps == {"idle", "token", "user", "sent", "stalled", "store", "clear", "show", "done"}

LEMMA Kinds ==
    /\ Boot \in Processes /\ Boot \notin Calls
    /\ \A s \in SignIns : /\ s \in Processes /\ s \notin Calls /\ s \notin Logouts /\ s # Boot /\ s # None
                         /\ Account[s] \in Accounts /\ Account[s] # None
                         /\ Kind[s] \in Forms
    /\ \A c \in Calls : c \in Processes /\ c \notin Logouts /\ c # Boot
    /\ \A o \in Logouts : o \in Processes /\ o # Boot
  BY ProcessesAssumption DEF Processes

(* One process takes a step.                                               *)
LEMMA GotoMoves ==
    ASSUME pc \in [Processes -> Steps], NEW p \in Processes, NEW step, Goto(p, step)
    PROVE  /\ pc'[p] = step
           /\ \A q \in Processes \ {p} : pc'[q] = pc[q]
  BY DEF Goto

Stored == [access_token : Tokens, refresh_token : Tokens, user_data : Users]

LEMMA TypeFacts ==
    ASSUME SessionInv
    PROVE  /\ pc \in [Processes -> Steps] /\ at \in [Processes -> 1..5]
           /\ issued \subseteq SignIns /\ faults \in Nat /\ kills \in Nat
           /\ storage \in Stored /\ Token \in Tokens /\ Refresh \in Tokens /\ Data \in Users
           /\ carried \in [Calls \cup Logouts -> Tokens]
  BY DEF SessionInv, TypeOK, Steps, Stored, Token, Refresh, Data

LEMMA ValueTyped ==
    ASSUME NEW p \in Processes
    PROVE  /\ p \in SignIns => /\ Value(p, "access_token") = p /\ Value(p, "refresh_token") = p
                              /\ Value(p, "user_data") = Account[p]
           /\ p \notin SignIns => \A item : Value(p, item) = None
           /\ Value(p, "access_token") \in Tokens /\ Value(p, "refresh_token") \in Tokens
           /\ Value(p, "user_data") \in Users
<1>1. CASE p \in SignIns
  BY <1>1, Kinds DEF Value, Tokens, Users
<1>2. CASE p \notin SignIns
  <2>1. \A item : Value(p, item) = None
    BY <1>2 DEF Value
  <2> QED
    BY <1>2, <2>1 DEF Tokens, Users
<1> QED
  BY <1>1, <1>2

(* One item of the storage is written.                                     *)
LEMMA OneWrite ==
    ASSUME storage \in Stored, NEW i \in 1..5, NEW v, storage' = [storage EXCEPT ![Writes[i]] = v],
           i \in {1, 2, 4, 5} => v \in Tokens, i = 3 => v \in Users
    PROVE  /\ storage' \in Stored
           /\ Token' = IF i \in {1, 4} THEN v ELSE Token
           /\ Refresh' = IF i \in {2, 5} THEN v ELSE Refresh
           /\ Data' = IF i = 3 THEN v ELSE Data
<1>1. CASE i \in {1, 4}
  <2>1. Writes[i] = "access_token" /\ v \in Tokens
    BY <1>1 DEF Writes
  <2>2. storage' = [storage EXCEPT !.access_token = v]
    BY <2>1
  <2> QED
    BY <1>1, <2>1, <2>2 DEF Stored, Token, Refresh, Data
<1>2. CASE i \in {2, 5}
  <2>1. Writes[i] = "refresh_token" /\ v \in Tokens
    BY <1>2 DEF Writes
  <2>2. storage' = [storage EXCEPT !.refresh_token = v]
    BY <2>1
  <2> QED
    BY <1>2, <2>1, <2>2 DEF Stored, Token, Refresh, Data
<1>3. CASE i = 3
  <2>1. storage' = [storage EXCEPT !.user_data = v]
    BY <1>3 DEF Writes
  <2> QED
    BY <1>3, <2>1 DEF Stored, Token, Refresh, Data
<1> QED
  BY <1>1, <1>2, <1>3

LEMMA StoreMoves ==
    ASSUME SessionInv, NEW p \in SignIns \cup Logouts, Store(p)
    PROVE  /\ pc[p] = "store" /\ at[p] \in 1..5
           /\ storage' \in Stored
           /\ Token' = IF at[p] \in {1, 4} THEN Value(p, "access_token") ELSE Token
           /\ Refresh' = IF at[p] \in {2, 5} THEN Value(p, "refresh_token") ELSE Refresh
           /\ Data' = IF at[p] = 3 THEN Value(p, "user_data") ELSE Data
           /\ at[p] # 5 => pc' = pc /\ at'[p] = at[p] + 1
           /\ at[p] = 5 => pc'[p] = "show" /\ at'[p] = 1
           /\ \A q \in Processes \ {p} : pc'[q] = pc[q] /\ at'[q] = at[q]
           /\ at' \in [Processes -> 1..5] /\ pc' \in [Processes -> Steps]
           /\ UNCHANGED <<issued, stale, revoked, user, screen, submitted, carried, found, kills,
                          faults, overlapped, torn, refused>>
<1>1. /\ pc \in [Processes -> Steps] /\ at \in [Processes -> 1..5] /\ p \in Processes
      /\ at[p] \in 1..5 /\ storage \in Stored
  BY TypeFacts, Kinds
<1>2. /\ storage' = [storage EXCEPT ![Writes[at[p]]] = Value(p, Writes[at[p]])]
      /\ at[p] \in {1, 4} => Writes[at[p]] = "access_token"
      /\ at[p] \in {2, 5} => Writes[at[p]] = "refresh_token"
      /\ at[p] = 3 => Writes[at[p]] = "user_data"
  BY <1>1 DEF Store, Writes
<1>3. /\ storage' \in Stored
      /\ Token' = IF at[p] \in {1, 4} THEN Value(p, "access_token") ELSE Token
      /\ Refresh' = IF at[p] \in {2, 5} THEN Value(p, "refresh_token") ELSE Refresh
      /\ Data' = IF at[p] = 3 THEN Value(p, "user_data") ELSE Data
  <2> DEFINE i == at[p]
             v == Value(p, Writes[at[p]])
  <2>1. i \in 1..5 /\ storage' = [storage EXCEPT ![Writes[i]] = v]
    BY <1>1, <1>2
  <2>2. (i \in {1, 2, 4, 5} => v \in Tokens) /\ (i = 3 => v \in Users)
    BY <1>1, <1>2, ValueTyped
  <2> HIDE DEF i, v
  <2>3. /\ storage' \in Stored
        /\ Token' = IF i \in {1, 4} THEN v ELSE Token
        /\ Refresh' = IF i \in {2, 5} THEN v ELSE Refresh
        /\ Data' = IF i = 3 THEN v ELSE Data
    BY <1>1, <2>1, <2>2, OneWrite
  <2> QED
    BY <1>2, <2>3 DEF i, v
<1>4. /\ pc[p] = "store"
      /\ at[p] # 5 => pc' = pc /\ at' = [at EXCEPT ![p] = at[p] + 1]
      /\ at[p] = 5 => pc' = [pc EXCEPT ![p] = "show"] /\ at' = [at EXCEPT ![p] = 1]
      /\ UNCHANGED <<issued, stale, revoked, user, screen, submitted, carried, found, kills,
                     faults, overlapped, torn, refused>>
  BY <1>1 DEF Store, Goto, gateway, view, history
<1>5. at' \in [Processes -> 1..5] /\ pc' \in [Processes -> Steps]
  BY <1>1, <1>4 DEF Steps
<1> QED
  BY <1>1, <1>3, <1>4, <1>5

LEMMA ClearMoves ==
    ASSUME SessionInv, NEW p \in SignIns \cup Calls \cup {Boot}, Clear(p)
    PROVE  /\ pc[p] = "clear" /\ at[p] \in {1, 2}
           /\ storage' \in Stored /\ Data' = Data
           /\ at[p] = 1 => Token' = None /\ Refresh' = Refresh
           /\ at[p] = 2 => Token' = Token /\ Refresh' = None
           /\ at[p] = 1 => pc' = pc /\ at'[p] = 2 /\ UNCHANGED <<submitted, carried>>
           /\ at[p] = 2 => pc'[p] = (IF p = Boot THEN "show" ELSE "done") /\ at'[p] = 1
           /\ submitted' \in Tokens
           /\ p \in Calls => carried'[p] \in {carried[p], None}
           /\ \A q \in (Calls \cup Logouts) \ {p} : carried'[q] = carried[q]
           /\ \A q \in Processes \ {p} : pc'[q] = pc[q] /\ at'[q] = at[q]
           /\ at' \in [Processes -> 1..5] /\ pc' \in [Processes -> Steps]
           /\ carried' \in [Calls \cup Logouts -> Tokens]
           /\ UNCHANGED <<issued, stale, revoked, user, screen, found, kills, faults, overlapped,
                          torn, refused>>
<1>1. /\ pc \in [Processes -> Steps] /\ at \in [Processes -> 1..5] /\ p \in Processes
      /\ storage \in Stored /\ carried \in [Calls \cup Logouts -> Tokens]
      /\ pc[p] = "clear" /\ at[p] \in {1, 2} /\ None \in Tokens
  BY TypeFacts, Kinds DEF Clear, SessionInv, WritesInOrder, Tokens
<1>2. storage' \in Stored /\ Data' = Data /\ Token' = (IF at[p] = 1 THEN None ELSE Token)
          /\ Refresh' = (IF at[p] = 2 THEN None ELSE Refresh)
  <2> DEFINE i == at[p]
  <2>1. /\ i \in 1..5 /\ i \in {1, 2} /\ storage' = [storage EXCEPT ![Writes[i]] = None]
        /\ None \in Tokens /\ None \in Users
    BY <1>1 DEF Clear, Tokens, Users
  <2> HIDE DEF i
  <2>2. /\ storage' \in Stored
        /\ Token' = IF i \in {1, 4} THEN None ELSE Token
        /\ Refresh' = IF i \in {2, 5} THEN None ELSE Refresh
        /\ Data' = IF i = 3 THEN None ELSE Data
    BY <1>1, <2>1, OneWrite
  <2> QED
    BY <2>1, <2>2 DEF i
<1>3. /\ at[p] = 1 => pc' = pc /\ at' = [at EXCEPT ![p] = 2] /\ UNCHANGED <<submitted, carried>>
      /\ at[p] = 2 => /\ pc' = [pc EXCEPT ![p] = IF p = Boot THEN "show" ELSE "done"]
                      /\ at' = [at EXCEPT ![p] = 1]
                      /\ submitted' = IF submitted = p THEN None ELSE submitted
                      /\ carried' = [q \in DOMAIN carried |-> IF q = p THEN None ELSE carried[q]]
      /\ UNCHANGED <<issued, stale, revoked, user, screen, found, kills, faults, overlapped,
                     torn, refused>>
  BY <1>1 DEF Clear, Goto, Release, Forget, gateway, history
<1>4. at' \in [Processes -> 1..5] /\ pc' \in [Processes -> Steps]
  BY <1>1, <1>3 DEF Steps
<1>5. /\ carried' \in [Calls \cup Logouts -> Tokens]
      /\ p \in Calls => carried'[p] \in {carried[p], None}
      /\ \A q \in (Calls \cup Logouts) \ {p} : carried'[q] = carried[q]
  BY <1>1, <1>3
<1>6. submitted' \in Tokens
  BY <1>1, <1>3 DEF SessionInv, TypeOK, Tokens
<1> QED
  BY <1>1, <1>2, <1>3, <1>4, <1>5, <1>6

LEMMA SubmitKeeps ==
    ASSUME SessionInv, NEW s \in SignIns, Submit(s)
    PROVE  SessionInv'
<1>1. pc \in [Processes -> Steps] /\ issued \subseteq SignIns
  BY DEF SessionInv, TypeOK, Steps
<1>2. /\ pc'[s] = "sent" /\ pc[s] = "idle" /\ \A q \in Processes \ {s} : pc'[q] = pc[q]
      /\ UNCHANGED <<issued, stale, revoked, storage, user, screen, at, carried, found, kills,
                     faults, torn, refused>>
      /\ overlapped' = (overlapped \/ \E p \in Processes \ Calls : p # s /\ Running(p))
      /\ screen = Kind[s] /\ submitted' = s
  BY <1>1, GotoMoves, Kinds DEF Submit, MayStart, gateway
<1>3. user = None
  BY <1>2, Kinds DEF SessionInv, UsersSeeTheDashboard, Forms
<1>4. TypeOK'
  BY <1>1, <1>2, <1>3, Kinds DEF SessionInv, TypeOK, Steps, Submit, Goto
<1>5. WritesInOrder'
  BY <1>1, <1>2, <1>3, Kinds DEF SessionInv, WritesInOrder
<1>6. ClearingWasRejected'
  BY <1>1, <1>2, <1>3, Kinds DEF SessionInv, ClearingWasRejected, Rejected
<1>7. NotYetIssued'
  BY <1>1, <1>2, <1>3, Kinds DEF SessionInv, NotYetIssued
<1>8. HeldIsIssued'
  BY <1>1, <1>2, <1>3, Kinds DEF SessionInv, HeldIsIssued, Token, Refresh
<1>9. UsersSeeTheDashboard'
  BY <1>1, <1>2, <1>3, Kinds DEF SessionInv, UsersSeeTheDashboard
<1>10. Alone'
  BY <1>1, <1>2, <1>3, Kinds DEF SessionInv, Alone, Running, Processes
<1>11. RemovedIsGone'
  BY <1>1, <1>2, <1>3, Kinds DEF SessionInv, RemovedIsGone, Token
<1>12. FoundIsStored'
  BY <1>1, <1>2, <1>3, Kinds DEF SessionInv, FoundIsStored, Token, Data
<1>13. TokenHasItsUser'
  BY <1>1, <1>2, <1>3, Kinds DEF SessionInv, TokenHasItsUser, Token, Data, Calm
<1>14. GuestHasNoToken'
  BY <1>1, <1>2, <1>3, Kinds DEF SessionInv, GuestHasNoToken, Guest, Running, Token
<1>15. IssuedIsKept'
  BY <1>1, <1>2, <1>3, Kinds DEF SessionInv, IssuedIsKept, Untroubled, Refresh
<1>16. LogoutsRevoke'
  BY <1>1, <1>2, <1>3, Kinds DEF SessionInv, LogoutsRevoke, Untroubled, Refresh
<1>17. GuestHasNoRefreshToken'
  <2>1. Guest' \/ Running(Boot)' => Guest \/ Running(Boot)
    BY <1>2, Kinds DEF Guest, Running
  <2> QED
    BY <1>2, <2>1 DEF SessionInv, GuestHasNoRefreshToken, Untroubled, Refresh
<1>18. SignInsBringTheirs'
  BY <1>1, <1>2, <1>3, Kinds DEF SessionInv, SignInsBringTheirs, Untroubled, Refresh
<1> QED
  BY <1>4, <1>5, <1>6, <1>7, <1>8, <1>9, <1>10, <1>11, <1>12, <1>13, <1>14, <1>15, <1>16, <1>17,
     <1>18
     DEF SessionInv

LEMMA StartCallKeeps ==
    ASSUME SessionInv, NEW c \in Calls, StartCall(c)
    PROVE  SessionInv'
<1>1. /\ pc \in [Processes -> Steps] /\ at \in [Processes -> 1..5] /\ issued \subseteq SignIns
      /\ faults \in Nat /\ kills \in Nat /\ storage \in Stored /\ Token \in Tokens /\ Refresh \in Tokens /\ Data \in Users
      /\ carried \in [Calls \cup Logouts -> Tokens]
  BY TypeFacts
<1>2. /\ pc[c] = "idle" /\ pc'[c] = "sent" /\ \A q \in Processes \ {c} : pc'[q] = pc[q]
      /\ carried' = [carried EXCEPT ![c] = storage.access_token]
      /\ UNCHANGED <<issued, stale, revoked, storage, user, screen, submitted, at, found,
                     kills, faults, overlapped, torn, refused>>
  BY <1>1, GotoMoves, Kinds DEF StartCall, MayStart, gateway, view, history
<1>3. TypeOK'
  BY <1>1, <1>2, Kinds DEF SessionInv, TypeOK, Steps, StartCall, Goto, Stored
<1>4. WritesInOrder'
  BY <1>1, <1>2, Kinds DEF SessionInv, WritesInOrder
<1>5. ClearingWasRejected'
  BY <1>1, <1>2, Kinds DEF SessionInv, ClearingWasRejected, Rejected
<1>6. NotYetIssued'
  BY <1>1, <1>2, Kinds DEF SessionInv, NotYetIssued
<1>7. HeldIsIssued'
  BY <1>1, <1>2, Kinds DEF SessionInv, HeldIsIssued, Token, Refresh
<1>8. UsersSeeTheDashboard'
  BY <1>1, <1>2, Kinds DEF SessionInv, UsersSeeTheDashboard
<1>9. Alone'
  BY <1>1, <1>2, Kinds DEF SessionInv, Alone, Running
<1>10. RemovedIsGone'
  BY <1>1, <1>2, Kinds DEF SessionInv, RemovedIsGone, Token
<1>11. FoundIsStored'
  BY <1>1, <1>2, Kinds DEF SessionInv, FoundIsStored, Token, Data
<1>12. TokenHasItsUser'
  BY <1>1, <1>2, Kinds DEF SessionInv, TokenHasItsUser, Token, Data, Calm
<1>13. GuestHasNoToken'
  BY <1>1, <1>2, Kinds DEF SessionInv, GuestHasNoToken, Guest, Running, Token
<1>14. IssuedIsKept'
  BY <1>1, <1>2, Kinds DEF SessionInv, IssuedIsKept, Untroubled, Refresh
<1>15. LogoutsRevoke'
  BY <1>1, <1>2, Kinds DEF SessionInv, LogoutsRevoke, Untroubled, Refresh
<1>16. GuestHasNoRefreshToken'
  <2>1. Guest' \/ Running(Boot)' => Guest \/ Running(Boot)
    BY <1>1, <1>2, Kinds DEF Guest, Running
  <2> QED
    BY <1>1, <1>2, <2>1 DEF SessionInv, GuestHasNoRefreshToken, Untroubled, Refresh
<1>17. SignInsBringTheirs'
  BY <1>1, <1>2, Kinds DEF SessionInv, SignInsBringTheirs, Untroubled, Refresh
<1> QED
  BY <1>3, <1>4, <1>5, <1>6, <1>7, <1>8, <1>9, <1>10, <1>11, <1>12, <1>13, <1>14, <1>15, <1>16,
     <1>17
     DEF SessionInv

LEMMA AnswerKeeps ==
    ASSUME SessionInv, NEW c \in Calls, Answer(c)
    PROVE  SessionInv'
<1>1. /\ pc \in [Processes -> Steps] /\ at \in [Processes -> 1..5] /\ issued \subseteq SignIns
      /\ faults \in Nat /\ kills \in Nat /\ storage \in Stored /\ Token \in Tokens /\ Refresh \in Tokens /\ Data \in Users
      /\ carried \in [Calls \cup Logouts -> Tokens]
  BY TypeFacts
<1>2. /\ pc[c] = "sent" /\ pc'[c] \in {"done", "clear"} /\ \A q \in Processes \ {c} : pc'[q] = pc[q]
      /\ pc'[c] = "clear" => Rejected(c) /\ refused' = TRUE /\ carried' = carried
      /\ pc'[c] = "done" => refused' = refused /\ carried'[c] = None
      /\ carried' \in [Calls \cup Logouts -> Tokens] /\ pc' \in [Processes -> Steps]
      /\ \A q \in (Calls \cup Logouts) \ {c} : carried'[q] = carried[q]
      /\ UNCHANGED <<issued, stale, revoked, storage, user, screen, submitted, at, found,
                     kills, faults, overlapped, torn>>
  BY <1>1, GotoMoves, Kinds DEF Answer, Goto, Steps, Tokens, Forget, gateway, view, history
<1>3. TypeOK'
  BY <1>1, <1>2, Kinds DEF SessionInv, TypeOK, Steps
<1>4. WritesInOrder'
  BY <1>1, <1>2, Kinds DEF SessionInv, WritesInOrder
<1>5. ClearingWasRejected'
  BY <1>1, <1>2, Kinds DEF SessionInv, ClearingWasRejected, Rejected
<1>6. NotYetIssued'
  BY <1>1, <1>2, Kinds DEF SessionInv, NotYetIssued
<1>7. HeldIsIssued'
  BY <1>1, <1>2, Kinds DEF SessionInv, HeldIsIssued, Token, Refresh
<1>8. UsersSeeTheDashboard'
  BY <1>1, <1>2, Kinds DEF SessionInv, UsersSeeTheDashboard
<1>9. Alone'
  BY <1>1, <1>2, Kinds DEF SessionInv, Alone, Running
<1>10. RemovedIsGone'
  BY <1>1, <1>2, Kinds DEF SessionInv, RemovedIsGone, Token
<1>11. FoundIsStored'
  BY <1>1, <1>2, Kinds DEF SessionInv, FoundIsStored, Token, Data
<1>12. TokenHasItsUser'
  BY <1>1, <1>2, Kinds DEF SessionInv, TokenHasItsUser, Token, Data, Calm
<1>13. GuestHasNoToken'
  BY <1>1, <1>2, Kinds DEF SessionInv, GuestHasNoToken, Guest, Running, Token
<1>14. IssuedIsKept'
  BY <1>1, <1>2, Kinds DEF SessionInv, IssuedIsKept, Untroubled, Refresh
<1>15. LogoutsRevoke'
  BY <1>1, <1>2, Kinds DEF SessionInv, LogoutsRevoke, Untroubled, Refresh
<1>16. GuestHasNoRefreshToken'
  <2>1. Guest' \/ Running(Boot)' => Guest \/ Running(Boot)
    BY <1>1, <1>2, Kinds DEF Guest, Running
  <2> QED
    BY <1>1, <1>2, <2>1 DEF SessionInv, GuestHasNoRefreshToken, Untroubled, Refresh
<1>17. SignInsBringTheirs'
  BY <1>1, <1>2, Kinds DEF SessionInv, SignInsBringTheirs, Untroubled, Refresh
<1> QED
  BY <1>3, <1>4, <1>5, <1>6, <1>7, <1>8, <1>9, <1>10, <1>11, <1>12, <1>13, <1>14, <1>15, <1>16,
     <1>17
     DEF SessionInv

LEMMA CheckTokenKeeps ==
    ASSUME SessionInv, CheckToken
    PROVE  SessionInv'
<1>1. /\ pc \in [Processes -> Steps] /\ at \in [Processes -> 1..5] /\ issued \subseteq SignIns
      /\ faults \in Nat /\ kills \in Nat /\ storage \in Stored /\ Token \in Tokens /\ Refresh \in Tokens /\ Data \in Users
      /\ carried \in [Calls \cup Logouts -> Tokens]
  BY TypeFacts
<1>2. /\ pc[Boot] = "token" /\ pc'[Boot] = (IF Token = None THEN "show" ELSE "user")
      /\ \A q \in Processes \ {Boot} : pc'[q] = pc[q]
      /\ UNCHANGED <<issued, stale, revoked, storage, user, screen, submitted, at, carried,
                     found, kills, faults, overlapped, torn, refused>>
  BY <1>1, GotoMoves, Kinds DEF CheckToken, Token, gateway, view, history
<1>3. TypeOK'
  BY <1>1, <1>2, Kinds DEF SessionInv, TypeOK, Steps, CheckToken, Goto
<1>4. WritesInOrder'
  BY <1>1, <1>2, Kinds DEF SessionInv, WritesInOrder
<1>5. ClearingWasRejected'
  BY <1>1, <1>2, Kinds DEF SessionInv, ClearingWasRejected, Rejected
<1>6. NotYetIssued'
  BY <1>1, <1>2, Kinds DEF SessionInv, NotYetIssued
<1>7. HeldIsIssued'
  BY <1>1, <1>2, Kinds DEF SessionInv, HeldIsIssued, Token, Refresh
<1>8. UsersSeeTheDashboard'
  BY <1>1, <1>2, Kinds DEF SessionInv, UsersSeeTheDashboard
<1>9. Alone'
  BY <1>1, <1>2, Kinds DEF SessionInv, Alone, Running
<1>10. RemovedIsGone'
  BY <1>1, <1>2, Kinds DEF SessionInv, RemovedIsGone, Token
<1>11. FoundIsStored'
  BY <1>1, <1>2, Kinds DEF SessionInv, FoundIsStored, Token, Data
<1>12. TokenHasItsUser'
  BY <1>1, <1>2, Kinds DEF SessionInv, TokenHasItsUser, Token, Data, Calm
<1>13. GuestHasNoToken'
  BY <1>1, <1>2, Kinds DEF SessionInv, GuestHasNoToken, Guest, Running, Token
<1>14. IssuedIsKept'
  BY <1>1, <1>2, Kinds DEF SessionInv, IssuedIsKept, Untroubled, Refresh
<1>15. LogoutsRevoke'
  BY <1>1, <1>2, Kinds DEF SessionInv, LogoutsRevoke, Untroubled, Refresh
<1>16. GuestHasNoRefreshToken'
  <2>1. Guest' \/ Running(Boot)' => Guest \/ Running(Boot)
    BY <1>1, <1>2, Kinds DEF Guest, Running
  <2> QED
    BY <1>1, <1>2, <2>1 DEF SessionInv, GuestHasNoRefreshToken, Untroubled, Refresh
<1>17. SignInsBringTheirs'
  BY <1>1, <1>2, Kinds DEF SessionInv, SignInsBringTheirs, Untroubled, Refresh
<1> QED
  BY <1>3, <1>4, <1>5, <1>6, <1>7, <1>8, <1>9, <1>10, <1>11, <1>12, <1>13, <1>14, <1>15, <1>16,
     <1>17
     DEF SessionInv

LEMMA CheckUserKeeps ==
    ASSUME SessionInv, CheckUser
    PROVE  SessionInv'
<1>1. /\ pc \in [Processes -> Steps] /\ at \in [Processes -> 1..5] /\ issued \subseteq SignIns
      /\ faults \in Nat /\ kills \in Nat /\ storage \in Stored /\ Token \in Tokens /\ Refresh \in Tokens /\ Data \in Users
      /\ carried \in [Calls \cup Logouts -> Tokens]
  BY TypeFacts
<1>2. /\ pc[Boot] = "user" /\ pc'[Boot] = (IF Data = None THEN "clear" ELSE "show")
      /\ found' = Data /\ \A q \in Processes \ {Boot} : pc'[q] = pc[q]
      /\ UNCHANGED <<issued, stale, revoked, storage, user, screen, submitted, at, carried,
                     kills, faults, overlapped, torn, refused>>
  BY <1>1, GotoMoves, Kinds DEF CheckUser, Data, gateway, view, history
<1>3. TypeOK'
  BY <1>1, <1>2, Kinds DEF SessionInv, TypeOK, Steps, CheckUser, Goto
<1>4. WritesInOrder'
  BY <1>1, <1>2, Kinds DEF SessionInv, WritesInOrder
<1>5. ClearingWasRejected'
  BY <1>1, <1>2, Kinds DEF SessionInv, ClearingWasRejected, Rejected
<1>6. NotYetIssued'
  BY <1>1, <1>2, Kinds DEF SessionInv, NotYetIssued
<1>7. HeldIsIssued'
  BY <1>1, <1>2, Kinds DEF SessionInv, HeldIsIssued, Token, Refresh
<1>8. UsersSeeTheDashboard'
  BY <1>1, <1>2, Kinds DEF SessionInv, UsersSeeTheDashboard
<1>9. Alone'
  BY <1>1, <1>2, Kinds DEF SessionInv, Alone, Running
<1>10. RemovedIsGone'
  BY <1>1, <1>2, Kinds DEF SessionInv, RemovedIsGone, Token
<1>11. FoundIsStored'
  BY <1>1, <1>2, Kinds DEF SessionInv, FoundIsStored, Token, Data, WritesInOrder
<1>12. TokenHasItsUser'
  BY <1>1, <1>2, Kinds DEF SessionInv, TokenHasItsUser, Token, Data, Calm
<1>13. GuestHasNoToken'
  BY <1>1, <1>2, Kinds DEF SessionInv, GuestHasNoToken, Guest, Running, Token
<1>14. IssuedIsKept'
  BY <1>1, <1>2, Kinds DEF SessionInv, IssuedIsKept, Untroubled, Refresh
<1>15. LogoutsRevoke'
  BY <1>1, <1>2, Kinds DEF SessionInv, LogoutsRevoke, Untroubled, Refresh
<1>16. GuestHasNoRefreshToken'
  <2>1. Guest' \/ Running(Boot)' => Guest \/ Running(Boot)
    BY <1>1, <1>2, Kinds DEF Guest, Running
  <2> QED
    BY <1>1, <1>2, <2>1 DEF SessionInv, GuestHasNoRefreshToken, Untroubled, Refresh
<1>17. SignInsBringTheirs'
  BY <1>1, <1>2, Kinds DEF SessionInv, SignInsBringTheirs, Untroubled, Refresh
<1> QED
  BY <1>3, <1>4, <1>5, <1>6, <1>7, <1>8, <1>9, <1>10, <1>11, <1>12, <1>13, <1>14, <1>15, <1>16,
     <1>17
     DEF SessionInv

LEMMA ShowFoundKeeps ==
    ASSUME SessionInv, ShowFound
    PROVE  SessionInv'
<1>1. /\ pc \in [Processes -> Steps] /\ at \in [Processes -> 1..5] /\ issued \subseteq SignIns
      /\ faults \in Nat /\ kills \in Nat /\ storage \in Stored /\ Token \in Tokens /\ Refresh \in Tokens /\ Data \in Users
      /\ carried \in [Calls \cup Logouts -> Tokens]
  BY TypeFacts
<1>2. /\ pc[Boot] = "show" /\ pc'[Boot] = "done" /\ \A q \in Processes \ {Boot} : pc'[q] = pc[q]
      /\ user' = found /\ found' = None /\ (found # None => screen' = "dashboard")
      /\ UNCHANGED <<issued, stale, revoked, storage, at, carried, kills, faults, overlapped,
                     torn, refused>>
  BY <1>1, GotoMoves, Kinds DEF ShowFound, SetUser, gateway, view, history
<1>3. TypeOK'
  BY <1>1, <1>2, Kinds
     DEF SessionInv, TypeOK, Steps, ShowFound, SetUser, Goto, Tokens, Users, Routes
<1>4. WritesInOrder'
  BY <1>1, <1>2, Kinds DEF SessionInv, WritesInOrder
<1>5. ClearingWasRejected'
  BY <1>1, <1>2, Kinds DEF SessionInv, ClearingWasRejected, Rejected
<1>6. NotYetIssued'
  BY <1>1, <1>2, Kinds DEF SessionInv, NotYetIssued
<1>7. HeldIsIssued'
  BY <1>1, <1>2, Kinds DEF SessionInv, HeldIsIssued, Token, Refresh
<1>8. UsersSeeTheDashboard'
  BY <1>1, <1>2, Kinds DEF SessionInv, UsersSeeTheDashboard
<1>9. Alone'
  BY <1>1, <1>2, Kinds DEF SessionInv, Alone, Running
<1>10. RemovedIsGone'
  BY <1>1, <1>2, Kinds DEF SessionInv, RemovedIsGone, Token
<1>11. FoundIsStored'
  BY <1>1, <1>2, Kinds DEF SessionInv, FoundIsStored, Token, Data
<1>12. TokenHasItsUser'
  BY <1>1, <1>2, Kinds DEF SessionInv, TokenHasItsUser, Token, Data, Calm, FoundIsStored
<1>13. GuestHasNoToken'
  BY <1>1, <1>2, Kinds DEF SessionInv, GuestHasNoToken, Guest, Running, Token, FoundIsStored
<1>14. IssuedIsKept'
  BY <1>1, <1>2, Kinds DEF SessionInv, IssuedIsKept, Untroubled, Refresh
<1>15. LogoutsRevoke'
  BY <1>1, <1>2, Kinds DEF SessionInv, LogoutsRevoke, Untroubled, Refresh
<1>16. GuestHasNoRefreshToken'
  BY <1>1, <1>2, Kinds DEF SessionInv, GuestHasNoRefreshToken, Untroubled, Refresh, Guest, Running
<1>17. SignInsBringTheirs'
  BY <1>1, <1>2, Kinds DEF SessionInv, SignInsBringTheirs, Untroubled, Refresh
<1> QED
  BY <1>3, <1>4, <1>5, <1>6, <1>7, <1>8, <1>9, <1>10, <1>11, <1>12, <1>13, <1>14, <1>15, <1>16,
     <1>17
     DEF SessionInv

LEMMA NavigateKeeps ==
    ASSUME SessionInv, NEW to \in Forms \cup {"index"}, Navigate(to)
    PROVE  SessionInv'
<1>1. /\ pc \in [Processes -> Steps] /\ at \in [Processes -> 1..5] /\ issued \subseteq SignIns
      /\ faults \in Nat /\ kills \in Nat /\ storage \in Stored /\ Token \in Tokens /\ Refresh \in Tokens /\ Data \in Users
      /\ carried \in [Calls \cup Logouts -> Tokens]
  BY TypeFacts
<1>2. /\ user = None /\ UNCHANGED pc
      /\ UNCHANGED <<issued, stale, revoked, storage, user, at, carried, found, kills, faults,
                     overlapped, torn, refused>>
  BY <1>1 DEF SessionInv, UsersSeeTheDashboard, Navigate, Forms, gateway, history
<1>3. TypeOK'
  BY <1>1, <1>2, Kinds DEF SessionInv, TypeOK, Steps, Navigate, Tokens, Routes
<1>4. WritesInOrder'
  BY <1>1, <1>2, Kinds DEF SessionInv, WritesInOrder
<1>5. ClearingWasRejected'
  BY <1>1, <1>2, Kinds DEF SessionInv, ClearingWasRejected, Rejected
<1>6. NotYetIssued'
  BY <1>1, <1>2, Kinds DEF SessionInv, NotYetIssued
<1>7. HeldIsIssued'
  BY <1>1, <1>2, Kinds DEF SessionInv, HeldIsIssued, Token, Refresh
<1>8. UsersSeeTheDashboard'
  BY <1>1, <1>2, Kinds DEF SessionInv, UsersSeeTheDashboard
<1>9. Alone'
  BY <1>1, <1>2, Kinds DEF SessionInv, Alone, Running
<1>10. RemovedIsGone'
  BY <1>1, <1>2, Kinds DEF SessionInv, RemovedIsGone, Token
<1>11. FoundIsStored'
  BY <1>1, <1>2, Kinds DEF SessionInv, FoundIsStored, Token, Data
<1>12. TokenHasItsUser'
  BY <1>1, <1>2, Kinds DEF SessionInv, TokenHasItsUser, Token, Data, Calm
<1>13. GuestHasNoToken'
  BY <1>1, <1>2, Kinds DEF SessionInv, GuestHasNoToken, Guest, Running, Token
<1>14. IssuedIsKept'
  BY <1>1, <1>2, Kinds DEF SessionInv, IssuedIsKept, Untroubled, Refresh
<1>15. LogoutsRevoke'
  BY <1>1, <1>2, Kinds DEF SessionInv, LogoutsRevoke, Untroubled, Refresh
<1>16. GuestHasNoRefreshToken'
  BY <1>1, <1>2, Kinds DEF SessionInv, GuestHasNoRefreshToken, Untroubled, Refresh, Guest, Running
<1>17. SignInsBringTheirs'
  BY <1>1, <1>2, Kinds DEF SessionInv, SignInsBringTheirs, Untroubled, Refresh
<1> QED
  BY <1>3, <1>4, <1>5, <1>6, <1>7, <1>8, <1>9, <1>10, <1>11, <1>12, <1>13, <1>14, <1>15, <1>16,
     <1>17
     DEF SessionInv

LEMMA GrantedKeeps ==
    ASSUME SessionInv, NEW s \in SignIns, Granted(s)
    PROVE  SessionInv'
<1>1. /\ pc \in [Processes -> Steps] /\ at \in [Processes -> 1..5] /\ issued \subseteq SignIns
      /\ faults \in Nat /\ kills \in Nat /\ storage \in Stored /\ Token \in Tokens /\ Refresh \in Tokens /\ Data \in Users
      /\ carried \in [Calls \cup Logouts -> Tokens]
  BY TypeFacts
<1>2. /\ pc[s] = "sent" /\ pc'[s] = "store" /\ at[s] = 1 /\ \A q \in Processes \ {s} : pc'[q] = pc[q]
      /\ issued' = issued \cup {s}
      /\ UNCHANGED <<stale, revoked, storage, user, screen, submitted, at, carried, found,
                     kills, faults, overlapped, torn, refused>>
  BY <1>1, GotoMoves, Kinds DEF Granted, gateway, view, history, SessionInv, WritesInOrder
<1>3. TypeOK'
  BY <1>1, <1>2, Kinds DEF SessionInv, TypeOK, Steps, Granted, Goto
<1>4. WritesInOrder'
  BY <1>1, <1>2, Kinds DEF SessionInv, WritesInOrder
<1>5. ClearingWasRejected'
  BY <1>1, <1>2, Kinds DEF SessionInv, ClearingWasRejected, Rejected
<1>6. NotYetIssued'
  BY <1>1, <1>2, Kinds DEF SessionInv, NotYetIssued
<1>7. HeldIsIssued'
  BY <1>1, <1>2, Kinds DEF SessionInv, HeldIsIssued, Token, Refresh
<1>8. UsersSeeTheDashboard'
  BY <1>1, <1>2, Kinds DEF SessionInv, UsersSeeTheDashboard
<1>9. Alone'
  BY <1>1, <1>2, Kinds DEF SessionInv, Alone, Running
<1>10. RemovedIsGone'
  BY <1>1, <1>2, Kinds DEF SessionInv, RemovedIsGone, Token
<1>11. FoundIsStored'
  BY <1>1, <1>2, Kinds DEF SessionInv, FoundIsStored, Token, Data
<1>12. TokenHasItsUser'
  BY <1>1, <1>2, Kinds DEF SessionInv, TokenHasItsUser, Token, Data, Calm
<1>13. GuestHasNoToken'
  BY <1>1, <1>2, Kinds DEF SessionInv, GuestHasNoToken, Guest, Running, Token
<1>14. IssuedIsKept'
  BY <1>1, <1>2, Kinds DEF SessionInv, IssuedIsKept, Untroubled, Refresh
<1>15. LogoutsRevoke'
  BY <1>1, <1>2, Kinds DEF SessionInv, LogoutsRevoke, Untroubled, Refresh
<1>16. GuestHasNoRefreshToken'
  BY <1>1, <1>2, Kinds DEF SessionInv, GuestHasNoRefreshToken, Untroubled, Refresh, Guest, Running
<1>17. SignInsBringTheirs'
  BY <1>1, <1>2, Kinds
     DEF SessionInv, SignInsBringTheirs, Untroubled, Refresh, GuestHasNoRefreshToken, Guest,
         Alone, Running
<1> QED
  BY <1>3, <1>4, <1>5, <1>6, <1>7, <1>8, <1>9, <1>10, <1>11, <1>12, <1>13, <1>14, <1>15, <1>16,
     <1>17
     DEF SessionInv

LEMMA DeniedKeeps ==
    ASSUME SessionInv, NEW s \in SignIns, Denied(s)
    PROVE  SessionInv'
<1>1. /\ pc \in [Processes -> Steps] /\ at \in [Processes -> 1..5] /\ issued \subseteq SignIns
      /\ faults \in Nat /\ kills \in Nat /\ storage \in Stored /\ Token \in Tokens /\ Refresh \in Tokens /\ Data \in Users
      /\ carried \in [Calls \cup Logouts -> Tokens]
  BY TypeFacts
<1>2. /\ pc[s] = "sent" /\ pc'[s] \in {"clear", "done"} /\ at[s] = 1 /\ \A q \in Processes \ {s} : pc'[q] = pc[q]
      /\ \/ UNCHANGED <<issued, faults>>
         \/ faults' = faults + 1 /\ issued' = issued \cup {s} /\ pc'[s] = "done"
      /\ UNCHANGED <<stale, revoked, storage, user, screen, at, carried, found, kills,
                     overlapped, torn, refused>>
  BY <1>1, GotoMoves, Kinds DEF Denied, Lose, gateway, view, history, SessionInv, WritesInOrder
<1>3. TypeOK'
  BY <1>1, <1>2, Kinds DEF SessionInv, TypeOK, Steps, Denied, Lose, Release, Goto, Tokens
<1>4. WritesInOrder'
  BY <1>1, <1>2, Kinds DEF SessionInv, WritesInOrder
<1>5. ClearingWasRejected'
  BY <1>1, <1>2, Kinds DEF SessionInv, ClearingWasRejected, Rejected
<1>6. NotYetIssued'
  BY <1>1, <1>2, Kinds DEF SessionInv, NotYetIssued
<1>7. HeldIsIssued'
  BY <1>1, <1>2, Kinds DEF SessionInv, HeldIsIssued, Token, Refresh
<1>8. UsersSeeTheDashboard'
  BY <1>1, <1>2, Kinds DEF SessionInv, UsersSeeTheDashboard
<1>9. Alone'
  BY <1>1, <1>2, Kinds DEF SessionInv, Alone, Running
<1>10. RemovedIsGone'
  BY <1>1, <1>2, Kinds DEF SessionInv, RemovedIsGone, Token
<1>11. FoundIsStored'
  BY <1>1, <1>2, Kinds DEF SessionInv, FoundIsStored, Token, Data
<1>12. TokenHasItsUser'
  BY <1>1, <1>2, Kinds DEF SessionInv, TokenHasItsUser, Token, Data, Calm
<1>13. GuestHasNoToken'
  BY <1>1, <1>2, Kinds DEF SessionInv, GuestHasNoToken, Guest, Running, Token
<1>14. IssuedIsKept'
  BY <1>1, <1>2, Kinds DEF SessionInv, IssuedIsKept, Untroubled, Refresh
<1>15. LogoutsRevoke'
  BY <1>1, <1>2, Kinds DEF SessionInv, LogoutsRevoke, Untroubled, Refresh
<1>16. GuestHasNoRefreshToken'
  <2>1. Guest' \/ Running(Boot)' => Guest \/ Running(Boot)
    BY <1>1, <1>2, Kinds DEF Guest, Running
  <2> QED
    BY <1>1, <1>2, <2>1 DEF SessionInv, GuestHasNoRefreshToken, Untroubled, Refresh
<1>17. SignInsBringTheirs'
  BY <1>1, <1>2, Kinds DEF SessionInv, SignInsBringTheirs, Untroubled, Refresh
<1> QED
  BY <1>3, <1>4, <1>5, <1>6, <1>7, <1>8, <1>9, <1>10, <1>11, <1>12, <1>13, <1>14, <1>15, <1>16,
     <1>17
     DEF SessionInv

LEMMA EnterKeeps ==
    ASSUME SessionInv, NEW s \in SignIns, Enter(s)
    PROVE  SessionInv'
<1>1. /\ pc \in [Processes -> Steps] /\ at \in [Processes -> 1..5] /\ issued \subseteq SignIns
      /\ faults \in Nat /\ kills \in Nat /\ storage \in Stored /\ Token \in Tokens /\ Refresh \in Tokens /\ Data \in Users
      /\ carried \in [Calls \cup Logouts -> Tokens]
  BY TypeFacts
<1>2. /\ pc[s] = "show" /\ pc'[s] = "done" /\ \A q \in Processes \ {s} : pc'[q] = pc[q]
      /\ user' = Account[s] /\ user' # None /\ screen' = "dashboard"
      /\ UNCHANGED <<issued, stale, revoked, storage, at, carried, found, kills, faults,
                     overlapped, torn, refused>>
  BY <1>1, GotoMoves, Kinds DEF Enter, SetUser, gateway, view, history
<1>3. TypeOK'
  BY <1>1, <1>2, Kinds DEF SessionInv, TypeOK, Steps, Enter, SetUser, Goto, Tokens, Users, Routes
<1>4. WritesInOrder'
  BY <1>1, <1>2, Kinds DEF SessionInv, WritesInOrder
<1>5. ClearingWasRejected'
  BY <1>1, <1>2, Kinds DEF SessionInv, ClearingWasRejected, Rejected
<1>6. NotYetIssued'
  BY <1>1, <1>2, Kinds DEF SessionInv, NotYetIssued
<1>7. HeldIsIssued'
  BY <1>1, <1>2, Kinds DEF SessionInv, HeldIsIssued, Token, Refresh
<1>8. UsersSeeTheDashboard'
  BY <1>1, <1>2, Kinds DEF SessionInv, UsersSeeTheDashboard
<1>9. Alone'
  BY <1>1, <1>2, Kinds DEF SessionInv, Alone, Running
<1>10. RemovedIsGone'
  BY <1>1, <1>2, Kinds DEF SessionInv, RemovedIsGone, Token
<1>11. FoundIsStored'
  BY <1>1, <1>2, Kinds DEF SessionInv, FoundIsStored, Token, Data
<1>12. TokenHasItsUser'
  BY <1>1, <1>2, Kinds DEF SessionInv, TokenHasItsUser, Token, Data, Calm
<1>13. GuestHasNoToken'
  BY <1>1, <1>2, Kinds DEF SessionInv, GuestHasNoToken, Guest, Running, Token
<1>14. IssuedIsKept'
  BY <1>1, <1>2, Kinds DEF SessionInv, IssuedIsKept, Untroubled, Refresh
<1>15. LogoutsRevoke'
  BY <1>1, <1>2, Kinds DEF SessionInv, LogoutsRevoke, Untroubled, Refresh
<1>16. GuestHasNoRefreshToken'
  BY <1>1, <1>2, Kinds DEF SessionInv, GuestHasNoRefreshToken, Untroubled, Refresh, Guest, Running
<1>17. SignInsBringTheirs'
  BY <1>1, <1>2, Kinds DEF SessionInv, SignInsBringTheirs, Untroubled, Refresh
<1> QED
  BY <1>3, <1>4, <1>5, <1>6, <1>7, <1>8, <1>9, <1>10, <1>11, <1>12, <1>13, <1>14, <1>15, <1>16,
     <1>17
     DEF SessionInv

LEMMA StartLogoutKeeps ==
    ASSUME SessionInv, NEW o \in Logouts, StartLogout(o)
    PROVE  SessionInv'
<1>1. /\ pc \in [Processes -> Steps] /\ at \in [Processes -> 1..5] /\ issued \subseteq SignIns
      /\ faults \in Nat /\ kills \in Nat /\ storage \in Stored /\ Token \in Tokens /\ Refresh \in Tokens /\ Data \in Users
      /\ carried \in [Calls \cup Logouts -> Tokens]
  BY TypeFacts
<1>2. /\ pc[o] = "idle" /\ pc'[o] = "sent" /\ \A q \in Processes \ {o} : pc'[q] = pc[q]
      /\ user # None /\ carried'[o] = Refresh
      /\ \A q \in (Calls \cup Logouts) \ {o} : carried'[q] = carried[q]
      /\ overlapped' = (overlapped \/ \E s \in SignIns : Running(s))
      /\ UNCHANGED <<issued, stale, revoked, storage, user, screen, submitted, at, found,
                     kills, faults, torn, refused>>
  BY <1>1, GotoMoves, Kinds DEF StartLogout, MayStart, Refresh, gateway, view, history
<1>3. TypeOK'
  BY <1>1, <1>2, Kinds DEF SessionInv, TypeOK, Steps, StartLogout, Goto, Stored
<1>4. WritesInOrder'
  BY <1>1, <1>2, Kinds DEF SessionInv, WritesInOrder
<1>5. ClearingWasRejected'
  BY <1>1, <1>2, Kinds DEF SessionInv, ClearingWasRejected, Rejected
<1>6. NotYetIssued'
  BY <1>1, <1>2, Kinds DEF SessionInv, NotYetIssued
<1>7. HeldIsIssued'
  BY <1>1, <1>2, Kinds DEF SessionInv, HeldIsIssued, Token, Refresh
<1>8. UsersSeeTheDashboard'
  BY <1>1, <1>2, Kinds DEF SessionInv, UsersSeeTheDashboard
<1>9. Alone'
  BY <1>1, <1>2, Kinds DEF SessionInv, Alone, Running
<1>10. RemovedIsGone'
  BY <1>1, <1>2, Kinds DEF SessionInv, RemovedIsGone, Token
<1>11. FoundIsStored'
  BY <1>1, <1>2, Kinds DEF SessionInv, FoundIsStored, Token, Data
<1>12. TokenHasItsUser'
  BY <1>1, <1>2, Kinds DEF SessionInv, TokenHasItsUser, Token, Data, Calm
<1>13. GuestHasNoToken'
  BY <1>1, <1>2, Kinds DEF SessionInv, GuestHasNoToken, Guest, Running, Token
<1>14. IssuedIsKept'
  BY <1>1, <1>2, Kinds DEF SessionInv, IssuedIsKept, Untroubled, Refresh
<1>15. LogoutsRevoke'
  BY <1>1, <1>2, Kinds DEF SessionInv, LogoutsRevoke, Untroubled, Refresh
<1>16. GuestHasNoRefreshToken'
  BY <1>1, <1>2, Kinds DEF SessionInv, GuestHasNoRefreshToken, Untroubled, Refresh, Guest, Running
<1>17. SignInsBringTheirs'
  BY <1>1, <1>2, Kinds DEF SessionInv, SignInsBringTheirs, Untroubled, Refresh
<1> QED
  BY <1>3, <1>4, <1>5, <1>6, <1>7, <1>8, <1>9, <1>10, <1>11, <1>12, <1>13, <1>14, <1>15, <1>16,
     <1>17
     DEF SessionInv

LEMMA EndLogoutKeeps ==
    ASSUME SessionInv, NEW o \in Logouts, EndLogout(o)
    PROVE  SessionInv'
<1>1. /\ pc \in [Processes -> Steps] /\ at \in [Processes -> 1..5] /\ issued \subseteq SignIns
      /\ faults \in Nat /\ kills \in Nat /\ storage \in Stored /\ Token \in Tokens /\ Refresh \in Tokens /\ Data \in Users
      /\ carried \in [Calls \cup Logouts -> Tokens]
  BY TypeFacts
<1>2. /\ pc[o] = "sent" /\ pc'[o] = "store" /\ at[o] = 1 /\ \A q \in Processes \ {o} : pc'[q] = pc[q]
      /\ \/ revoked' = revoked \cup ({carried[o]} \ {None}) /\ UNCHANGED faults
         \/ faults' = faults + 1 /\ UNCHANGED revoked
      /\ carried'[o] = None
      /\ \A q \in (Calls \cup Logouts) \ {o} : carried'[q] = carried[q]
      /\ UNCHANGED <<issued, stale, storage, user, screen, submitted, at, found, kills,
                     overlapped, torn, refused>>
  BY <1>1, GotoMoves, Kinds
     DEF EndLogout, Lose, Forget, gateway, view, history, SessionInv, WritesInOrder
<1>3. TypeOK'
  BY <1>1, <1>2, Kinds
     DEF SessionInv, TypeOK, Steps, EndLogout, HeldIsIssued, Lose, Forget, Goto, Tokens
<1>4. WritesInOrder'
  BY <1>1, <1>2, Kinds DEF SessionInv, WritesInOrder
<1>5. ClearingWasRejected'
  BY <1>1, <1>2, Kinds DEF SessionInv, ClearingWasRejected, Rejected
<1>6. NotYetIssued'
  BY <1>1, <1>2, Kinds DEF SessionInv, NotYetIssued
<1>7. HeldIsIssued'
  BY <1>1, <1>2, Kinds DEF SessionInv, HeldIsIssued, Token, Refresh
<1>8. UsersSeeTheDashboard'
  BY <1>1, <1>2, Kinds DEF SessionInv, UsersSeeTheDashboard
<1>9. Alone'
  BY <1>1, <1>2, Kinds DEF SessionInv, Alone, Running
<1>10. RemovedIsGone'
  BY <1>1, <1>2, Kinds DEF SessionInv, RemovedIsGone, Token
<1>11. FoundIsStored'
  BY <1>1, <1>2, Kinds DEF SessionInv, FoundIsStored, Token, Data
<1>12. TokenHasItsUser'
  BY <1>1, <1>2, Kinds DEF SessionInv, TokenHasItsUser, Token, Data, Calm
<1>13. GuestHasNoToken'
  BY <1>1, <1>2, Kinds DEF SessionInv, GuestHasNoToken, Guest, Running, Token
<1>14. IssuedIsKept'
  BY <1>1, <1>2, Kinds DEF SessionInv, IssuedIsKept, Untroubled, Refresh
<1>15. LogoutsRevoke'
  BY <1>1, <1>2, Kinds DEF SessionInv, LogoutsRevoke, Untroubled, Refresh
<1>16. GuestHasNoRefreshToken'
  BY <1>1, <1>2, Kinds DEF SessionInv, GuestHasNoRefreshToken, Untroubled, Refresh, Guest, Running
<1>17. SignInsBringTheirs'
  BY <1>1, <1>2, Kinds DEF SessionInv, SignInsBringTheirs, Untroubled, Refresh
<1> QED
  BY <1>3, <1>4, <1>5, <1>6, <1>7, <1>8, <1>9, <1>10, <1>11, <1>12, <1>13, <1>14, <1>15, <1>16,
     <1>17
     DEF SessionInv

LEMMA LeaveKeeps ==
    ASSUME SessionInv, NEW o \in Logouts, Leave(o)
    PROVE  SessionInv'
<1>1. /\ pc \in [Processes -> Steps] /\ at \in [Processes -> 1..5] /\ issued \subseteq SignIns
      /\ faults \in Nat /\ kills \in Nat /\ storage \in Stored /\ Token \in Tokens /\ Refresh \in Tokens /\ Data \in Users
      /\ carried \in [Calls \cup Logouts -> Tokens]
  BY TypeFacts
<1>2. /\ pc[o] = "show" /\ pc'[o] = "done" /\ \A q \in Processes \ {o} : pc'[q] = pc[q]
      /\ user' = None
      /\ UNCHANGED <<issued, stale, revoked, storage, at, carried, found, kills, faults,
                     overlapped, torn, refused>>
  BY <1>1, GotoMoves, Kinds DEF Leave, gateway, view, history
<1>3. TypeOK'
  BY <1>1, <1>2, Kinds DEF SessionInv, TypeOK, Steps, Leave, Goto, Tokens, Users, Routes
<1>4. WritesInOrder'
  BY <1>1, <1>2, Kinds DEF SessionInv, WritesInOrder
<1>5. ClearingWasRejected'
  BY <1>1, <1>2, Kinds DEF SessionInv, ClearingWasRejected, Rejected
<1>6. NotYetIssued'
  BY <1>1, <1>2, Kinds DEF SessionInv, NotYetIssued
<1>7. HeldIsIssued'
  BY <1>1, <1>2, Kinds DEF SessionInv, HeldIsIssued, Token, Refresh
<1>8. UsersSeeTheDashboard'
  BY <1>1, <1>2, Kinds DEF SessionInv, UsersSeeTheDashboard
<1>9. Alone'
  BY <1>1, <1>2, Kinds DEF SessionInv, Alone, Running
<1>10. RemovedIsGone'
  BY <1>1, <1>2, Kinds DEF SessionInv, RemovedIsGone, Token
<1>11. FoundIsStored'
  BY <1>1, <1>2, Kinds DEF SessionInv, FoundIsStored, Token, Data
<1>12. TokenHasItsUser'
  BY <1>1, <1>2, Kinds DEF SessionInv, TokenHasItsUser, Token, Data, Calm
<1>13. GuestHasNoToken'
  BY <1>1, <1>2, Kinds DEF SessionInv, GuestHasNoToken, Guest, Running, Token, RemovedIsGone
<1>14. IssuedIsKept'
  BY <1>1, <1>2, Kinds DEF SessionInv, IssuedIsKept, Untroubled, Refresh
<1>15. LogoutsRevoke'
  BY <1>1, <1>2, Kinds DEF SessionInv, LogoutsRevoke, Untroubled, Refresh
<1>16. GuestHasNoRefreshToken'
  BY <1>1, <1>2, Kinds
     DEF SessionInv, GuestHasNoRefreshToken, Untroubled, Refresh, Guest, Running, LogoutsRevoke
<1>17. SignInsBringTheirs'
  BY <1>1, <1>2, Kinds DEF SessionInv, SignInsBringTheirs, Untroubled, Refresh
<1> QED
  BY <1>3, <1>4, <1>5, <1>6, <1>7, <1>8, <1>9, <1>10, <1>11, <1>12, <1>13, <1>14, <1>15, <1>16,
     <1>17
     DEF SessionInv

LEMMA ExpireKeeps ==
    ASSUME SessionInv, NEW s \in SignIns, Expire(s)
    PROVE  SessionInv'
<1>1. /\ pc \in [Processes -> Steps] /\ at \in [Processes -> 1..5] /\ issued \subseteq SignIns
      /\ faults \in Nat /\ kills \in Nat /\ storage \in Stored /\ Token \in Tokens /\ Refresh \in Tokens /\ Data \in Users
      /\ carried \in [Calls \cup Logouts -> Tokens]
  BY TypeFacts
<1>2. /\ stale' = stale \cup {s} /\ s \in issued /\ UNCHANGED pc
      /\ UNCHANGED <<issued, revoked, storage, user, screen, submitted, at, carried, found,
                     kills, faults, overlapped, torn, refused>>
  BY <1>1 DEF Expire, view, history
<1>3. TypeOK'
  BY <1>1, <1>2, Kinds DEF SessionInv, TypeOK, Steps, Expire
<1>4. WritesInOrder'
  BY <1>1, <1>2, Kinds DEF SessionInv, WritesInOrder
<1>5. ClearingWasRejected'
  BY <1>1, <1>2, Kinds DEF SessionInv, ClearingWasRejected, Rejected
<1>6. NotYetIssued'
  BY <1>1, <1>2, Kinds DEF SessionInv, NotYetIssued
<1>7. HeldIsIssued'
  BY <1>1, <1>2, Kinds DEF SessionInv, HeldIsIssued, Token, Refresh
<1>8. UsersSeeTheDashboard'
  BY <1>1, <1>2, Kinds DEF SessionInv, UsersSeeTheDashboard
<1>9. Alone'
  BY <1>1, <1>2, Kinds DEF SessionInv, Alone, Running
<1>10. RemovedIsGone'
  BY <1>1, <1>2, Kinds DEF SessionInv, RemovedIsGone, Token
<1>11. FoundIsStored'
  BY <1>1, <1>2, Kinds DEF SessionInv, FoundIsStored, Token, Data
<1>12. TokenHasItsUser'
  BY <1>1, <1>2, Kinds DEF SessionInv, TokenHasItsUser, Token, Data, Calm
<1>13. GuestHasNoToken'
  BY <1>1, <1>2, Kinds DEF SessionInv, GuestHasNoToken, Guest, Running, Token
<1>14. IssuedIsKept'
  BY <1>1, <1>2, Kinds DEF SessionInv, IssuedIsKept, Untroubled, Refresh
<1>15. LogoutsRevoke'
  BY <1>1, <1>2, Kinds DEF SessionInv, LogoutsRevoke, Untroubled, Refresh
<1>16. GuestHasNoRefreshToken'
  <2>1. Guest' \/ Running(Boot)' => Guest \/ Running(Boot)
    BY <1>1, <1>2, Kinds DEF Guest, Running
  <2> QED
    BY <1>1, <1>2, <2>1 DEF SessionInv, GuestHasNoRefreshToken, Untroubled, Refresh
<1>17. SignInsBringTheirs'
  BY <1>1, <1>2, Kinds DEF SessionInv, SignInsBringTheirs, Untroubled, Refresh
<1> QED
  BY <1>3, <1>4, <1>5, <1>6, <1>7, <1>8, <1>9, <1>10, <1>11, <1>12, <1>13, <1>14, <1>15, <1>16,
     <1>17
     DEF SessionInv

LEMMA StallKeeps ==
    ASSUME SessionInv, NEW p \in SignIns \cup Calls, Stall(p)
    PROVE  SessionInv'
<1>1. /\ pc \in [Processes -> Steps] /\ at \in [Processes -> 1..5] /\ issued \subseteq SignIns
      /\ faults \in Nat /\ kills \in Nat /\ storage \in Stored /\ Token \in Tokens /\ Refresh \in Tokens /\ Data \in Users
      /\ carried \in [Calls \cup Logouts -> Tokens]
  BY TypeFacts
<1>2. /\ pc[p] = "sent" /\ pc'[p] = "stalled" /\ \A q \in Processes \ {p} : pc'[q] = pc[q]
      /\ faults' = faults + 1 /\ issued' = issued \cup ({p} \cap SignIns)
      /\ p \in Calls => carried'[p] = None
      /\ \A q \in (Calls \cup Logouts) \ {p} : carried'[q] = carried[q]
      /\ UNCHANGED <<stale, revoked, storage, user, screen, submitted, at, found, kills,
                     overlapped, torn, refused>>
  BY <1>1, GotoMoves, Kinds DEF Stall, Lose, Forget, view, history
<1>3. TypeOK'
  BY <1>1, <1>2, Kinds DEF SessionInv, TypeOK, Steps, Stall, Lose, Forget, Goto, Tokens
<1>4. WritesInOrder'
  BY <1>1, <1>2, Kinds DEF SessionInv, WritesInOrder
<1>5. ClearingWasRejected'
  BY <1>1, <1>2, Kinds DEF SessionInv, ClearingWasRejected, Rejected
<1>6. NotYetIssued'
  BY <1>1, <1>2, Kinds DEF SessionInv, NotYetIssued
<1>7. HeldIsIssued'
  BY <1>1, <1>2, Kinds DEF SessionInv, HeldIsIssued, Token, Refresh
<1>8. UsersSeeTheDashboard'
  BY <1>1, <1>2, Kinds DEF SessionInv, UsersSeeTheDashboard
<1>9. Alone'
  BY <1>1, <1>2, Kinds DEF SessionInv, Alone, Running
<1>10. RemovedIsGone'
  BY <1>1, <1>2, Kinds DEF SessionInv, RemovedIsGone, Token
<1>11. FoundIsStored'
  BY <1>1, <1>2, Kinds DEF SessionInv, FoundIsStored, Token, Data
<1>12. TokenHasItsUser'
  BY <1>1, <1>2, Kinds DEF SessionInv, TokenHasItsUser, Token, Data, Calm
<1>13. GuestHasNoToken'
  BY <1>1, <1>2, Kinds DEF SessionInv, GuestHasNoToken, Guest, Running, Token
<1>14. IssuedIsKept'
  BY <1>1, <1>2, Kinds DEF SessionInv, IssuedIsKept, Untroubled, Refresh
<1>15. LogoutsRevoke'
  BY <1>1, <1>2, Kinds DEF SessionInv, LogoutsRevoke, Untroubled, Refresh
<1>16. GuestHasNoRefreshToken'
  BY <1>1, <1>2, Kinds DEF SessionInv, GuestHasNoRefreshToken, Untroubled, Refresh, Guest, Running
<1>17. SignInsBringTheirs'
  BY <1>1, <1>2, Kinds DEF SessionInv, SignInsBringTheirs, Untroubled, Refresh
<1> QED
  BY <1>3, <1>4, <1>5, <1>6, <1>7, <1>8, <1>9, <1>10, <1>11, <1>12, <1>13, <1>14, <1>15, <1>16,
     <1>17
     DEF SessionInv

LEMMA StoreOfSignInKeeps ==
    ASSUME SessionInv, NEW s \in SignIns, Store(s)
    PROVE  SessionInv'
<1>1. /\ pc \in [Processes -> Steps] /\ at \in [Processes -> 1..5] /\ issued \subseteq SignIns
      /\ faults \in Nat /\ kills \in Nat /\ storage \in Stored /\ Token \in Tokens /\ Refresh \in Tokens /\ Data \in Users
      /\ carried \in [Calls \cup Logouts -> Tokens]
  BY TypeFacts
<1>2. /\ pc[s] = "store" /\ at[s] \in 1..5 /\ storage' \in Stored
      /\ Token' = (IF at[s] \in {1, 4} THEN s ELSE Token)
      /\ Refresh' = (IF at[s] \in {2, 5} THEN s ELSE Refresh)
      /\ Data' = (IF at[s] = 3 THEN Account[s] ELSE Data)
      /\ at[s] # 5 => pc' = pc /\ at'[s] = at[s] + 1
      /\ at[s] = 5 => pc'[s] = "show" /\ at'[s] = 1
      /\ \A q \in Processes \ {s} : pc'[q] = pc[q] /\ at'[q] = at[q]
      /\ at' \in [Processes -> 1..5] /\ pc' \in [Processes -> Steps]
      /\ UNCHANGED <<issued, stale, revoked, user, screen, submitted, carried, found, kills,
                     faults, overlapped, torn, refused>>
  BY StoreMoves, ValueTyped, Kinds
<1>3. ~overlapped =>
          /\ user = None
          /\ \A p \in (SignIns \cup Logouts \cup {Boot}) \ {s} : pc[p] \in {"idle", "stalled", "done"}
  BY <1>1, <1>2, Kinds DEF SessionInv, Alone, Running
<1>4. TypeOK'
  BY <1>1, <1>2, <1>3, Kinds DEF SessionInv, TypeOK, Steps, Stored
<1>5. WritesInOrder'
  BY <1>1, <1>2, <1>3, Kinds DEF SessionInv, WritesInOrder
<1>6. ClearingWasRejected'
  BY <1>1, <1>2, <1>3, Kinds DEF SessionInv, ClearingWasRejected, Rejected
<1>7. NotYetIssued'
  BY <1>1, <1>2, <1>3, Kinds DEF SessionInv, NotYetIssued
<1>8. HeldIsIssued'
  BY <1>1, <1>2, <1>3, Kinds DEF SessionInv, HeldIsIssued, Token, Refresh
<1>9. UsersSeeTheDashboard'
  BY <1>1, <1>2, <1>3, Kinds DEF SessionInv, UsersSeeTheDashboard
<1>10. Alone'
  BY <1>1, <1>2, <1>3, Kinds DEF SessionInv, Alone, Running
<1>11. RemovedIsGone'
  BY <1>1, <1>2, <1>3, Kinds DEF SessionInv, RemovedIsGone, Token
<1>12. FoundIsStored'
  BY <1>1, <1>2, <1>3, Kinds DEF SessionInv, FoundIsStored, Token, Data
<1>13. TokenHasItsUser'
  BY <1>1, <1>2, <1>3, Kinds DEF SessionInv, TokenHasItsUser, Token, Data, Calm
<1>14. GuestHasNoToken'
  BY <1>1, <1>2, <1>3, Kinds DEF SessionInv, GuestHasNoToken, Guest, Running, Token
<1>15. IssuedIsKept'
  BY <1>1, <1>2, <1>3, Kinds DEF SessionInv, IssuedIsKept, Untroubled, Refresh, SignInsBringTheirs
<1>16. LogoutsRevoke'
  BY <1>1, <1>2, <1>3, Kinds DEF SessionInv, LogoutsRevoke, Untroubled, Refresh
<1>17. GuestHasNoRefreshToken'
  BY <1>1, <1>2, <1>3, Kinds
     DEF SessionInv, GuestHasNoRefreshToken, Untroubled, Refresh, Guest, Running
<1>18. SignInsBringTheirs'
  BY <1>1, <1>2, <1>3, Kinds DEF SessionInv, SignInsBringTheirs, Untroubled, Refresh
<1> QED
  BY <1>4, <1>5, <1>6, <1>7, <1>8, <1>9, <1>10, <1>11, <1>12, <1>13, <1>14, <1>15, <1>16, <1>17,
     <1>18
     DEF SessionInv

LEMMA StoreOfLogoutKeeps ==
    ASSUME SessionInv, NEW o \in Logouts, Store(o)
    PROVE  SessionInv'
<1>1. /\ pc \in [Processes -> Steps] /\ at \in [Processes -> 1..5] /\ issued \subseteq SignIns
      /\ faults \in Nat /\ kills \in Nat /\ storage \in Stored /\ Token \in Tokens /\ Refresh \in Tokens /\ Data \in Users
      /\ carried \in [Calls \cup Logouts -> Tokens]
  BY TypeFacts
<1>2. /\ pc[o] = "store" /\ at[o] \in 1..5 /\ storage' \in Stored
      /\ Token' = (IF at[o] \in {1, 4} THEN None ELSE Token)
      /\ Refresh' = (IF at[o] \in {2, 5} THEN None ELSE Refresh)
      /\ Data' = (IF at[o] = 3 THEN None ELSE Data)
      /\ at[o] # 5 => pc' = pc /\ at'[o] = at[o] + 1
      /\ at[o] = 5 => pc'[o] = "show" /\ at'[o] = 1
      /\ \A q \in Processes \ {o} : pc'[q] = pc[q] /\ at'[q] = at[q]
      /\ at' \in [Processes -> 1..5] /\ pc' \in [Processes -> Steps]
      /\ UNCHANGED <<issued, stale, revoked, user, screen, submitted, carried, found, kills,
                     faults, overlapped, torn, refused>>
  BY StoreMoves, ValueTyped, Kinds
<1>3. ~overlapped => \A p \in SignIns \cup {Boot} : pc[p] \in {"idle", "stalled", "done"}
  BY <1>1, <1>2, Kinds DEF SessionInv, Alone, Running
<1>4. TypeOK'
  BY <1>1, <1>2, <1>3, Kinds DEF SessionInv, TypeOK, Steps, Stored
<1>5. WritesInOrder'
  BY <1>1, <1>2, <1>3, Kinds DEF SessionInv, WritesInOrder
<1>6. ClearingWasRejected'
  BY <1>1, <1>2, <1>3, Kinds DEF SessionInv, ClearingWasRejected, Rejected
<1>7. NotYetIssued'
  BY <1>1, <1>2, <1>3, Kinds DEF SessionInv, NotYetIssued
<1>8. HeldIsIssued'
  BY <1>1, <1>2, <1>3, Kinds DEF SessionInv, HeldIsIssued, Token, Refresh
<1>9. UsersSeeTheDashboard'
  BY <1>1, <1>2, <1>3, Kinds DEF SessionInv, UsersSeeTheDashboard
<1>10. Alone'
  BY <1>1, <1>2, <1>3, Kinds DEF SessionInv, Alone, Running
<1>11. RemovedIsGone'
  BY <1>1, <1>2, <1>3, Kinds DEF SessionInv, RemovedIsGone, Token
<1>12. FoundIsStored'
  BY <1>1, <1>2, <1>3, Kinds DEF SessionInv, FoundIsStored, Token, Data
<1>13. TokenHasItsUser'
  BY <1>1, <1>2, <1>3, Kinds DEF SessionInv, TokenHasItsUser, Token, Data, Calm, RemovedIsGone
<1>14. GuestHasNoToken'
  BY <1>1, <1>2, <1>3, Kinds DEF SessionInv, GuestHasNoToken, Guest, Running, Token
<1>15. IssuedIsKept'
  BY <1>1, <1>2, <1>3, Kinds DEF SessionInv, IssuedIsKept, Untroubled, Refresh, LogoutsRevoke
<1>16. LogoutsRevoke'
  BY <1>1, <1>2, <1>3, Kinds DEF SessionInv, LogoutsRevoke, Untroubled, Refresh
<1>17. GuestHasNoRefreshToken'
  BY <1>1, <1>2, <1>3, Kinds
     DEF SessionInv, GuestHasNoRefreshToken, Untroubled, Refresh, Guest, Running
<1>18. SignInsBringTheirs'
  BY <1>1, <1>2, <1>3, Kinds DEF SessionInv, SignInsBringTheirs, Untroubled, Refresh
<1> QED
  BY <1>4, <1>5, <1>6, <1>7, <1>8, <1>9, <1>10, <1>11, <1>12, <1>13, <1>14, <1>15, <1>16, <1>17,
     <1>18
     DEF SessionInv

LEMMA ClearOfSignInKeeps ==
    ASSUME SessionInv, NEW s \in SignIns, Clear(s)
    PROVE  SessionInv'
<1>1. /\ pc \in [Processes -> Steps] /\ at \in [Processes -> 1..5] /\ issued \subseteq SignIns
      /\ faults \in Nat /\ kills \in Nat /\ storage \in Stored /\ Token \in Tokens /\ Refresh \in Tokens /\ Data \in Users
      /\ carried \in [Calls \cup Logouts -> Tokens]
  BY TypeFacts
<1>2. /\ pc[s] = "clear" /\ at[s] \in {1, 2} /\ storage' \in Stored /\ Data' = Data
      /\ at[s] = 1 => Token' = None /\ Refresh' = Refresh
      /\ at[s] = 2 => Token' = Token /\ Refresh' = None
      /\ at[s] = 1 => pc' = pc /\ at'[s] = 2 /\ UNCHANGED <<submitted, carried>>
      /\ at[s] = 2 => pc'[s] = "done" /\ at'[s] = 1
      /\ submitted' \in Tokens
      /\ \A q \in (Calls \cup Logouts) \ {s} : carried'[q] = carried[q]
      /\ \A q \in Processes \ {s} : pc'[q] = pc[q] /\ at'[q] = at[q]
      /\ at' \in [Processes -> 1..5] /\ pc' \in [Processes -> Steps]
      /\ carried' \in [Calls \cup Logouts -> Tokens]
      /\ UNCHANGED <<issued, stale, revoked, user, screen, found, kills, faults, overlapped,
                     torn, refused>>
  BY ClearMoves, Kinds
<1>3. TypeOK'
  BY <1>1, <1>2, Kinds DEF SessionInv, TypeOK, Steps, Stored, Tokens
<1>4. WritesInOrder'
  BY <1>1, <1>2, Kinds DEF SessionInv, WritesInOrder
<1>5. ClearingWasRejected'
  BY <1>1, <1>2, Kinds DEF SessionInv, ClearingWasRejected, Rejected
<1>6. NotYetIssued'
  BY <1>1, <1>2, Kinds DEF SessionInv, NotYetIssued
<1>7. HeldIsIssued'
  BY <1>1, <1>2, Kinds DEF SessionInv, HeldIsIssued, Token, Refresh
<1>8. UsersSeeTheDashboard'
  BY <1>1, <1>2, Kinds DEF SessionInv, UsersSeeTheDashboard
<1>9. Alone'
  BY <1>1, <1>2, Kinds DEF SessionInv, Alone, Running
<1>10. RemovedIsGone'
  BY <1>1, <1>2, Kinds DEF SessionInv, RemovedIsGone, Token
<1>11. FoundIsStored'
  BY <1>1, <1>2, Kinds DEF SessionInv, FoundIsStored, Token, Data
<1>12. TokenHasItsUser'
  BY <1>1, <1>2, Kinds DEF SessionInv, TokenHasItsUser, Token, Data, Calm
<1>13. GuestHasNoToken'
  BY <1>1, <1>2, Kinds DEF SessionInv, GuestHasNoToken, Guest, Running, Token
<1>14. IssuedIsKept'
  BY <1>1, <1>2, Kinds
     DEF SessionInv, IssuedIsKept, Untroubled, Refresh, GuestHasNoRefreshToken, Guest, Alone,
         Running
<1>15. LogoutsRevoke'
  BY <1>1, <1>2, Kinds DEF SessionInv, LogoutsRevoke, Untroubled, Refresh
<1>16. GuestHasNoRefreshToken'
  BY <1>1, <1>2, Kinds DEF SessionInv, GuestHasNoRefreshToken, Untroubled, Refresh, Guest, Running
<1>17. SignInsBringTheirs'
  BY <1>1, <1>2, Kinds DEF SessionInv, SignInsBringTheirs, Untroubled, Refresh
<1> QED
  BY <1>3, <1>4, <1>5, <1>6, <1>7, <1>8, <1>9, <1>10, <1>11, <1>12, <1>13, <1>14, <1>15, <1>16,
     <1>17
     DEF SessionInv

LEMMA ClearOfCallKeeps ==
    ASSUME SessionInv, NEW c \in Calls, Clear(c)
    PROVE  SessionInv'
<1>1. /\ pc \in [Processes -> Steps] /\ at \in [Processes -> 1..5] /\ issued \subseteq SignIns
      /\ faults \in Nat /\ kills \in Nat /\ storage \in Stored /\ Token \in Tokens /\ Refresh \in Tokens /\ Data \in Users
      /\ carried \in [Calls \cup Logouts -> Tokens]
  BY TypeFacts
<1>2. /\ pc[c] = "clear" /\ at[c] \in {1, 2} /\ storage' \in Stored /\ Data' = Data
      /\ at[c] = 1 => Token' = None /\ Refresh' = Refresh
      /\ at[c] = 2 => Token' = Token /\ Refresh' = None
      /\ at[c] = 1 => pc' = pc /\ at'[c] = 2 /\ UNCHANGED <<submitted, carried>>
      /\ at[c] = 2 => pc'[c] = "done" /\ at'[c] = 1
      /\ submitted' \in Tokens
      /\ \A q \in (Calls \cup Logouts) \ {c} : carried'[q] = carried[q]
      /\ carried'[c] \in {carried[c], None}
      /\ \A q \in Processes \ {c} : pc'[q] = pc[q] /\ at'[q] = at[q]
      /\ at' \in [Processes -> 1..5] /\ pc' \in [Processes -> Steps]
      /\ carried' \in [Calls \cup Logouts -> Tokens]
      /\ UNCHANGED <<issued, stale, revoked, user, screen, found, kills, faults, overlapped,
                     torn, refused>>
  BY ClearMoves, Kinds
<1>3. TypeOK'
  BY <1>1, <1>2, Kinds DEF SessionInv, TypeOK, Steps, Stored, Tokens
<1>4. WritesInOrder'
  BY <1>1, <1>2, Kinds DEF SessionInv, WritesInOrder
<1>5. ClearingWasRejected'
  BY <1>1, <1>2, Kinds DEF SessionInv, ClearingWasRejected, Rejected
<1>6. NotYetIssued'
  BY <1>1, <1>2, Kinds DEF SessionInv, NotYetIssued
<1>7. HeldIsIssued'
  BY <1>1, <1>2, Kinds DEF SessionInv, HeldIsIssued, Token, Refresh
<1>8. UsersSeeTheDashboard'
  BY <1>1, <1>2, Kinds DEF SessionInv, UsersSeeTheDashboard
<1>9. Alone'
  BY <1>1, <1>2, Kinds DEF SessionInv, Alone, Running
<1>10. RemovedIsGone'
  BY <1>1, <1>2, Kinds DEF SessionInv, RemovedIsGone, Token
<1>11. FoundIsStored'
  BY <1>1, <1>2, Kinds DEF SessionInv, FoundIsStored, Token, Data
<1>12. TokenHasItsUser'
  BY <1>1, <1>2, Kinds DEF SessionInv, TokenHasItsUser, Token, Data, Calm
<1>13. GuestHasNoToken'
  BY <1>1, <1>2, Kinds DEF SessionInv, GuestHasNoToken, Guest, Running, Token
<1>14. IssuedIsKept'
  BY <1>1, <1>2, Kinds DEF SessionInv, IssuedIsKept, Untroubled, Refresh, ClearingWasRejected
<1>15. LogoutsRevoke'
  BY <1>1, <1>2, Kinds DEF SessionInv, LogoutsRevoke, Untroubled, Refresh
<1>16. GuestHasNoRefreshToken'
  BY <1>1, <1>2, Kinds DEF SessionInv, GuestHasNoRefreshToken, Untroubled, Refresh, Guest, Running
<1>17. SignInsBringTheirs'
  BY <1>1, <1>2, Kinds DEF SessionInv, SignInsBringTheirs, Untroubled, Refresh
<1> QED
  BY <1>3, <1>4, <1>5, <1>6, <1>7, <1>8, <1>9, <1>10, <1>11, <1>12, <1>13, <1>14, <1>15, <1>16,
     <1>17
     DEF SessionInv

LEMMA ClearOfBootKeeps ==
    ASSUME SessionInv, Clear(Boot)
    PROVE  SessionInv'
<1>1. /\ pc \in [Processes -> Steps] /\ at \in [Processes -> 1..5] /\ issued \subseteq SignIns
      /\ faults \in Nat /\ kills \in Nat /\ storage \in Stored /\ Token \in Tokens /\ Refresh \in Tokens /\ Data \in Users
      /\ carried \in [Calls \cup Logouts -> Tokens]
  BY TypeFacts
<1>2. /\ pc[Boot] = "clear" /\ at[Boot] \in {1, 2} /\ storage' \in Stored /\ Data' = Data
      /\ at[Boot] = 1 => Token' = None /\ Refresh' = Refresh
      /\ at[Boot] = 2 => Token' = Token /\ Refresh' = None
      /\ at[Boot] = 1 => pc' = pc /\ at'[Boot] = 2 /\ UNCHANGED <<submitted, carried>>
      /\ at[Boot] = 2 => pc'[Boot] = "show" /\ at'[Boot] = 1
      /\ submitted' \in Tokens
      /\ \A q \in (Calls \cup Logouts) \ {Boot} : carried'[q] = carried[q]
      /\ \A q \in Processes \ {Boot} : pc'[q] = pc[q] /\ at'[q] = at[q]
      /\ at' \in [Processes -> 1..5] /\ pc' \in [Processes -> Steps]
      /\ carried' \in [Calls \cup Logouts -> Tokens]
      /\ UNCHANGED <<issued, stale, revoked, user, screen, found, kills, faults, overlapped,
                     torn, refused>>
  BY ClearMoves, Kinds
<1>3. TypeOK'
  BY <1>1, <1>2, Kinds DEF SessionInv, TypeOK, Steps, Stored, Tokens
<1>4. WritesInOrder'
  BY <1>1, <1>2, Kinds DEF SessionInv, WritesInOrder
<1>5. ClearingWasRejected'
  BY <1>1, <1>2, Kinds DEF SessionInv, ClearingWasRejected, Rejected
<1>6. NotYetIssued'
  BY <1>1, <1>2, Kinds DEF SessionInv, NotYetIssued
<1>7. HeldIsIssued'
  BY <1>1, <1>2, Kinds DEF SessionInv, HeldIsIssued, Token, Refresh
<1>8. UsersSeeTheDashboard'
  BY <1>1, <1>2, Kinds DEF SessionInv, UsersSeeTheDashboard
<1>9. Alone'
  BY <1>1, <1>2, Kinds DEF SessionInv, Alone, Running
<1>10. RemovedIsGone'
  BY <1>1, <1>2, Kinds DEF SessionInv, RemovedIsGone, Token
<1>11. FoundIsStored'
  BY <1>1, <1>2, Kinds DEF SessionInv, FoundIsStored, Token, Data
<1>12. TokenHasItsUser'
  BY <1>1, <1>2, Kinds DEF SessionInv, TokenHasItsUser, Token, Data, Calm
<1>13. GuestHasNoToken'
  BY <1>1, <1>2, Kinds DEF SessionInv, GuestHasNoToken, Guest, Running, Token
<1>14. IssuedIsKept'
  BY <1>1, <1>2, Kinds
     DEF SessionInv, IssuedIsKept, Untroubled, Refresh, GuestHasNoRefreshToken, Running
<1>15. LogoutsRevoke'
  BY <1>1, <1>2, Kinds DEF SessionInv, LogoutsRevoke, Untroubled, Refresh
<1>16. GuestHasNoRefreshToken'
  BY <1>1, <1>2, Kinds DEF SessionInv, GuestHasNoRefreshToken, Untroubled, Refresh, Guest, Running
<1>17. SignInsBringTheirs'
  BY <1>1, <1>2, Kinds DEF SessionInv, SignInsBringTheirs, Untroubled, Refresh
<1> QED
  BY <1>3, <1>4, <1>5, <1>6, <1>7, <1>8, <1>9, <1>10, <1>11, <1>12, <1>13, <1>14, <1>15, <1>16,
     <1>17
     DEF SessionInv

LEMMA KillKeeps ==
    ASSUME SessionInv, Kill
    PROVE  SessionInv'
<1>1. /\ pc \in [Processes -> Steps] /\ at \in [Processes -> 1..5] /\ issued \subseteq SignIns
      /\ faults \in Nat /\ kills \in Nat /\ storage \in Stored /\ Token \in Tokens /\ Refresh \in Tokens /\ Data \in Users
      /\ carried \in [Calls \cup Logouts -> Tokens]
  BY TypeFacts
<1>2. /\ pc'[Boot] = "token" /\ pc' \in [Processes -> Steps]
      /\ \A p \in Processes \ {Boot} : pc'[p] = IF pc[p] = "idle" THEN "idle" ELSE "done"
      /\ at' \in [Processes -> 1..5] /\ \A p \in Processes : at'[p] = 1
      /\ user' = None /\ screen' = "index" /\ submitted' = None /\ found' = None
      /\ carried' \in [Calls \cup Logouts -> Tokens]
      /\ \A p \in Calls \cup Logouts : carried'[p] = None
      /\ issued \subseteq issued' /\ issued' \subseteq issued \cup {s \in SignIns : pc[s] = "sent"}
      /\ revoked' \subseteq revoked \cup {s \in SignIns : \E o \in Logouts : carried[o] = s}
      /\ kills' = kills + 1 /\ (~torn' => ~torn /\ \A s \in SignIns : pc[s] # "store" \/ at[s] = 1)
      /\ torn' \in BOOLEAN
      /\ UNCHANGED <<stale, storage, faults, overlapped, refused>>

  <2>1. /\ pc' = [p \in Processes |-> IF p = Boot THEN "token"
                                     ELSE IF pc[p] = "idle" THEN "idle" ELSE "done"]
        /\ at' = [p \in Processes |-> 1]
        /\ user' = None /\ screen' = "index" /\ submitted' = None /\ found' = None
        /\ carried' = [p \in Calls \cup Logouts |-> None]
        /\ kills' = kills + 1
        /\ UNCHANGED <<stale, storage, faults, overlapped, refused>>
    BY DEF Kill
  <2>2. \E late \in SUBSET {s \in SignIns : pc[s] = "sent"} : issued' = issued \cup late
    BY DEF Kill
  <2>3. revoked' \subseteq revoked \cup {s \in SignIns : \E o \in Logouts : carried[o] = s}
    <3>1. PICK late \in SUBSET {carried[o] : o \in {l \in Logouts : pc[l] = "sent"}} :
              revoked' = revoked \cup (late \ {None})
      BY DEF Kill
    <3> QED
      BY <1>1, <3>1 DEF Tokens
  <2>4. torn' = (torn \/ \E s \in SignIns : pc[s] = "store" /\ at[s] > 1)
    BY DEF Kill
  <2>5. /\ torn' \in BOOLEAN
        /\ ~torn' => ~torn /\ \A s \in SignIns : pc[s] # "store" \/ at[s] = 1
    <3>1. torn' \in BOOLEAN
      BY <2>4 DEF SessionInv, TypeOK
    <3>2. ~torn' => ~torn
      BY <2>4
    <3>3. ~torn' => \A s \in SignIns : ~(pc[s] = "store" /\ at[s] > 1)
      BY <2>4
    <3>4. \A s \in SignIns : at[s] > 1 \/ at[s] = 1
      BY <1>1, Kinds
    <3> QED
      BY <3>1, <3>2, <3>3, <3>4
  <2> QED
    BY <1>1, <2>1, <2>2, <2>3, <2>5, Kinds DEF Steps, Tokens
<1>3. TypeOK'
  BY <1>1, <1>2, Kinds DEF SessionInv, TypeOK, Steps, HeldIsIssued, Routes, Users, Tokens
<1>4. WritesInOrder'
  BY <1>1, <1>2, Kinds DEF SessionInv, WritesInOrder
<1>5. ClearingWasRejected'
  BY <1>1, <1>2, Kinds DEF SessionInv, ClearingWasRejected, Rejected
<1>6. NotYetIssued'
  BY <1>1, <1>2, Kinds DEF SessionInv, NotYetIssued
<1>7. HeldIsIssued'
  BY <1>1, <1>2, Kinds DEF SessionInv, HeldIsIssued, Token, Refresh
<1>8. UsersSeeTheDashboard'
  BY <1>1, <1>2, Kinds DEF SessionInv, UsersSeeTheDashboard
<1>9. Alone'
  BY <1>1, <1>2, Kinds DEF SessionInv, Alone, Running
<1>10. RemovedIsGone'
  BY <1>1, <1>2, Kinds DEF SessionInv, RemovedIsGone, Token
<1>11. FoundIsStored'
  BY <1>1, <1>2, Kinds DEF SessionInv, FoundIsStored, Token, Data
<1>12. TokenHasItsUser'
  BY <1>1, <1>2, Kinds DEF SessionInv, TokenHasItsUser, Token, Data, Calm
<1>13. GuestHasNoToken'
  BY <1>1, <1>2, Kinds DEF SessionInv, GuestHasNoToken, Guest, Running, Token
<1>14. IssuedIsKept'
  BY <1>1, <1>2, Kinds DEF SessionInv, IssuedIsKept, Untroubled, Refresh
<1>15. LogoutsRevoke'
  BY <1>1, <1>2, Kinds DEF SessionInv, LogoutsRevoke, Untroubled, Refresh
<1>16. GuestHasNoRefreshToken'
  BY <1>1, <1>2, Kinds DEF SessionInv, GuestHasNoRefreshToken, Untroubled, Refresh, Guest, Running
<1>17. SignInsBringTheirs'
  BY <1>1, <1>2, Kinds DEF SessionInv, SignInsBringTheirs, Untroubled, Refresh
<1> QED
  BY <1>3, <1>4, <1>5, <1>6, <1>7, <1>8, <1>9, <1>10, <1>11, <1>12, <1>13, <1>14, <1>15, <1>16,
     <1>17
     DEF SessionInv

-----------------------------------------------------------------------------
(* The steps                                                               *)

LEMMA InitEstablishes == Init => SessionInv
<1> SUFFICES ASSUME Init PROVE SessionInv
  OBVIOUS
<1>1. /\ Token = None /\ Refresh = None /\ Data = None
      /\ storage \in Stored
      /\ \A p \in Processes : pc[p] = IF p = Boot THEN "token" ELSE "idle"
      /\ \A p \in Processes : at[p] = 1
      /\ \A p \in Calls \cup Logouts : carried[p] = None
  BY DEF Init, Token, Refresh, Data, Stored, Tokens, Users
<1>2. TypeOK
  <2>1. /\ pc \in [Processes -> Steps] /\ at \in [Processes -> 1..5]
        /\ carried \in [Calls \cup Logouts -> Tokens]
    BY DEF Init, Steps, Tokens
  <2> QED
    BY <1>1, <2>1 DEF Init, TypeOK, Steps, Stored, Tokens, Users, Routes
<1>3. WritesInOrder /\ ClearingWasRejected /\ NotYetIssued /\ HeldIsIssued /\ UsersSeeTheDashboard
  BY <1>1, Kinds DEF Init, WritesInOrder, ClearingWasRejected, NotYetIssued, HeldIsIssued,
                     UsersSeeTheDashboard
<1>4. Alone /\ RemovedIsGone /\ FoundIsStored
  BY <1>1, Kinds DEF Init, Alone, Running, RemovedIsGone, FoundIsStored
<1>5. TokenHasItsUser /\ GuestHasNoToken
  BY <1>1, Kinds DEF Init, TokenHasItsUser, GuestHasNoToken
<1>6. IssuedIsKept /\ LogoutsRevoke /\ GuestHasNoRefreshToken /\ SignInsBringTheirs
  BY <1>1, Kinds DEF Init, IssuedIsKept, LogoutsRevoke, GuestHasNoRefreshToken, SignInsBringTheirs
<1> QED
  BY <1>2, <1>3, <1>4, <1>5, <1>6 DEF SessionInv

LEMMA StutteringKeeps == SessionInv /\ UNCHANGED vars => SessionInv'
<1> SUFFICES ASSUME SessionInv, UNCHANGED vars PROVE SessionInv'
  OBVIOUS
<1>1. UNCHANGED <<issued, stale, revoked, storage, user, screen, submitted, pc, at, carried, found,
                  kills, faults, overlapped, torn, refused>>
  BY DEF vars, gateway, view, history
<1>2. TypeOK' /\ WritesInOrder' /\ ClearingWasRejected' /\ NotYetIssued'
  BY <1>1 DEF SessionInv, TypeOK, WritesInOrder, ClearingWasRejected, Rejected, NotYetIssued
<1>3. HeldIsIssued' /\ UsersSeeTheDashboard' /\ Alone' /\ RemovedIsGone' /\ FoundIsStored'
  BY <1>1 DEF SessionInv, HeldIsIssued, UsersSeeTheDashboard, Alone, Running, RemovedIsGone,
              FoundIsStored, Token, Refresh, Data
<1>4. TokenHasItsUser' /\ GuestHasNoToken' /\ IssuedIsKept'
  BY <1>1 DEF SessionInv, TokenHasItsUser, GuestHasNoToken, IssuedIsKept, Calm, Untroubled, Guest,
              Running, Token, Refresh, Data
<1>5. LogoutsRevoke' /\ GuestHasNoRefreshToken' /\ SignInsBringTheirs'
  BY <1>1 DEF SessionInv, LogoutsRevoke, GuestHasNoRefreshToken, SignInsBringTheirs, Untroubled,
              Guest, Running, Refresh
<1> QED
  BY <1>2, <1>3, <1>4, <1>5 DEF SessionInv

LEMMA NextKeeps == SessionInv /\ [Next]_vars => SessionInv'
<1> SUFFICES ASSUME SessionInv, [Next]_vars PROVE SessionInv'
  OBVIOUS
<1>1. CASE CheckAuth
  BY <1>1, CheckTokenKeeps, CheckUserKeeps, ClearOfBootKeeps, ShowFoundKeeps DEF CheckAuth
<1>2. CASE \E to \in Forms \cup {"index"} : Navigate(to)
  BY <1>2, NavigateKeeps
<1>3. CASE \E s \in SignIns : Submit(s) \/ SignIn(s) \/ Expire(s)
  BY <1>3, SubmitKeeps, GrantedKeeps, DeniedKeeps, StoreOfSignInKeeps, ClearOfSignInKeeps,
     EnterKeeps, ExpireKeeps DEF SignIn
<1>4. CASE \E c \in Calls : StartCall(c) \/ Call(c)
  BY <1>4, StartCallKeeps, AnswerKeeps, ClearOfCallKeeps DEF Call
<1>5. CASE \E o \in Logouts : StartLogout(o) \/ Logout(o)
  BY <1>5, StartLogoutKeeps, EndLogoutKeeps, StoreOfLogoutKeeps, LeaveKeeps DEF Logout
<1>6. CASE \E p \in SignIns \cup Calls : Stall(p)
  BY <1>6, StallKeeps
<1>7. CASE Kill
  BY <1>7, KillKeeps
<1>8. CASE UNCHANGED vars
  BY <1>8, StutteringKeeps
<1> QED
  BY <1>1, <1>2, <1>3, <1>4, <1>5, <1>6, <1>7, <1>8 DEF Next

-----------------------------------------------------------------------------
(* Theorems                                                                *)

(* The invariant the others follow from.                                   *)
THEOREM Invariance == Spec => []SessionInv
<1>1. Init => SessionInv
  BY InitEstablishes
<1>2. SessionInv /\ [Next]_vars => SessionInv'
  BY NextKeeps
<1> QED
  BY <1>1, <1>2, PTL DEF Spec

(* Every variable keeps its type; a logout never revokes what was not      *)
(* issued.                                                                 *)
THEOREM TypeCorrect == Spec => []TypeOK
<1>1. SessionInv => TypeOK
  BY DEF SessionInv
<1> QED
  BY <1>1, Invariance, PTL

(* Requests go out in the name of the user who is shown, unless sign-ins   *)
(* met other processes or one was killed between its writes (login,        *)
(* register, checkAuth, request).                                          *)
THEOREM OneAccountHolds == Spec => []OneAccount
<1>1. SessionInv => OneAccount
  <2> SUFFICES ASSUME SessionInv, user # None, Token # None, Calm
               PROVE  Account[Token] = user
    BY DEF OneAccount, Token, Calm
  <2>1. Token \in SignIns
    BY TypeFacts DEF Tokens
  <2>2. Data = user
    BY DEF SessionInv, TokenHasItsUser
  <2>3. pc[Token] # "store"
    BY <2>1 DEF SessionInv, Alone, Running, Calm
  <2> QED
    BY <2>1, <2>2, <2>3 DEF SessionInv, TokenHasItsUser
<1> QED
  BY <1>1, Invariance, PTL

(* A device that shows nobody and does nothing holds no access token, kills*)
(* of the application included (logout, clearTokens, checkAuth).           *)
THEOREM GuestsHoldNoTokenHolds == Spec => []GuestsHoldNoToken
<1>1. SessionInv => GuestsHoldNoToken
  <2> SUFFICES ASSUME SessionInv, user = None, ~overlapped, \A p \in Processes : ~Running(p)
               PROVE  Token = None
    BY DEF GuestsHoldNoToken, Token
  <2>1. Guest
    BY Kinds DEF Guest, Running
  <2> QED
    BY <2>1 DEF SessionInv, GuestHasNoToken
<1> QED
  BY <1>1, Invariance, PTL

(* As long as nothing fails, the device never forgets a pair that is still *)
(* good (logout presents what setRefreshToken has stored).                 *)
THEOREM LiveTokensAreHeldHolds == Spec => []LiveTokensAreHeld
<1>1. SessionInv => LiveTokensAreHeld
  BY DEF SessionInv, IssuedIsKept, Untroubled, Refresh, LiveTokensAreHeld
<1> QED
  BY <1>1, Invariance, PTL

(* A session that has not expired loses its token only for the reasons     *)
(* named (request, clearTokens).                                           *)
THEOREM SessionsEndForAReason == Spec => ValidSessionsEndForAReason
<1> DEFINE Reason(s) ==
             \/ \E o \in Logouts : pc[o] = "store"
             \/ \E c \in Calls : pc[c] = "clear" /\ carried[c] # s
             \/ overlapped
             \/ torn /\ pc[Boot] = "clear"
             \/ \E r \in SignIns \ {s} : pc[r] \in {"store", "clear"}
           EndsForAReason ==
             \A s \in issued \ stale :
                 storage.access_token = s /\ storage'.access_token # s => Reason(s)
<1>1. SessionInv /\ [Next]_vars => EndsForAReason
  <2> SUFFICES ASSUME SessionInv, [Next]_vars, NEW s \in issued \ stale,
                      Token = s, Token' # s
               PROVE  Reason(s)
    BY DEF Token
  <2>1. s \in SignIns /\ s \in issued /\ s \notin stale /\ s # None
    BY TypeFacts, Kinds
  <2>2. ASSUME NEW r \in SignIns, Store(r) PROVE Reason(s)
    <3>1. pc[r] = "store" /\ r # s
      BY <2>1, <2>2, StoreMoves, ValueTyped, Kinds
    <3> QED
      BY <3>1
  <2>3. ASSUME NEW o \in Logouts, Store(o) PROVE Reason(s)
    BY <2>3 DEF Store
  <2>4. ASSUME NEW r \in SignIns, Clear(r) PROVE Reason(s)
    <3>1. pc[r] = "clear"
      BY <2>4 DEF Clear
    <3>2. r # s
      BY <2>1, <3>1 DEF SessionInv, NotYetIssued
    <3> QED
      BY <3>1, <3>2
  <2>5. ASSUME NEW c \in Calls, Clear(c) PROVE Reason(s)
    <3>1. pc[c] = "clear"
      BY <2>5 DEF Clear
    <3>2. carried[c] # s
      BY <2>1, <3>1 DEF SessionInv, ClearingWasRejected, Rejected
    <3> QED
      BY <3>1, <3>2
  <2>6. CASE Clear(Boot)
    <3>1. pc[Boot] = "clear"
      BY <2>6 DEF Clear
    <3>2. ~overlapped => torn
      <4> SUFFICES ASSUME Calm PROVE FALSE
        BY DEF Calm
      <4>1. Data = None
        BY <3>1 DEF SessionInv, FoundIsStored, Calm
      <4>2. pc[s] # "store"
        BY <2>1, <3>1, Kinds DEF SessionInv, Alone, Running, Calm
      <4>3. Data = Account[s]
        BY <2>1, <4>2 DEF SessionInv, TokenHasItsUser
      <4> QED
        BY <2>1, <4>1, <4>3, Kinds
    <3> QED
      BY <3>1, <3>2
  <2>7. \/ UNCHANGED storage
        \/ \E p \in SignIns \cup Logouts : Store(p)
        \/ \E p \in SignIns \cup Calls \cup {Boot} : Clear(p)
    BY DEF Next, CheckAuth, CheckToken, CheckUser, ShowFound, Navigate, Submit, SignIn, Granted,
           Denied, Enter, Expire, StartCall, Call, Answer, StartLogout, Logout, EndLogout, Leave,
           Stall, Kill, vars
  <2> QED
    BY <2>2, <2>3, <2>4, <2>5, <2>6, <2>7 DEF Token
<1> QED
  BY <1>1, Invariance, PTL DEF Spec, ValidSessionsEndForAReason

=============================================================================
