------------------------------- MODULE Sessions -------------------------------
(***************************************************************************)
(* Sessions of the Android client with auth-gateway: login and register,   *)
(* the calls of the application with the authenticator that refreshes the  *)
(* tokens after a 401, and logout.                                         *)
(*                                                                         *)
(* Every call, login and logout is a process on the device; the device's   *)
(* one store (DataStore) holds a pair of tokens.  The gateway handles each *)
(* request on its own: a device that gives up does not stop it.  The access*)
(* token and the refresh token of a pair are issued together and carry the *)
(* same number; tokens are numbered in the order they are inserted.        *)
(***************************************************************************)
EXTENDS Integers, FiniteSets, Functions

CONSTANTS
    Calls, Logins, Logouts,   \* what the user of the device does
    Kind,                     \* Kind[l] is "login" or "register"
    Name,                     \* Name[l] is the user who logs in
    Names,
    None,
    MaxTokens,                \* bound on the tokens issued
    MaxExpired,               \* bound on the tokens that expire
    MaxFaults                 \* bound on the faults of a behaviour

Processes == Calls \cup Logins \cup Logouts

(* "db": a statement or commit returns an error, with or without effect;   *)
(* "timeout": the device gives up waiting; "crash": the gateway dies;      *)
(* "kill": the application dies.                                           *)
FaultKinds == {"db", "timeout", "crash", "kill"}

Tokens == 1..MaxTokens
NoToken == 0

ASSUME ProcessesAssumption ==
    /\ Calls \cap Logins = {} /\ Calls \cap Logouts = {} /\ Logins \cap Logouts = {}
    /\ Kind \in [Logins -> {"login", "register"}]
    /\ Name \in [Logins -> Names]
    /\ None \notin Logins

ASSUME BoundsAssumption ==
    MaxTokens \in Nat /\ MaxExpired \in Nat /\ MaxFaults \in Nat

VARIABLES
    \* auth-gateway
    users,      \* the users table
    issued,     \* how many refresh tokens are in auth_refresh_tokens
    revoked,    \* those with a revoked_at
    handler,    \* where the handler of each request is
    \* the clock
    stale,      \* access tokens past their exp claim
    expired,    \* refresh tokens past their expires_at
    \* the device
    store,      \* the pair of tokens in the DataStore
    pc,         \* where each process is
    bearer,     \* the access token of each call
    presented,  \* the refresh token each call or logout presented last
    fresh,      \* the pair the gateway answered with
    faults,     \* faults spent, by kind
    (* history variables *)
    session,    \* the login each token descends from
    parent      \* the token it replaced

gateway == <<users, issued, revoked, session, parent>>
clock == <<stale, expired>>
device == <<store, bearer, presented, fresh>>
vars == <<gateway, handler, clock, device, pc, faults>>

-----------------------------------------------------------------------------
TypeOK ==
    /\ users \subseteq Names
    /\ issued \in 0..MaxTokens
    /\ revoked \subseteq 1..issued
    /\ handler \in [Processes -> {"none", "received", "insert", "locked"}]
    /\ stale \subseteq 1..issued /\ expired \subseteq stale
    /\ store \in 0..issued
    /\ pc \in [Processes -> {"idle", "sent", "wait", "save", "clear", "done", "left"}]
    /\ bearer \in [Calls -> 0..issued]
    /\ presented \in [Calls \cup Logouts -> 0..issued]
    /\ fresh \in [Calls \cup Logins -> 0..issued]
    /\ faults \in [FaultKinds -> Nat]
    /\ session \in [Tokens -> Logins \cup {None}]
    /\ parent \in [Tokens -> 0..issued]

Init ==
    /\ users = {} /\ issued = 0 /\ revoked = {}
    /\ handler = [p \in Processes |-> "none"]
    /\ stale = {} /\ expired = {}
    /\ store = NoToken
    /\ pc = [p \in Processes |-> "idle"]
    /\ bearer = [c \in Calls |-> NoToken]
    /\ presented = [p \in Calls \cup Logouts |-> NoToken]
    /\ fresh = [p \in Calls \cup Logins |-> NoToken]
    /\ faults = [k \in FaultKinds |-> 0]
    /\ session = [t \in Tokens |-> None]
    /\ parent = [t \in Tokens |-> NoToken]

-----------------------------------------------------------------------------
Spend(kind) ==
    /\ SumFunction(faults) < MaxFaults
    /\ faults' = [faults EXCEPT ![kind] = @ + 1]

Goto(p, step) == pc' = [pc EXCEPT ![p] = step]

Live(t) == t \in 1..issued /\ t \notin revoked

(* Faulty variant of AfterError: the exception of a refresh is swallowed.  *)
AfterErrorNothing(p) == "done"

(* What a device does after the error of a request.                        *)
AfterError(p) == IF p \in Logins THEN "done" ELSE "clear"

(* The gateway answers p, if its device still waits.                       *)
Reply(p, step) ==
    /\ handler' = [handler EXCEPT ![p] = "none"]
    /\ IF pc[p] = "wait" THEN Goto(p, step) ELSE UNCHANGED pc

ReplyError(p) == Reply(p, AfterError(p)) /\ UNCHANGED fresh

ReplyTokens(p, t) ==
    /\ Reply(p, "save")
    /\ fresh' = [fresh EXCEPT ![p] = t]

(* issueRefreshToken: an INSERT for the session of login l.                *)
Issue(l, replaced) ==
    /\ issued < MaxTokens
    /\ issued' = issued + 1
    /\ session' = [session EXCEPT ![issued + 1] = l]
    /\ parent' = [parent EXCEPT ![issued + 1] = replaced]

NoIssue == UNCHANGED <<issued, session, parent>>

(* A rotation has locked the users row of this name (FOR UPDATE of a join  *)
(* locks the rows of both tables), which also stops inserts that refer to  *)
(* the row.                                                                *)
UserLocked(name) ==
    \E c \in Calls : handler[c] = "locked" /\ Name[session[presented[c]]] = name

-----------------------------------------------------------------------------
(* The device: a call of the application                                   *)

(* AuthInterceptor adds the access token of the store.  Without one there  *)
(* is nothing for the authenticator to do.                                 *)
StartCall(c) ==
    /\ pc[c] = "idle"
    /\ bearer' = [bearer EXCEPT ![c] = store]
    /\ Goto(c, IF store = NoToken THEN "done" ELSE "sent")
    /\ UNCHANGED <<gateway, handler, clock, store, presented, fresh, faults>>

(* The gateway verifies the JWT, which no logout invalidates.              *)
Accepted(c) ==
    /\ pc[c] = "sent" /\ bearer[c] \notin stale
    /\ Goto(c, "done")
    /\ UNCHANGED <<gateway, handler, clock, device, faults>>

(* Faulty variant of Authenticate: without a token to present the request  *)
(* is sent again as it was.                                                *)
AuthenticateAgain(c) ==
    /\ pc[c] = "sent" /\ bearer[c] \in stale
    /\ IF store = NoToken
       THEN Goto(c, "sent") /\ UNCHANGED <<handler, presented>>
       ELSE /\ presented' = [presented EXCEPT ![c] = store]
            /\ handler' = [handler EXCEPT ![c] = "received"]
            /\ Goto(c, "wait")
    /\ UNCHANGED <<gateway, clock, store, bearer, fresh, faults>>

(* 401: the authenticator reads the refresh token and presents it.         *)
Authenticate(c) ==
    /\ pc[c] = "sent" /\ bearer[c] \in stale
    /\ IF store = NoToken
       THEN Goto(c, "done") /\ UNCHANGED <<handler, presented>>
       ELSE /\ presented' = [presented EXCEPT ![c] = store]
            /\ handler' = [handler EXCEPT ![c] = "received"]
            /\ Goto(c, "wait")
    /\ UNCHANGED <<gateway, clock, store, bearer, fresh, faults>>

(* tokenManager.save, then the request is sent again.                      *)
Save(c) ==
    /\ pc[c] = "save"
    /\ store' = fresh[c]
    /\ bearer' = [bearer EXCEPT ![c] = fresh[c]]
    /\ Goto(c, "sent")
    /\ UNCHANGED <<gateway, handler, clock, presented, fresh, faults>>

(* tokenManager.clear, after any exception of the refresh and at the end   *)
(* of every logout.                                                        *)
Clear(p) ==
    /\ pc[p] = "clear"
    /\ store' = NoToken
    /\ Goto(p, "done")
    /\ UNCHANGED <<gateway, handler, clock, bearer, presented, fresh, faults>>

-----------------------------------------------------------------------------
(* The device: login, register and logout                                  *)

(* The forms are shown as long as the store is empty.  A form disables its *)
(* own button while its request runs; the link to the other form stays, and*)
(* a form opened anew knows nothing of the request of an earlier one.      *)
Submit(l) ==
    /\ pc[l] = "idle" /\ store = NoToken
    /\ handler' = [handler EXCEPT ![l] = "received"]
    /\ Goto(l, "wait")
    /\ UNCHANGED <<gateway, clock, device, faults>>

SaveLogin(l) ==
    /\ pc[l] = "save"
    /\ store' = fresh[l]
    /\ Goto(l, "done")
    /\ UNCHANGED <<gateway, handler, clock, bearer, presented, fresh, faults>>

(* Faulty variant of StartLogout: an empty store is not noticed.           *)
StartLogoutAlways(o) ==
    /\ pc[o] = "idle"
    /\ presented' = [presented EXCEPT ![o] = store]
    /\ handler' = [handler EXCEPT ![o] = "received"]
    /\ Goto(o, "wait")
    /\ UNCHANGED <<gateway, clock, store, bearer, fresh, faults>>

(* AuthRepository.logout reads the refresh token and presents it.          *)
StartLogout(o) ==
    /\ pc[o] = "idle" /\ store # NoToken
    /\ presented' = [presented EXCEPT ![o] = store]
    /\ handler' = [handler EXCEPT ![o] = "received"]
    /\ Goto(o, "wait")
    /\ UNCHANGED <<gateway, clock, store, bearer, fresh, faults>>

(* The HTTP client gives up; the handler on the gateway goes on.           *)
GiveUp(p) ==
    /\ pc[p] = "wait"
    /\ Spend("timeout")
    /\ Goto(p, AfterError(p))
    /\ UNCHANGED <<gateway, handler, clock, device>>

(* The user leaves the screen and its view model is cleared: the coroutine *)
(* of p is cancelled where it waits, and what it would have stored or      *)
(* cleared stays as it is, the clear in the finally of a logout included.  *)
(* A request that is on its way reaches the gateway or does not.  The      *)
(* authenticator runs on a thread of the HTTP client and goes on.  A logout*)
(* that was cancelled is "left", since its clear is still owed.            *)
Leave(p) ==
    /\ pc[p] \in IF p \in Calls THEN {"sent"} ELSE {"wait", "save", "clear"}
    /\ Goto(p, IF p \in Logouts THEN "left" ELSE "done")
    /\ \/ UNCHANGED handler
       \/ handler[p] = "received" /\ handler' = [handler EXCEPT ![p] = "none"]
    /\ UNCHANGED <<gateway, clock, device, faults>>

-----------------------------------------------------------------------------
(* The gateway: POST /auth/refresh                                         *)

Valid(t) == Live(t) /\ t \notin expired

(* Faulty variant of Select: SELECT without FOR UPDATE.                    *)
SelectUnlocked(c) ==
    /\ handler[c] = "received"
    /\ \/ /\ Valid(presented[c])
          /\ handler' = [handler EXCEPT ![c] = "locked"]
          /\ UNCHANGED <<pc, fresh, faults>>
       \/ ~Valid(presented[c]) /\ ReplyError(c) /\ UNCHANGED faults
    /\ UNCHANGED <<gateway, clock, store, bearer, presented>>

(* SELECT ... FOR UPDATE: waits for whoever holds the rows, and then looks *)
(* at the token again.  No row: rollback and 401.                          *)
Select(c) ==
    /\ handler[c] = "received"
    /\ \/ /\ Valid(presented[c])
          /\ ~UserLocked(Name[session[presented[c]]])
          /\ handler' = [handler EXCEPT ![c] = "locked"]
          /\ UNCHANGED <<pc, fresh, faults>>
       \/ ~Valid(presented[c]) /\ ReplyError(c) /\ UNCHANGED faults
       \/ Spend("db") /\ ReplyError(c)
    /\ UNCHANGED <<gateway, clock, store, bearer, presented>>

(* Faulty variant of Rotate: the old token is not revoked.                 *)
RotateKeepingOld(c) ==
    /\ handler[c] = "locked"
    /\ Issue(session[presented[c]], presented[c])
    /\ ReplyTokens(c, issued + 1)
    /\ UNCHANGED <<users, revoked, clock, store, bearer, presented, faults>>

(* UPDATE of the old token, INSERT of the new one and COMMIT.  An error of *)
(* the commit leaves open whether it took effect; other errors roll back.  *)
Rotate(c) ==
    /\ handler[c] = "locked"
    /\ \/ /\ revoked' = revoked \cup {presented[c]}
          /\ Issue(session[presented[c]], presented[c])
          /\ \/ ReplyTokens(c, issued + 1) /\ UNCHANGED faults
             \/ Spend("db") /\ ReplyError(c)
       \/ Spend("db") /\ ReplyError(c) /\ UNCHANGED revoked /\ NoIssue
    /\ UNCHANGED <<users, clock, store, bearer, presented>>

-----------------------------------------------------------------------------
(* The gateway: POST /auth/register, /auth/login and /auth/logout          *)

(* createUser: a taken name is answered with 409.                          *)
CreateUser(l) ==
    /\ handler[l] = "received" /\ Kind[l] = "register"
    /\ \/ /\ Name[l] \notin users
          /\ users' = users \cup {Name[l]}
          /\ handler' = [handler EXCEPT ![l] = "insert"]
          /\ UNCHANGED <<pc, fresh, faults>>
       \/ /\ Name[l] \in users
          /\ ReplyError(l)
          /\ UNCHANGED <<users, faults>>
       \/ /\ Spend("db")
          /\ users' \in {users, users \cup {Name[l]}}
          /\ ReplyError(l)
    /\ UNCHANGED <<issued, revoked, session, parent, clock, store, bearer, presented>>

(* findByLogin and the password, which may be wrong.                       *)
CheckPassword(l) ==
    /\ handler[l] = "received" /\ Kind[l] = "login"
    /\ \/ /\ Name[l] \in users
          /\ handler' = [handler EXCEPT ![l] = "insert"]
          /\ UNCHANGED <<pc, fresh>>
       \/ ReplyError(l)
    /\ UNCHANGED <<gateway, clock, store, bearer, presented, faults>>

(* issueRefreshToken on a connection of its own.                           *)
IssueToken(l) ==
    /\ handler[l] = "insert" /\ ~UserLocked(Name[l])
    /\ \/ Issue(l, NoToken) /\ ReplyTokens(l, issued + 1) /\ UNCHANGED faults
       \/ Spend("db") /\ ReplyError(l) /\ (Issue(l, NoToken) \/ NoIssue)
    /\ UNCHANGED <<users, revoked, clock, store, bearer, presented>>

TokenLocked(t) == \E c \in Calls : handler[c] = "locked" /\ presented[c] = t

(* revokeRefreshToken: an UPDATE that waits for a rotation of its row.     *)
Revoke(o) ==
    /\ handler[o] = "received" /\ ~TokenLocked(presented[o])
    /\ \/ /\ revoked' = revoked \cup {presented[o]}
          /\ UNCHANGED faults
       \/ Spend("db") /\ revoked' \in {revoked, revoked \cup {presented[o]}}
    /\ Reply(o, "clear")
    /\ UNCHANGED <<users, issued, session, parent, clock, device>>

-----------------------------------------------------------------------------
ExpireAccess(t) ==
    /\ t \in (1..issued) \ stale /\ Cardinality(stale) < MaxExpired
    /\ stale' = stale \cup {t}
    /\ UNCHANGED <<gateway, handler, expired, device, pc, faults>>

(* A refresh token outlives its access token.                              *)
ExpireRefresh(t) ==
    /\ t \in stale \ expired
    /\ expired' = expired \cup {t}
    /\ UNCHANGED <<gateway, handler, stale, device, pc, faults>>

(* The gateway dies and its transactions with it; whoever waits for it     *)
(* loses the connection.                                                   *)
Crash ==
    /\ Spend("crash")
    /\ handler' = [p \in Processes |-> "none"]
    /\ pc' = [p \in Processes |-> IF pc[p] = "wait" THEN AfterError(p) ELSE pc[p]]
    /\ UNCHANGED <<gateway, clock, device>>

(* The application dies; the store stays.                                  *)
Kill ==
    /\ Spend("kill")
    /\ pc' = [p \in Processes |-> IF pc[p] \in {"idle", "left"} THEN pc[p] ELSE "done"]
    /\ UNCHANGED <<gateway, handler, clock, device>>

Refresh(c) == Select(c) \/ Rotate(c)
Register(l) == CreateUser(l) \/ CheckPassword(l) \/ IssueToken(l)

(* What a call, a login and a logout do once they are started.             *)
Call(c) == Accepted(c) \/ Authenticate(c) \/ Refresh(c) \/ Save(c) \/ Clear(c)
Login(l) == Register(l) \/ SaveLogin(l)
Logout(o) == Revoke(o) \/ Clear(o)

Next ==
    \/ \E c \in Calls : StartCall(c) \/ Call(c)
    \/ \E l \in Logins : Submit(l) \/ Login(l)
    \/ \E o \in Logouts : StartLogout(o) \/ Logout(o)
    \/ \E p \in Processes : GiveUp(p) \/ Leave(p)
    \/ \E t \in Tokens : ExpireAccess(t) \/ ExpireRefresh(t)
    \/ Crash \/ Kill

(* Handlers and started requests go on; the user owes nothing.             *)
Fairness ==
    /\ \A c \in Calls : WF_vars(Call(c))
    /\ \A l \in Logins : WF_vars(Login(l))
    /\ \A o \in Logouts : WF_vars(Logout(o))

Spec == Init /\ [][Next]_vars /\ Fairness

-----------------------------------------------------------------------------
(* Properties                                                              *)

NoFault == \A k \in FaultKinds : faults[k] = 0

(* Of all the refresh tokens that descend from one login at most one can   *)
(* still be used, however many calls present the same one at once and      *)
(* whatever fails (FOR UPDATE and the transaction of rotateRefreshToken).  *)
OneLivePerSession ==
    \A l \in Logins : Cardinality({t \in Tokens : Live(t) /\ session[t] = l}) <= 1

(* What the table of refresh tokens says of the families of tokens.        *)
Descendants(l) == {t \in 1..issued : session[t] = l}

Families == INSTANCE TokenFamilies WITH
    used <- 1..issued,
    usable <- [l \in {m \in Logins : Descendants(m) # {}} |-> Descendants(l) \ revoked]

(* The gateway keeps the promises of TokenFamilies: a refresh replaces the *)
(* one usable token of its login by a new one in a single step, a logout   *)
(* ends a family for good, and no request touches the family of another    *)
(* login (issueRefreshToken, rotateRefreshToken, revokeRefreshToken).      *)
ImplementsTokenFamilies == Families!Spec

(* A revoked token does not stay in the store: whoever presented it goes on*)
(* to replace it or to clear the store (authenticate saves or clears on    *)
(* every path, logout clears in a finally).  It stays in two cases only:   *)
(* the application is killed first, or the user leaves the profile screen  *)
(* before the logout has come to its clear, which is cancelled with the    *)
(* view model (viewModelScope of ProfileViewModel.logout).                 *)
RevokedLeavesStore ==
    store \in revoked =>
        \/ \E p \in Calls \cup Logouts :
              presented[p] = store /\ pc[p] \in {"wait", "save", "clear"}
        \/ \E o \in Logouts : presented[o] = store /\ pc[o] = "left"
        \/ faults["kill"] > 0

(* A logout without faults, on a screen nobody leaves, ends its session:   *)
(* no token of it is usable, unless a refresh replaced the one it presented*)
(* (logout waits for the answer to its request before it clears).          *)
LogoutEndsSession ==
    \A o \in Logouts :
        pc[o] = "done" /\ NoFault =>
            \/ \A t \in Tokens : session[t] = session[presented[o]] => ~Live(t)
            \/ \E t \in Tokens : parent[t] = presented[o]

(* Every call, login and logout ends: nobody waits for a row lock for ever *)
(* and no call authenticates in circles (rotateRefreshToken always commits *)
(* or rolls back; a retried call carries a new access token).  Each of them*)
(* starts once, so that they end if and only if again and again there is a *)
(* moment at which none is under way.                                      *)
RequestsEnd == []<>(\A p \in Processes : pc[p] \in {"idle", "done", "left"})

-----------------------------------------------------------------------------
(* What the documentation says and the code does not do                    *)

(* The application carries on with its session without a new login when    *)
(* the access token expires (README.md): while refresh tokens are valid,   *)
(* nothing fails and nobody logs out, the store is not emptied.            *)
SessionContinues ==
    [][store # NoToken /\ store' = NoToken =>
          \/ ~NoFault \/ expired # {}
          \/ \E o \in Logouts : pc[o] # "idle"]_vars

=============================================================================
