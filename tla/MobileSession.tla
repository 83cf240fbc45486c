------------------------------ MODULE MobileSession ------------------------------
(***************************************************************************)
(* The session of the mobile client (React Native): launch, login,         *)
(* register, the calls of its screens and logout, with the three items of  *)
(* AsyncStorage they share.                                                *)
(*                                                                         *)
(* JavaScript has one thread: what runs between two awaits is atomic, and  *)
(* every call of AsyncStorage or of the network is an await.  A sign-in, a *)
(* call and a logout are processes that interleave at their awaits; Boot   *)
(* is checkAuth, which runs once per launch.  The pair of tokens issued to *)
(* sign-in s is called s: the client never refreshes one.                  *)
(***************************************************************************)
EXTENDS Integers, FiniteSets

CONSTANTS
    SignIns, Calls, Logouts,  \* what the user of the device and its screens do
    Boot,                     \* checkAuth
    Kind,                     \* Kind[s] is "login" or "register"
    Account,                  \* Account[s] is who signs in
    Accounts,
    None,
    MaxRunning,               \* bound on how many of these are under way at once
    MaxFaults                 \* bound on kills of the application and lost answers

Processes == SignIns \cup Calls \cup Logouts \cup {Boot}

Forms == {"login", "register"}

(* The screen auth shows one of the two forms.                             *)
Routes == {"index", "dashboard"} \cup Forms

ASSUME ProcessesAssumption ==
    /\ SignIns \cap Calls = {} /\ SignIns \cap Logouts = {} /\ Calls \cap Logouts = {}
    /\ Boot \notin SignIns \cup Calls \cup Logouts
    /\ Kind \in [SignIns -> Forms]
    /\ Account \in [SignIns -> Accounts]
    /\ None \notin SignIns \cup Accounts

ASSUME BoundsAssumption == MaxRunning \in Nat /\ MaxFaults \in Nat

VARIABLES
    \* auth-gateway
    issued,     \* sign-ins a pair of tokens was issued to
    stale,      \* access tokens past their expiry
    revoked,    \* refresh tokens a logout has revoked
    \* the device
    storage,    \* AsyncStorage
    user,       \* who AuthContext shows as signed in
    screen,     \* the route shown, for /auth the form on it
    submitted,  \* the sign-in the form waits for: its button is disabled
    \* the processes
    pc, at,     \* where each is, and which of its writes comes next
    carried,    \* the token a call or a logout has read from the storage
    found,      \* the user checkAuth has read
    \* counters and history variables
    kills, faults,
    overlapped, \* a sign-in ran at the same time as another, a logout or Boot
    torn,       \* a kill came between the writes of a sign-in
    refused     \* a call was answered with 401

gateway == <<issued, stale, revoked>>
view == <<user, screen, submitted>>
history == <<overlapped, torn>>
vars == <<gateway, storage, view, pc, at, carried, found, kills, faults, history, refused>>

Tokens == SignIns \cup {None}
Users == Accounts \cup {None}

(* What login, register and logout do to the storage, in this order, once  *)
(* they are answered: apiClient first, then AuthContext once more.         *)
Writes == <<"access_token", "refresh_token", "user_data", "access_token", "refresh_token">>

-----------------------------------------------------------------------------
TypeOK ==
    /\ issued \subseteq SignIns /\ stale \subseteq issued /\ revoked \subseteq issued
    /\ storage \in [access_token : Tokens, refresh_token : Tokens, user_data : Users]
    /\ user \in Users
    /\ screen \in Routes
    /\ submitted \in SignIns \cup {None}
    /\ pc \in [Processes -> {"idle", "token", "user", "sent", "stalled",
                             "store", "clear", "show", "done"}]
    /\ at \in [Processes -> 1..5]
    /\ carried \in [Calls \cup Logouts -> Tokens]
    /\ found \in Users
    /\ kills \in Nat /\ faults \in Nat
    /\ overlapped \in BOOLEAN /\ torn \in BOOLEAN /\ refused \in BOOLEAN

(* The first launch after the installation.                                *)
Init ==
    /\ issued = {} /\ stale = {} /\ revoked = {}
    /\ storage = [access_token |-> None, refresh_token |-> None, user_data |-> None]
    /\ user = None /\ screen = "index" /\ submitted = None
    /\ pc = [p \in Processes |-> IF p = Boot THEN "token" ELSE "idle"]
    /\ at = [p \in Processes |-> 1]
    /\ carried = [p \in Calls \cup Logouts |-> None]
    /\ found = None
    /\ kills = 0 /\ faults = 0
    /\ overlapped = FALSE /\ torn = FALSE /\ refused = FALSE

-----------------------------------------------------------------------------
Goto(p, step) == pc' = [pc EXCEPT ![p] = step]

Lose == kills + faults < MaxFaults /\ faults' = faults + 1

Running(p) == pc[p] \notin {"idle", "stalled", "done"}

(* p, not yet under way, may start.                                        *)
MayStart(p) == pc[p] = "idle" /\ Cardinality({q \in Processes : Running(q)}) < MaxRunning

(* setUser, and the redirects of the routes when it changes: whoever is    *)
(* shown is shown the dashboard, and the forms are gone.                   *)
SetUser(u) ==
    /\ user' = u
    /\ submitted' = IF u # None THEN None ELSE submitted
    /\ screen' = IF u # None THEN "dashboard" ELSE IF user # None THEN "index" ELSE screen

(* Faulty variant of Release: the button is only enabled by a new form.     *)
ReleaseNothing(s) == UNCHANGED submitted

(* The finally of a form: its button is enabled again, if the form of this *)
(* sign-in is still mounted.                                               *)
Release(s) == submitted' = IF submitted = s THEN None ELSE submitted

-----------------------------------------------------------------------------
(* The network                                                             *)

(* Routes of the gateway that need no token, and those that do.            *)
Public == {"instruments", "quotes", "order-book", "candles", "health", "ready"}
Protected == {"me", "orders", "order", "cancel", "trades", "trade", "portfolio",
              "positions", "pnl", "deposit", "withdraw", "cash", "ws-token"}

(* The guest's screen shows the list of stocks only.                       *)
Available == IF user = None THEN {"instruments", "quotes"} ELSE Public \cup Protected

(* request: the token is read and the request sent.  Calls without a need  *)
(* for one end without a trace here.                                       *)
StartCall(c) ==
    /\ MayStart(c) /\ Available \cap Protected # {}
    /\ carried' = [carried EXCEPT ![c] = storage.access_token]
    /\ Goto(c, "sent")
    /\ UNCHANGED <<gateway, storage, view, at, found, kills, faults, history, refused>>

Rejected(c) == carried[c] = None \/ carried[c] \in stale

(* A call or a logout that is over holds no token.                         *)
Forget(p) == carried' = [q \in DOMAIN carried |-> IF q = p THEN None ELSE carried[q]]

(* Faulty variant of Answer: any error ends the session.                   *)
AnswerClearing(c) ==
    /\ pc[c] = "sent"
    /\ \/ ~Rejected(c) /\ Goto(c, "done") /\ Forget(c) /\ UNCHANGED refused
       \/ Goto(c, "clear") /\ refused' = TRUE /\ UNCHANGED carried
    /\ UNCHANGED <<gateway, storage, view, at, found, kills, faults, history>>

(* The answer to a call: 401 makes request clear the tokens, whichever the *)
(* call has carried; other answers, errors and the timeout do not.         *)
Answer(c) ==
    /\ pc[c] = "sent"
    /\ \/ Goto(c, "done") /\ Forget(c) /\ UNCHANGED refused
       \/ Rejected(c) /\ Goto(c, "clear") /\ refused' = TRUE /\ UNCHANGED carried
    /\ UNCHANGED <<gateway, storage, view, at, found, kills, faults, history>>

(* The headers of an answer arrive and stop the timer; the body never      *)
(* does.  So in a browser; on a phone fetch waits for the body as well, and*)
(* the timer covers it.                                                    *)
Stall(p) ==
    /\ pc[p] = "sent" /\ Lose
    /\ issued' = issued \cup ({p} \cap SignIns)
    /\ Goto(p, "stalled") /\ Forget(p)
    /\ UNCHANGED <<stale, revoked, storage, view, at, found, kills, history, refused>>

-----------------------------------------------------------------------------
(* AsyncStorage                                                            *)

(* Faulty variant of Value: the pair itself is stored as the user.         *)
ValueOfPair(p, item) == IF p \in SignIns THEN p ELSE None

(* What p writes into an item: a logout removes it.                        *)
Value(p, item) ==
    IF p \notin SignIns THEN None ELSE IF item = "user_data" THEN Account[p] ELSE p

(* One setItem or removeItem of a sign-in or a logout.                     *)
Store(p) ==
    /\ pc[p] = "store"
    /\ storage' = [storage EXCEPT ![Writes[at[p]]] = Value(p, Writes[at[p]])]
    /\ IF at[p] < 5 THEN at' = [at EXCEPT ![p] = at[p] + 1] /\ UNCHANGED pc
                    ELSE at' = [at EXCEPT ![p] = 1] /\ Goto(p, "show")
    /\ UNCHANGED <<gateway, view, carried, found, kills, faults, history, refused>>

(* One removeItem of clearTokens.  Then a refused login enables its button *)
(* again, and checkAuth shows nobody.                                      *)
Clear(p) ==
    /\ pc[p] = "clear"
    /\ storage' = [storage EXCEPT ![Writes[at[p]]] = None]
    /\ IF at[p] = 1
       THEN at' = [at EXCEPT ![p] = 2] /\ UNCHANGED <<pc, submitted, carried>>
       ELSE /\ at' = [at EXCEPT ![p] = 1]
            /\ Goto(p, IF p = Boot THEN "show" ELSE "done")
            /\ Release(p) /\ Forget(p)
    /\ UNCHANGED <<gateway, user, screen, found, kills, faults,
                   history, refused>>

-----------------------------------------------------------------------------
(* Launch                                                                  *)

CheckToken ==
    /\ pc[Boot] = "token"
    /\ Goto(Boot, IF storage.access_token = None THEN "show" ELSE "user")
    /\ UNCHANGED <<gateway, storage, view, at, carried, found, kills, faults, history, refused>>

(* Faulty variant of CheckUser: tokens without a user are left alone.      *)
CheckUserKeeping ==
    /\ pc[Boot] = "user"
    /\ found' = storage.user_data
    /\ Goto(Boot, "show")
    /\ UNCHANGED <<gateway, storage, view, at, carried, kills, faults, history, refused>>

(* Tokens without a user are removed.                                      *)
CheckUser ==
    /\ pc[Boot] = "user"
    /\ found' = storage.user_data
    /\ Goto(Boot, IF storage.user_data = None THEN "clear" ELSE "show")
    /\ UNCHANGED <<gateway, storage, view, at, carried, kills, faults, history, refused>>

ShowFound ==
    /\ pc[Boot] = "show"
    /\ SetUser(found) /\ found' = None
    /\ Goto(Boot, "done")
    /\ UNCHANGED <<gateway, storage, at, carried, kills, faults,
                   history, refused>>

-----------------------------------------------------------------------------
(* The auth screen, login and register                                     *)

(* From the guest's screen to the login, from one form to the other, and   *)
(* back.  A form that is opened is a new one: it waits for nothing.        *)
Navigate(to) ==
    /\ \/ screen = "index" /\ to = "login"
       \/ screen \in Forms /\ to \in (Forms \cup {"index"}) \ {screen}
    /\ screen' = to /\ submitted' = None
    /\ UNCHANGED <<gateway, storage, user, pc, at, carried, found, kills, faults,
                   history, refused>>

(* handleLogin, handleRegister.                                            *)
Submit(s) ==
    /\ MayStart(s) /\ screen = Kind[s] /\ submitted = None
    /\ submitted' = s
    /\ Goto(s, "sent")
    /\ overlapped' = (overlapped \/ \E p \in Processes \ Calls : p # s /\ Running(p))
    /\ UNCHANGED <<gateway, storage, user, screen, at, carried, found, kills,
                   faults, torn, refused>>

(* 200: the gateway has issued a pair.                                     *)
Granted(s) ==
    /\ pc[s] = "sent"
    /\ issued' = issued \cup {s}
    /\ Goto(s, "store")
    /\ UNCHANGED <<stale, revoked, storage, view, at, carried, found, kills, faults,
                   history, refused>>

(* 401 for a wrong password, which clears the tokens like any 401; another *)
(* error; or an answer that is lost.                                       *)
Denied(s) ==
    /\ pc[s] = "sent"
    /\ \/ /\ Kind[s] = "login"
          /\ Goto(s, "clear")
          /\ UNCHANGED <<submitted, issued, faults>>
       \/ /\ Goto(s, "done") /\ Release(s)
          /\ UNCHANGED <<issued, faults>>
       \/ /\ Lose /\ issued' = issued \cup {s}
          /\ Goto(s, "done") /\ Release(s)
    /\ UNCHANGED <<stale, revoked, storage, user, screen, at, carried, found, kills,
                   history, refused>>

(* setUser at the end of login and register.                               *)
Enter(s) ==
    /\ pc[s] = "show"
    /\ SetUser(Account[s])
    /\ Goto(s, "done")
    /\ UNCHANGED <<gateway, storage, at, carried, found, kills, faults,
                   history, refused>>

-----------------------------------------------------------------------------
(* Logout                                                                  *)

(* The menu offers it as long as a user is shown, also while one is under  *)
(* way.  The refresh token is read and the request sent.                   *)
StartLogout(o) ==
    /\ MayStart(o) /\ user # None
    /\ carried' = [carried EXCEPT ![o] = storage.refresh_token]
    /\ Goto(o, "sent")
    /\ overlapped' = (overlapped \/ \E s \in SignIns : Running(s))
    /\ UNCHANGED <<gateway, storage, view, at, found, kills, faults, torn, refused>>

(* Faulty variant of EndLogout: the refresh token is not sent.             *)
EndLogoutSilently(o) ==
    /\ pc[o] = "sent"
    /\ Goto(o, "store") /\ Forget(o)
    /\ UNCHANGED <<gateway, storage, view, at, found, kills, faults, history, refused>>

(* The gateway revokes what it was sent; whatever the answer, and also     *)
(* without one, the items are removed.                                     *)
EndLogout(o) ==
    /\ pc[o] = "sent"
    /\ \/ revoked' = revoked \cup ({carried[o]} \ {None}) /\ UNCHANGED faults
       \/ Lose /\ UNCHANGED revoked
    /\ Goto(o, "store") /\ Forget(o)
    /\ UNCHANGED <<issued, stale, storage, view, at, found, kills, history, refused>>

(* Faulty variant of Leave: only the redirect.                             *)
LeaveShowing(o) ==
    /\ pc[o] = "show"
    /\ screen' = "index" /\ submitted' = None /\ UNCHANGED user
    /\ Goto(o, "done")
    /\ UNCHANGED <<gateway, storage, at, carried, found, kills,
                   faults, history, refused>>

(* setUser(null) and the redirect of handleLogout.                         *)
Leave(o) ==
    /\ pc[o] = "show"
    /\ user' = None /\ screen' = "index" /\ submitted' = None
    /\ Goto(o, "done")
    /\ UNCHANGED <<gateway, storage, at, carried, found, kills,
                   faults, history, refused>>

-----------------------------------------------------------------------------
Expire(s) ==
    /\ s \in issued \ stale
    /\ stale' = stale \cup {s}
    /\ UNCHANGED <<issued, revoked, storage, view, pc, at, carried, found, kills,
                   faults, history, refused>>

(* The application dies and is launched again; the storage stays.  The     *)
(* gateway may still handle what is on its way.                            *)
Kill ==
    /\ kills + faults < MaxFaults
    /\ kills' = kills + 1
    /\ \E late \in SUBSET {s \in SignIns : pc[s] = "sent"} : issued' = issued \cup late
    /\ \E late \in SUBSET {carried[o] : o \in {l \in Logouts : pc[l] = "sent"}} :
          revoked' = revoked \cup (late \ {None})
    /\ user' = None /\ screen' = "index" /\ submitted' = None
    /\ pc' = [p \in Processes |-> IF p = Boot THEN "token"
                                  ELSE IF pc[p] = "idle" THEN "idle" ELSE "done"]
    /\ at' = [p \in Processes |-> 1]
    /\ found' = None /\ carried' = [p \in Calls \cup Logouts |-> None]
    /\ torn' = (torn \/ \E s \in SignIns : pc[s] = "store" /\ at[s] > 1)
    /\ UNCHANGED <<stale, storage, faults, overlapped, refused>>

CheckAuth == CheckToken \/ CheckUser \/ Clear(Boot) \/ ShowFound
SignIn(s) == Granted(s) \/ Denied(s) \/ Store(s) \/ Clear(s) \/ Enter(s)
Call(c) == Answer(c) \/ Clear(c)
Logout(o) == EndLogout(o) \/ Store(o) \/ Leave(o)

Next ==
    \/ CheckAuth
    \/ \E to \in Forms \cup {"index"} : Navigate(to)
    \/ \E s \in SignIns : Submit(s) \/ SignIn(s) \/ Expire(s)
    \/ \E c \in Calls : StartCall(c) \/ Call(c)
    \/ \E o \in Logouts : StartLogout(o) \/ Logout(o)
    \/ \E p \in SignIns \cup Calls : Stall(p)
    \/ Kill

(* What is under way goes on: the storage answers, and the timer of        *)
(* request bounds the wait for the headers.  The user owes nothing.        *)
Fairness ==
    /\ WF_vars(CheckAuth)
    /\ \A s \in SignIns : WF_vars(SignIn(s))
    /\ \A c \in Calls : WF_vars(Call(c))
    /\ \A o \in Logouts : WF_vars(Logout(o))

Spec == Init /\ [][Next]_vars /\ Fairness
-----------------------------------------------------------------------------
(* Properties                                                              *)

(* Requests go out in the name of the user who is shown: the token in the  *)
(* storage is one of theirs.  Two sign-ins at once or a sign-in that meets *)
(* a logout may mix their writes, and a sign-in that is killed half way    *)
(* leaves a token next to the user of an earlier session (login and        *)
(* register write user_data after the tokens; a 401 leaves it).            *)
OneAccount ==
    user # None /\ storage.access_token # None /\ ~overlapped /\ ~torn =>
        Account[storage.access_token] = user

(* Once nothing runs, nobody is shown and no sign-in met another process,  *)
(* the device holds no access token: no later launch signs anyone in, and  *)
(* no call of a guest carries one (logout, clearTokens, checkAuth).        *)
GuestsHoldNoToken ==
    user = None /\ ~overlapped /\ (\A p \in Processes : ~Running(p)) =>
        storage.access_token = None

(* A pair that was issued and not revoked is on the device, where a later  *)
(* logout finds it, or on its way there or to the gateway, unless the      *)
(* client dropped it on a 401, an answer was lost, a sign-in met another   *)
(* process, or the application was killed (logout presents what the        *)
(* storage holds).                                                         *)
LiveTokensAreHeld ==
    ~refused /\ ~overlapped /\ faults = 0 /\ kills = 0 =>
        \A s \in issued \ revoked :
            storage.refresh_token = s \/ (pc[s] = "store" /\ at[s] <= 2)

(* A session that has not expired loses its token only to a logout, or to  *)
(* a call left over from an earlier session whose 401 comes late, to       *)
(* another sign-in, or to checkAuth after a sign-in that was killed half   *)
(* way (request clears whatever the storage holds).                        *)
ValidSessionsEndForAReason ==
    [][\A s \in issued \ stale :
          storage.access_token = s /\ storage'.access_token # s =>
              \/ \E o \in Logouts : pc[o] = "store"
              \/ \E c \in Calls : pc[c] = "clear" /\ carried[c] # s
              \/ overlapped
              \/ torn /\ pc[Boot] = "clear"
              \/ \E r \in SignIns \ {s} : pc[r] \in {"store", "clear"}]_vars

(* Every request ends, with its form enabled again, and every logout ends, *)
(* unless a body never arrives, which no timer of request covers.          *)
RequestsEnd ==
    \A p \in SignIns \cup Calls \cup Logouts :
        pc[p] = "sent" ~> pc[p] = "stalled" \/ (pc[p] = "done" /\ submitted # p)

=============================================================================
