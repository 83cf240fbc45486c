----------------------------- MODULE SessionsProofs -----------------------------
(***************************************************************************)
(* Theorems about the sessions of the Android client, for any calls,       *)
(* logins, logouts and users, any number of tokens and of faults.          *)
(*                                                                         *)
(* The argument: a session begins with one token, and while a rotation     *)
(* replaces the token it has locked, nobody else can revoke or replace it. *)
(* On the device a new token belongs to one process until it is in the     *)
(* store, and whoever takes a token from there to present it goes on until *)
(* the store holds another one or none.                                    *)
(***************************************************************************)
EXTENDS Sessions, FiniteSetTheorems, TLAPS

-----------------------------------------------------------------------------
(* The tables of the gateway                                               *)

(* Every token descends from a login; rows that are not there yet say      *)
(* nothing.                                                                *)
Descent ==
    /\ \A t \in 1..issued : session[t] \in Logins
    /\ \A t \in Tokens : t > issued => session[t] = None /\ parent[t] = NoToken

OneLive ==
    \A t, u \in 1..issued :
        t \notin revoked /\ u \notin revoked /\ session[t] = session[u] => t = u

(* A revoked token was replaced or was the last one of its session.        *)
RevokedIsReplaced ==
    \A t \in revoked :
        \/ \E u \in 1..issued : parent[u] = t
        \/ \A u \in 1..issued : session[u] = session[t] => u \in revoked

TablesInv ==
    /\ issued \in 0..MaxTokens /\ revoked \subseteq 1..issued
    /\ session \in [Tokens -> Logins \cup {None}] /\ parent \in [Tokens -> 0..issued]
    /\ Descent /\ OneLive /\ RevokedIsReplaced

-----------------------------------------------------------------------------
(* The requests on their way                                               *)

(* A process whose request is at the gateway waits for it or has given up. *)
HandlersWait ==
    \A p \in Processes :
        /\ pc[p] \in {"idle", "sent", "save"} => handler[p] = "none"
        /\ p \in Logins \cup Logouts => handler[p] # "locked"

(* A login that may still issue a token has issued none.                   *)
LoginsIssueOnce ==
    \A l \in Logins :
        pc[l] = "idle" \/ handler[l] # "none" => \A t \in 1..issued : session[t] # l

RequestsPresent ==
    \A p \in Calls \cup Logouts : handler[p] # "none" => presented[p] \in 1..issued

(* What a rotation has locked stays valid until it is replaced, and no     *)
(* other rotation works on tokens of the same user.                        *)
LocksHold ==
    /\ \A c \in Calls : handler[c] = "locked" => presented[c] \notin revoked
    /\ \A c, d \in Calls :
          /\ handler[c] = "locked" /\ handler[d] = "locked"
          /\ Name[session[presented[c]]] = Name[session[presented[d]]]
          => c = d

(* Tokens an answer has brought and nobody has stored: each belongs to one *)
(* process, and no request has presented it.                               *)
FreshIsUnused ==
    \A d \in Calls \cup Logins :
        pc[d] = "save" =>
            /\ fresh[d] \in 1..issued /\ fresh[d] \notin revoked /\ fresh[d] # store
            /\ \A p \in Calls \cup Logouts : presented[p] # fresh[d]
            /\ \A e \in Calls \cup Logins : pc[e] = "save" /\ fresh[e] = fresh[d] => e = d

Unkilled == faults["kill"] = 0

(* Whoever has presented what is in the store is not done with it, or is a *)
(* logout whose screen was left.                                           *)
PresentersGoOn ==
    Unkilled /\ store # NoToken =>
        \A p \in Calls \cup Logouts :
            presented[p] = store =>
                \/ pc[p] \in {"wait", "save", "clear"}
                \/ p \in Logouts /\ pc[p] = "left"

RevokedWasPresented ==
    Unkilled /\ store \in revoked => \E p \in Calls \cup Logouts : presented[p] = store

(* Without faults a logout ends when its token is revoked.                 *)
LogoutsRevoke ==
    NoFault =>
        \A o \in Logouts :
            /\ pc[o] = "wait" => handler[o] = "received"
            /\ pc[o] \in {"clear", "done"} => presented[o] \in revoked

RequestsInv ==
    /\ HandlersWait /\ LoginsIssueOnce /\ RequestsPresent /\ LocksHold
    /\ FreshIsUnused /\ PresentersGoOn /\ RevokedWasPresented /\ LogoutsRevoke

SessionsInv == TypeOK /\ TablesInv /\ RequestsInv

-----------------------------------------------------------------------------
(* What the actions have in common                                         *)

LEMMA Kinds ==
    /\ Calls \subseteq Processes /\ Logins \subseteq Processes /\ Logouts \subseteq Processes
    /\ \A c \in Calls : c \notin Logins /\ c \notin Logouts
    /\ \A l \in Logins : l \notin Logouts /\ l # None
    /\ NoToken \notin 1..issued
  BY ProcessesAssumption DEF Processes, NoToken

LEMMA Types ==
    ASSUME SessionsInv
    PROVE  /\ issued \in Nat /\ issued <= MaxTokens /\ MaxTokens \in Nat /\ revoked \subseteq 1..issued
           /\ handler \in [Processes -> {"none", "received", "insert", "locked"}]
           /\ store \in 0..issued
           /\ pc \in [Processes -> {"idle", "sent", "wait", "save", "clear", "done", "left"}]
           /\ bearer \in [Calls -> 0..issued]
           /\ presented \in [Calls \cup Logouts -> 0..issued]
           /\ fresh \in [Calls \cup Logins -> 0..issued]
           /\ faults \in [FaultKinds -> Nat]
           /\ session \in [Tokens -> Logins \cup {None}]
           /\ parent \in [Tokens -> 0..issued]
           /\ 1..issued \subseteq Tokens
  BY BoundsAssumption DEF SessionsInv, TypeOK, Tokens

(* A fault is never forgotten.                                             *)
LEMMA Spending ==
    ASSUME faults \in [FaultKinds -> Nat], NEW kind \in FaultKinds, Spend(kind)
    PROVE  /\ faults' \in [FaultKinds -> Nat]
           /\ ~NoFault'
           /\ Unkilled' => Unkilled
           /\ kind = "kill" => ~Unkilled'
  BY DEF Spend, NoFault, FaultKinds, Unkilled

(* A step that touches no table.                                           *)
LEMMA TablesFrame ==
    TablesInv /\ UNCHANGED <<issued, revoked, session, parent>> => TablesInv'
  BY DEF TablesInv, Descent, OneLive, RevokedIsReplaced

(* One more row in the table of tokens.                                    *)
LEMMA Issuing ==
    ASSUME SessionsInv, NEW l \in Logins, NEW replaced \in 0..issued, Issue(l, replaced)
    PROVE  /\ issued' = issued + 1 /\ issued' \in 0..MaxTokens
           /\ 1..issued' = 1..issued \cup {issued'} /\ 0..issued \subseteq 0..issued'
           /\ issued' \notin 1..issued
           /\ session' \in [Tokens -> Logins \cup {None}] /\ parent' \in [Tokens -> 0..issued']
           /\ \A t \in Tokens : t # issued' => session'[t] = session[t] /\ parent'[t] = parent[t]
           /\ session'[issued'] = l /\ parent'[issued'] = replaced
<1>1. /\ issued' = issued + 1 /\ issued \in Nat /\ issued' \in Tokens
      /\ MaxTokens \in Nat /\ issued' <= MaxTokens
  BY Types DEF Issue, Tokens
<1>2. /\ 1..issued' = 1..issued \cup {issued'} /\ 0..issued \subseteq 0..issued'
      /\ issued' \notin 1..issued /\ issued' \in 0..issued' /\ issued' \in 0..MaxTokens
  BY ONLY <1>1
<1>3. /\ session' = [session EXCEPT ![issued'] = l] /\ parent' = [parent EXCEPT ![issued'] = replaced]
      /\ session \in [Tokens -> Logins \cup {None}] /\ parent \in [Tokens -> 0..issued']
  BY <1>1, <1>2, Types DEF Issue
<1> QED
  BY ONLY <1>1, <1>2, <1>3, l \in Logins, replaced \in 0..issued

(* With more tokens in the table everything keeps its type.                *)
LEMMA TypesGrow ==
    ASSUME SessionsInv, issued' \in 0..MaxTokens, issued' = issued + 1,
           session' \in [Tokens -> Logins \cup {None}], parent' \in [Tokens -> 0..issued'],
           revoked' \subseteq 1..issued',
           handler' \in [Processes -> {"none", "received", "insert", "locked"}],
           pc' \in [Processes -> {"idle", "sent", "wait", "save", "clear", "done", "left"}],
           fresh' \in [Calls \cup Logins -> 0..issued'], faults' \in [FaultKinds -> Nat],
           UNCHANGED <<users, clock, store, bearer, presented>>
    PROVE  TypeOK'
<1>1. 1..issued \subseteq 1..issued' /\ 0..issued \subseteq 0..issued'
  BY Types
<1>2. /\ users \subseteq Names /\ stale \subseteq 1..issued /\ expired \subseteq stale /\ store \in 0..issued
      /\ bearer \in [Calls -> 0..issued] /\ presented \in [Calls \cup Logouts -> 0..issued]
  BY DEF SessionsInv, TypeOK
<1>3. /\ stale' \subseteq 1..issued' /\ expired' \subseteq stale' /\ store' \in 0..issued' /\ users' \subseteq Names
      /\ bearer' \in [Calls -> 0..issued'] /\ presented' \in [Calls \cup Logouts -> 0..issued']
  BY <1>1, <1>2 DEF clock
<1> QED
  BY <1>3 DEF TypeOK

(* What an answer does to its process.                                     *)
LEMMA Replying ==
    ASSUME SessionsInv, NEW p \in Processes, NEW step \in {"save", "clear", "done"}, Reply(p, step)
    PROVE  /\ handler' \in [Processes -> {"none", "received", "insert", "locked"}]
           /\ pc' \in [Processes -> {"idle", "sent", "wait", "save", "clear", "done", "left"}]
           /\ handler'[p] = "none"
           /\ pc'[p] = IF pc[p] = "wait" THEN step ELSE pc[p]
           /\ \A q \in Processes \ {p} : pc'[q] = pc[q] /\ handler'[q] = handler[q]
  BY Types DEF Reply, Goto

(* A call takes the access token along.                                   *)
LEMMA StartCallKeeps ==
    ASSUME SessionsInv, NEW c \in Calls, StartCall(c)
    PROVE  SessionsInv'
<1> USE Kinds, Types DEF StartCall, gateway, clock, device, Goto
<1>0. (Unkilled' => Unkilled) /\ (NoFault' => NoFault)
  BY DEF Unkilled, NoFault
<1>1. TypeOK'
  BY DEF SessionsInv, TypeOK
<1>2. TablesInv'
  BY TablesFrame DEF SessionsInv, gateway
<1>3. HandlersWait'
  BY <1>0 DEF SessionsInv, RequestsInv, HandlersWait
<1>4. LoginsIssueOnce'
  BY <1>0 DEF SessionsInv, RequestsInv, LoginsIssueOnce
<1>5. RequestsPresent'
  BY <1>0 DEF SessionsInv, RequestsInv, RequestsPresent
<1>6. LocksHold'
  BY <1>0 DEF SessionsInv, RequestsInv, LocksHold
<1>7. FreshIsUnused'
  BY <1>0 DEF SessionsInv, RequestsInv, FreshIsUnused
<1>8. PresentersGoOn'
  BY <1>0 DEF SessionsInv, RequestsInv, PresentersGoOn
<1>9. RevokedWasPresented'
  BY <1>0 DEF SessionsInv, RequestsInv, RevokedWasPresented
<1>10. LogoutsRevoke'
  BY <1>0 DEF SessionsInv, RequestsInv, LogoutsRevoke
<1> QED
  BY <1>1, <1>2, <1>3, <1>4, <1>5, <1>6, <1>7, <1>8, <1>9, <1>10 DEF SessionsInv, RequestsInv

(* A call is over.                                                        *)
LEMMA AcceptedKeeps ==
    ASSUME SessionsInv, NEW c \in Calls, Accepted(c)
    PROVE  SessionsInv'
<1> USE Kinds, Types DEF Accepted, gateway, clock, device, Goto
<1>0. (Unkilled' => Unkilled) /\ (NoFault' => NoFault)
  BY DEF Unkilled, NoFault
<1>1. TypeOK'
  BY DEF SessionsInv, TypeOK
<1>2. TablesInv'
  BY TablesFrame DEF SessionsInv, gateway
<1>3. HandlersWait'
  BY <1>0 DEF SessionsInv, RequestsInv, HandlersWait
<1>4. LoginsIssueOnce'
  BY <1>0 DEF SessionsInv, RequestsInv, LoginsIssueOnce
<1>5. RequestsPresent'
  BY <1>0 DEF SessionsInv, RequestsInv, RequestsPresent
<1>6. LocksHold'
  BY <1>0 DEF SessionsInv, RequestsInv, LocksHold
<1>7. FreshIsUnused'
  BY <1>0 DEF SessionsInv, RequestsInv, FreshIsUnused
<1>8. PresentersGoOn'
  BY <1>0 DEF SessionsInv, RequestsInv, PresentersGoOn
<1>9. RevokedWasPresented'
  BY <1>0 DEF SessionsInv, RequestsInv, RevokedWasPresented
<1>10. LogoutsRevoke'
  BY <1>0 DEF SessionsInv, RequestsInv, LogoutsRevoke
<1> QED
  BY <1>1, <1>2, <1>3, <1>4, <1>5, <1>6, <1>7, <1>8, <1>9, <1>10 DEF SessionsInv, RequestsInv

(* A call presents what is in the store.                                  *)
LEMMA AuthenticateKeeps ==
    ASSUME SessionsInv, NEW c \in Calls, Authenticate(c)
    PROVE  SessionsInv'
<1> USE Kinds, Types DEF Authenticate, gateway, clock, device, Goto, NoToken
<1>0. (Unkilled' => Unkilled) /\ (NoFault' => NoFault)
  BY DEF Unkilled, NoFault
<1>1. TypeOK'
  BY DEF SessionsInv, TypeOK
<1>2. TablesInv'
  BY TablesFrame DEF SessionsInv, gateway
<1>3. HandlersWait'
  BY <1>0 DEF SessionsInv, RequestsInv, HandlersWait
<1>4. LoginsIssueOnce'
  BY <1>0 DEF SessionsInv, RequestsInv, LoginsIssueOnce
<1>5. RequestsPresent'
  BY <1>0 DEF SessionsInv, RequestsInv, RequestsPresent
<1>6. LocksHold'
  BY <1>0 DEF SessionsInv, RequestsInv, LocksHold
<1>7. FreshIsUnused'
  BY <1>0 DEF SessionsInv, RequestsInv, FreshIsUnused
<1>8. PresentersGoOn'
  BY <1>0 DEF SessionsInv, RequestsInv, PresentersGoOn
<1>9. RevokedWasPresented'
  BY <1>0 DEF SessionsInv, RequestsInv, RevokedWasPresented
<1>10. LogoutsRevoke'
  BY <1>0 DEF SessionsInv, RequestsInv, LogoutsRevoke
<1> QED
  BY <1>1, <1>2, <1>3, <1>4, <1>5, <1>6, <1>7, <1>8, <1>9, <1>10 DEF SessionsInv, RequestsInv

(* A call stores the token it was answered with.                          *)
LEMMA SaveKeeps ==
    ASSUME SessionsInv, NEW c \in Calls, Save(c)
    PROVE  SessionsInv'
<1> USE Kinds, Types DEF Save, gateway, clock, device, Goto
<1>0. (Unkilled' => Unkilled) /\ (NoFault' => NoFault)
  BY DEF Unkilled, NoFault
<1>1. TypeOK'
  BY DEF SessionsInv, TypeOK
<1>2. TablesInv'
  BY TablesFrame DEF SessionsInv, gateway
<1>3. HandlersWait'
  BY <1>0 DEF SessionsInv, RequestsInv, HandlersWait
<1>4. LoginsIssueOnce'
  BY <1>0 DEF SessionsInv, RequestsInv, LoginsIssueOnce
<1>5. RequestsPresent'
  BY <1>0 DEF SessionsInv, RequestsInv, RequestsPresent
<1>6. LocksHold'
  BY <1>0 DEF SessionsInv, RequestsInv, LocksHold
<1>7. FreshIsUnused'
  BY <1>0 DEF SessionsInv, RequestsInv, FreshIsUnused
<1>8. PresentersGoOn'
  BY <1>0 DEF SessionsInv, RequestsInv, FreshIsUnused, PresentersGoOn
<1>9. RevokedWasPresented'
  BY <1>0 DEF SessionsInv, RequestsInv, FreshIsUnused, RevokedWasPresented
<1>10. LogoutsRevoke'
  BY <1>0 DEF SessionsInv, RequestsInv, LogoutsRevoke
<1> QED
  BY <1>1, <1>2, <1>3, <1>4, <1>5, <1>6, <1>7, <1>8, <1>9, <1>10 DEF SessionsInv, RequestsInv

(* So does a login.                                                       *)
LEMMA SaveLoginKeeps ==
    ASSUME SessionsInv, NEW l \in Logins, SaveLogin(l)
    PROVE  SessionsInv'
<1> USE Kinds, Types DEF SaveLogin, gateway, clock, device, Goto
<1>0. (Unkilled' => Unkilled) /\ (NoFault' => NoFault)
  BY DEF Unkilled, NoFault
<1>1. TypeOK'
  BY DEF SessionsInv, TypeOK
<1>2. TablesInv'
  BY TablesFrame DEF SessionsInv, gateway
<1>3. HandlersWait'
  BY <1>0 DEF SessionsInv, RequestsInv, HandlersWait
<1>4. LoginsIssueOnce'
  BY <1>0 DEF SessionsInv, RequestsInv, LoginsIssueOnce
<1>5. RequestsPresent'
  BY <1>0 DEF SessionsInv, RequestsInv, RequestsPresent
<1>6. LocksHold'
  BY <1>0 DEF SessionsInv, RequestsInv, LocksHold
<1>7. FreshIsUnused'
  BY <1>0 DEF SessionsInv, RequestsInv, FreshIsUnused
<1>8. PresentersGoOn'
  BY <1>0 DEF SessionsInv, RequestsInv, FreshIsUnused, PresentersGoOn
<1>9. RevokedWasPresented'
  BY <1>0 DEF SessionsInv, RequestsInv, FreshIsUnused, RevokedWasPresented
<1>10. LogoutsRevoke'
  BY <1>0 DEF SessionsInv, RequestsInv, LogoutsRevoke
<1> QED
  BY <1>1, <1>2, <1>3, <1>4, <1>5, <1>6, <1>7, <1>8, <1>9, <1>10 DEF SessionsInv, RequestsInv

(* The store is emptied.                                                  *)
LEMMA ClearKeeps ==
    ASSUME SessionsInv, NEW p \in Calls \cup Logouts, Clear(p)
    PROVE  SessionsInv'
<1> USE Kinds, Types DEF Clear, gateway, clock, device, Goto, NoToken
<1>0. (Unkilled' => Unkilled) /\ (NoFault' => NoFault)
  BY DEF Unkilled, NoFault
<1>1. TypeOK'
  BY DEF SessionsInv, TypeOK
<1>2. TablesInv'
  BY TablesFrame DEF SessionsInv, gateway
<1>3. HandlersWait'
  BY <1>0 DEF SessionsInv, RequestsInv, HandlersWait
<1>4. LoginsIssueOnce'
  BY <1>0 DEF SessionsInv, RequestsInv, LoginsIssueOnce
<1>5. RequestsPresent'
  BY <1>0 DEF SessionsInv, RequestsInv, RequestsPresent
<1>6. LocksHold'
  BY <1>0 DEF SessionsInv, RequestsInv, LocksHold
<1>7. FreshIsUnused'
  BY <1>0 DEF SessionsInv, RequestsInv, FreshIsUnused
<1>8. PresentersGoOn'
  BY <1>0 DEF SessionsInv, RequestsInv, PresentersGoOn
<1>9. RevokedWasPresented'
  BY <1>0 DEF SessionsInv, RequestsInv, RevokedWasPresented
<1>10. LogoutsRevoke'
  BY <1>0 DEF SessionsInv, RequestsInv, LogoutsRevoke
<1> QED
  BY <1>1, <1>2, <1>3, <1>4, <1>5, <1>6, <1>7, <1>8, <1>9, <1>10 DEF SessionsInv, RequestsInv

(* A login is sent.                                                       *)
LEMMA SubmitKeeps ==
    ASSUME SessionsInv, NEW l \in Logins, Submit(l)
    PROVE  SessionsInv'
<1> USE Kinds, Types DEF Submit, gateway, clock, device, Goto
<1>0. (Unkilled' => Unkilled) /\ (NoFault' => NoFault)
  BY DEF Unkilled, NoFault
<1>1. TypeOK'
  BY DEF SessionsInv, TypeOK
<1>2. TablesInv'
  BY TablesFrame DEF SessionsInv, gateway
<1>3. HandlersWait'
  BY <1>0 DEF SessionsInv, RequestsInv, HandlersWait
<1>4. LoginsIssueOnce'
  BY <1>0 DEF SessionsInv, RequestsInv, LoginsIssueOnce
<1>5. RequestsPresent'
  BY <1>0 DEF SessionsInv, RequestsInv, RequestsPresent
<1>6. LocksHold'
  BY <1>0 DEF SessionsInv, RequestsInv, LocksHold
<1>7. FreshIsUnused'
  BY <1>0 DEF SessionsInv, RequestsInv, FreshIsUnused
<1>8. PresentersGoOn'
  BY <1>0 DEF SessionsInv, RequestsInv, PresentersGoOn
<1>9. RevokedWasPresented'
  BY <1>0 DEF SessionsInv, RequestsInv, RevokedWasPresented
<1>10. LogoutsRevoke'
  BY <1>0 DEF SessionsInv, RequestsInv, LogoutsRevoke
<1> QED
  BY <1>1, <1>2, <1>3, <1>4, <1>5, <1>6, <1>7, <1>8, <1>9, <1>10 DEF SessionsInv, RequestsInv

(* A logout presents what is in the store.                                *)
LEMMA StartLogoutKeeps ==
    ASSUME SessionsInv, NEW o \in Logouts, StartLogout(o)
    PROVE  SessionsInv'
<1> USE Kinds, Types DEF StartLogout, gateway, clock, device, Goto, NoToken
<1>0. (Unkilled' => Unkilled) /\ (NoFault' => NoFault)
  BY DEF Unkilled, NoFault
<1>1. TypeOK'
  BY DEF SessionsInv, TypeOK
<1>2. TablesInv'
  BY TablesFrame DEF SessionsInv, gateway
<1>3. HandlersWait'
  BY <1>0 DEF SessionsInv, RequestsInv, HandlersWait
<1>4. LoginsIssueOnce'
  BY <1>0 DEF SessionsInv, RequestsInv, LoginsIssueOnce
<1>5. RequestsPresent'
  BY <1>0 DEF SessionsInv, RequestsInv, RequestsPresent
<1>6. LocksHold'
  BY <1>0 DEF SessionsInv, RequestsInv, LocksHold
<1>7. FreshIsUnused'
  BY <1>0 DEF SessionsInv, RequestsInv, FreshIsUnused
<1>8. PresentersGoOn'
  BY <1>0 DEF SessionsInv, RequestsInv, PresentersGoOn
<1>9. RevokedWasPresented'
  BY <1>0 DEF SessionsInv, RequestsInv, RevokedWasPresented
<1>10. LogoutsRevoke'
  BY <1>0 DEF SessionsInv, RequestsInv, LogoutsRevoke
<1> QED
  BY <1>1, <1>2, <1>3, <1>4, <1>5, <1>6, <1>7, <1>8, <1>9, <1>10 DEF SessionsInv, RequestsInv

(* A device gives up; the gateway does not know.                          *)
LEMMA GiveUpKeeps ==
    ASSUME SessionsInv, NEW p \in Processes, GiveUp(p)
    PROVE  SessionsInv'
<1> USE Kinds, Types DEF GiveUp, gateway, clock, device, Goto, AfterError
<1>0. (Unkilled' => Unkilled) /\ (NoFault' => NoFault)
  BY Spending DEF FaultKinds, Unkilled, NoFault
<1>1. TypeOK'
  BY Spending DEF SessionsInv, TypeOK, FaultKinds
<1>2. TablesInv'
  BY TablesFrame DEF SessionsInv, gateway
<1>3. HandlersWait'
  BY <1>0, Spending DEF SessionsInv, RequestsInv, FaultKinds, HandlersWait
<1>4. LoginsIssueOnce'
  BY <1>0, Spending DEF SessionsInv, RequestsInv, FaultKinds, LoginsIssueOnce
<1>5. RequestsPresent'
  BY <1>0, Spending DEF SessionsInv, RequestsInv, FaultKinds, RequestsPresent
<1>6. LocksHold'
  BY <1>0, Spending DEF SessionsInv, RequestsInv, FaultKinds, LocksHold
<1>7. FreshIsUnused'
  BY <1>0, Spending DEF SessionsInv, RequestsInv, FaultKinds, FreshIsUnused
<1>8. PresentersGoOn'
  BY <1>0, Spending DEF SessionsInv, RequestsInv, FaultKinds, PresentersGoOn
<1>9. RevokedWasPresented'
  BY <1>0, Spending DEF SessionsInv, RequestsInv, FaultKinds, RevokedWasPresented
<1>10. LogoutsRevoke'
  BY <1>0, Spending DEF SessionsInv, RequestsInv, FaultKinds, LogoutsRevoke
<1> QED
  BY <1>1, <1>2, <1>3, <1>4, <1>5, <1>6, <1>7, <1>8, <1>9, <1>10 DEF SessionsInv, RequestsInv

(* A screen is left.                                                      *)
LEMMA LeaveKeeps ==
    ASSUME SessionsInv, NEW p \in Processes, Leave(p)
    PROVE  SessionsInv'
<1> USE Kinds, Types DEF Leave, gateway, clock, device, Goto
<1>0. (Unkilled' => Unkilled) /\ (NoFault' => NoFault)
  BY DEF Unkilled, NoFault
<1>1. TypeOK'
  BY DEF SessionsInv, TypeOK
<1>2. TablesInv'
  BY TablesFrame DEF SessionsInv, gateway
<1>3. HandlersWait'
  BY <1>0 DEF SessionsInv, RequestsInv, HandlersWait
<1>4. LoginsIssueOnce'
  BY <1>0 DEF SessionsInv, RequestsInv, LoginsIssueOnce
<1>5. RequestsPresent'
  BY <1>0 DEF SessionsInv, RequestsInv, RequestsPresent
<1>6. LocksHold'
  BY <1>0 DEF SessionsInv, RequestsInv, LocksHold
<1>7. FreshIsUnused'
  BY <1>0 DEF SessionsInv, RequestsInv, FreshIsUnused
<1>8. PresentersGoOn'
  BY <1>0 DEF SessionsInv, RequestsInv, PresentersGoOn
<1>9. RevokedWasPresented'
  BY <1>0 DEF SessionsInv, RequestsInv, RevokedWasPresented
<1>10. LogoutsRevoke'
  BY <1>0 DEF SessionsInv, RequestsInv, LogoutsRevoke
<1> QED
  BY <1>1, <1>2, <1>3, <1>4, <1>5, <1>6, <1>7, <1>8, <1>9, <1>10 DEF SessionsInv, RequestsInv

(* A rotation locks its rows or is refused.                               *)
LEMMA SelectKeeps ==
    ASSUME SessionsInv, NEW c \in Calls, Select(c)
    PROVE  SessionsInv'
<1> USE Kinds, Types DEF Select, gateway, clock, device, Goto, Reply, ReplyError, AfterError, UserLocked, Valid, Live
<1>0. (Unkilled' => Unkilled) /\ (NoFault' => NoFault)
  BY Spending DEF FaultKinds, Unkilled, NoFault
<1>1. TypeOK'
  BY Spending DEF SessionsInv, TypeOK, FaultKinds
<1>2. TablesInv'
  BY TablesFrame DEF SessionsInv, gateway
<1>3. HandlersWait'
  BY <1>0, Spending DEF SessionsInv, RequestsInv, FaultKinds, HandlersWait
<1>4. LoginsIssueOnce'
  BY <1>0, Spending DEF SessionsInv, RequestsInv, FaultKinds, LoginsIssueOnce
<1>5. RequestsPresent'
  BY <1>0, Spending DEF SessionsInv, RequestsInv, FaultKinds, RequestsPresent
<1>6. LocksHold'
  BY <1>0, Spending DEF SessionsInv, RequestsInv, FaultKinds, LocksHold
<1>7. FreshIsUnused'
  BY <1>0, Spending DEF SessionsInv, RequestsInv, FaultKinds, FreshIsUnused
<1>8. PresentersGoOn'
  BY <1>0, Spending DEF SessionsInv, RequestsInv, FaultKinds, PresentersGoOn
<1>9. RevokedWasPresented'
  BY <1>0, Spending DEF SessionsInv, RequestsInv, FaultKinds, RevokedWasPresented
<1>10. LogoutsRevoke'
  BY <1>0, Spending DEF SessionsInv, RequestsInv, FaultKinds, LogoutsRevoke
<1> QED
  BY <1>1, <1>2, <1>3, <1>4, <1>5, <1>6, <1>7, <1>8, <1>9, <1>10 DEF SessionsInv, RequestsInv

(* A token is replaced, or nothing happens.                               *)
LEMMA RotateKeeps ==
    ASSUME SessionsInv, NEW c \in Calls, Rotate(c)
    PROVE  SessionsInv'
<1> USE Kinds, Types DEF Rotate, gateway, clock, device, Goto, Reply, ReplyError, ReplyTokens, AfterError, Issue, NoIssue
<1>a. /\ handler[c] = "locked" /\ presented[c] \in 1..issued /\ presented[c] \notin revoked
      /\ session[presented[c]] \in Logins /\ UNCHANGED <<users, clock, store, bearer, presented>>
  BY DEF SessionsInv, RequestsInv, RequestsPresent, LocksHold, TablesInv, Descent
<1>b. \/ UNCHANGED <<issued, revoked, session, parent, fresh>> /\ Spend("db") /\ Reply(c, "clear")
      \/ /\ Issue(session[presented[c]], presented[c])
         /\ revoked' = revoked \cup {presented[c]}
         /\ \/ UNCHANGED fresh /\ Spend("db") /\ Reply(c, "clear")
            \/ fresh' = [fresh EXCEPT ![c] = issued'] /\ UNCHANGED faults /\ Reply(c, "save")
  BY DEF ReplyError, ReplyTokens, AfterError
<1>c. /\ handler' \in [Processes -> {"none", "received", "insert", "locked"}]
      /\ pc' \in [Processes -> {"idle", "sent", "wait", "save", "clear", "done", "left"}]
      /\ faults' \in [FaultKinds -> Nat]
      /\ handler'[c] = "none" /\ \A q \in Processes \ {c} : pc'[q] = pc[q] /\ handler'[q] = handler[q]
  BY <1>b, Replying, Spending DEF FaultKinds
<1>d. ASSUME UNCHANGED <<issued, revoked, session, parent>>
      PROVE  TypeOK' /\ TablesInv' /\ LoginsIssueOnce' /\ LocksHold'
  <2>1. TypeOK'
    BY <1>a, <1>b, <1>c, <1>d DEF SessionsInv, TypeOK
  <2>2. LoginsIssueOnce'
    BY <1>c, <1>d DEF SessionsInv, RequestsInv, LoginsIssueOnce
  <2>3. LocksHold'
    BY <1>a, <1>c, <1>d DEF SessionsInv, RequestsInv, LocksHold
  <2> QED
    BY <2>1, <2>2, <2>3, <1>d, TablesFrame DEF SessionsInv
<1>e. ASSUME Issue(session[presented[c]], presented[c]) /\ revoked' = revoked \cup {presented[c]}
      PROVE  TypeOK' /\ TablesInv' /\ LoginsIssueOnce' /\ LocksHold'
  <2>1. /\ issued' = issued + 1 /\ issued' \in 0..MaxTokens
        /\ 1..issued' = 1..issued \cup {issued'} /\ 0..issued \subseteq 0..issued' /\ issued' \notin 1..issued
        /\ session' \in [Tokens -> Logins \cup {None}] /\ parent' \in [Tokens -> 0..issued']
        /\ \A t \in Tokens : t # issued' => session'[t] = session[t] /\ parent'[t] = parent[t]
        /\ session'[issued'] = session[presented[c]] /\ parent'[issued'] = presented[c]
    BY <1>a, <1>e, Issuing
  <2>2. TypeOK'
    <3>1. fresh' \in [Calls \cup Logins -> 0..issued']
      BY <1>b, <2>1
    <3>2. revoked' \subseteq 1..issued'
      BY <1>a, <1>e, <2>1
    <3> QED
      BY <1>a, <1>c, <2>1, <3>1, <3>2, TypesGrow
  <2>3. TablesInv'
    <3>1. Descent'
      BY <1>a, <2>1, SMTT(40) DEF SessionsInv, TablesInv, Descent, Tokens
    <3>2. OneLive'
      BY <1>a, <1>e, <2>1 DEF SessionsInv, TablesInv, OneLive
    <3>3. RevokedIsReplaced'
      <4>1. \A u \in 1..issued : presented[c] # parent[u] \/ presented[c] = parent[u]
        OBVIOUS
      <4>2. ASSUME NEW t \in revoked
            PROVE  \/ \E u \in 1..issued' : parent'[u] = t
                   \/ \A u \in 1..issued' : session'[u] = session'[t] => u \in revoked'
        <5>1. t \in 1..issued /\ t \in Tokens /\ t # issued'
          BY <2>1
        <5>2. CASE \E u \in 1..issued : parent[u] = t
          BY <2>1, <5>1, <5>2
        <5>3. CASE \A u \in 1..issued : session[u] = session[t] => u \in revoked
          BY <1>a, <1>e, <2>1, <5>1, <5>3
        <5> QED
          BY <5>2, <5>3 DEF SessionsInv, TablesInv, RevokedIsReplaced
      <4>3. \E u \in 1..issued' : parent'[u] = presented[c]
        BY <2>1
      <4> QED
        BY <1>e, <4>2, <4>3 DEF RevokedIsReplaced
    <3> QED
      BY <2>1, <2>2, <3>1, <3>2, <3>3 DEF TablesInv, TypeOK
  <2>4. LoginsIssueOnce'
    BY <1>a, <1>c, <2>1 DEF SessionsInv, RequestsInv, LoginsIssueOnce
  <2>5. LocksHold'
    <3>1. \A d \in Calls : handler'[d] = "locked" =>
              /\ d # c /\ handler[d] = "locked" /\ presented'[d] = presented[d]
              /\ presented[d] \in 1..issued /\ session'[presented[d]] = session[presented[d]]
      BY <1>a, <1>c, <2>1 DEF SessionsInv, RequestsInv, RequestsPresent
    <3>2. \A d \in Calls : handler'[d] = "locked" => presented[d] # presented[c]
      BY <1>a, <3>1 DEF SessionsInv, RequestsInv, LocksHold
    <3> QED
      BY <1>a, <1>e, <3>1, <3>2 DEF SessionsInv, RequestsInv, LocksHold
  <2> QED
    BY <2>2, <2>3, <2>4, <2>5
<1>0. (Unkilled' => Unkilled) /\ (NoFault' => NoFault)
  BY Spending DEF FaultKinds, Unkilled, NoFault
<1>1. TypeOK'
  BY <1>b, <1>d, <1>e
<1>2. TablesInv'
  BY <1>b, <1>d, <1>e
<1>3. HandlersWait'
  BY <1>0, Spending DEF SessionsInv, RequestsInv, FaultKinds, HandlersWait
<1>4. LoginsIssueOnce'
  BY <1>b, <1>d, <1>e
<1>5. RequestsPresent'
  BY <1>0, Spending DEF SessionsInv, RequestsInv, FaultKinds, RequestsPresent
<1>6. LocksHold'
  BY <1>b, <1>d, <1>e
<1>7. FreshIsUnused'
  BY <1>0, Spending DEF SessionsInv, RequestsInv, FaultKinds, FreshIsUnused
<1>8. PresentersGoOn'
  BY <1>0, Spending DEF SessionsInv, RequestsInv, FaultKinds, PresentersGoOn
<1>9. RevokedWasPresented'
  BY <1>0, Spending DEF SessionsInv, RequestsInv, FaultKinds, RevokedWasPresented
<1>10. LogoutsRevoke'
  BY <1>0, Spending DEF SessionsInv, RequestsInv, FaultKinds, LogoutsRevoke
<1> QED
  BY <1>1, <1>2, <1>3, <1>4, <1>5, <1>6, <1>7, <1>8, <1>9, <1>10 DEF SessionsInv, RequestsInv

(* A registration creates its user or is refused.                         *)
LEMMA CreateUserKeeps ==
    ASSUME SessionsInv, NEW l \in Logins, CreateUser(l)
    PROVE  SessionsInv'
<1> USE Kinds, Types DEF CreateUser, gateway, clock, device, Goto, Reply, ReplyError, AfterError
<1>0. (Unkilled' => Unkilled) /\ (NoFault' => NoFault)
  BY Spending DEF FaultKinds, Unkilled, NoFault
<1>1. TypeOK'
  BY Spending, ProcessesAssumption DEF SessionsInv, TypeOK, FaultKinds
<1>2. TablesInv'
  BY TablesFrame DEF SessionsInv, gateway
<1>3. HandlersWait'
  BY <1>0, Spending DEF SessionsInv, RequestsInv, FaultKinds, HandlersWait
<1>4. LoginsIssueOnce'
  BY <1>0, Spending DEF SessionsInv, RequestsInv, FaultKinds, LoginsIssueOnce
<1>5. RequestsPresent'
  BY <1>0, Spending DEF SessionsInv, RequestsInv, FaultKinds, RequestsPresent
<1>6. LocksHold'
  BY <1>0, Spending DEF SessionsInv, RequestsInv, FaultKinds, LocksHold
<1>7. FreshIsUnused'
  BY <1>0, Spending DEF SessionsInv, RequestsInv, FaultKinds, FreshIsUnused
<1>8. PresentersGoOn'
  BY <1>0, Spending DEF SessionsInv, RequestsInv, FaultKinds, PresentersGoOn
<1>9. RevokedWasPresented'
  BY <1>0, Spending DEF SessionsInv, RequestsInv, FaultKinds, RevokedWasPresented
<1>10. LogoutsRevoke'
  BY <1>0, Spending DEF SessionsInv, RequestsInv, FaultKinds, LogoutsRevoke
<1> QED
  BY <1>1, <1>2, <1>3, <1>4, <1>5, <1>6, <1>7, <1>8, <1>9, <1>10 DEF SessionsInv, RequestsInv

(* A login is accepted or refused.                                        *)
LEMMA CheckPasswordKeeps ==
    ASSUME SessionsInv, NEW l \in Logins, CheckPassword(l)
    PROVE  SessionsInv'
<1> USE Kinds, Types DEF CheckPassword, gateway, clock, device, Goto, Reply, ReplyError, AfterError
<1>0. (Unkilled' => Unkilled) /\ (NoFault' => NoFault)
  BY DEF Unkilled, NoFault
<1>1. TypeOK'
  BY DEF SessionsInv, TypeOK
<1>2. TablesInv'
  BY TablesFrame DEF SessionsInv, gateway
<1>3. HandlersWait'
  BY <1>0 DEF SessionsInv, RequestsInv, HandlersWait
<1>4. LoginsIssueOnce'
  BY <1>0 DEF SessionsInv, RequestsInv, LoginsIssueOnce
<1>5. RequestsPresent'
  BY <1>0 DEF SessionsInv, RequestsInv, RequestsPresent
<1>6. LocksHold'
  BY <1>0 DEF SessionsInv, RequestsInv, LocksHold
<1>7. FreshIsUnused'
  BY <1>0 DEF SessionsInv, RequestsInv, FreshIsUnused
<1>8. PresentersGoOn'
  BY <1>0 DEF SessionsInv, RequestsInv, PresentersGoOn
<1>9. RevokedWasPresented'
  BY <1>0 DEF SessionsInv, RequestsInv, RevokedWasPresented
<1>10. LogoutsRevoke'
  BY <1>0 DEF SessionsInv, RequestsInv, LogoutsRevoke
<1> QED
  BY <1>1, <1>2, <1>3, <1>4, <1>5, <1>6, <1>7, <1>8, <1>9, <1>10 DEF SessionsInv, RequestsInv

(* The first token of a session.                                          *)
LEMMA IssueTokenKeeps ==
    ASSUME SessionsInv, NEW l \in Logins, IssueToken(l)
    PROVE  SessionsInv'
<1> USE Kinds, Types DEF IssueToken, gateway, clock, device, Goto, Reply, ReplyError, ReplyTokens, AfterError, Issue, NoIssue
<1>a. /\ handler[l] = "insert" /\ \A t \in 1..issued : session[t] # l
      /\ UNCHANGED <<users, revoked, clock, store, bearer, presented>>
  BY DEF SessionsInv, RequestsInv, LoginsIssueOnce
<1>b. \/ UNCHANGED <<issued, session, parent, fresh>> /\ Spend("db") /\ Reply(l, "done")
      \/ /\ Issue(l, NoToken)
         /\ \/ UNCHANGED fresh /\ Spend("db") /\ Reply(l, "done")
            \/ fresh' = [fresh EXCEPT ![l] = issued'] /\ UNCHANGED faults /\ Reply(l, "save")
  BY DEF ReplyError, ReplyTokens, AfterError
<1>c. /\ handler' \in [Processes -> {"none", "received", "insert", "locked"}]
      /\ pc' \in [Processes -> {"idle", "sent", "wait", "save", "clear", "done", "left"}]
      /\ faults' \in [FaultKinds -> Nat]
      /\ handler'[l] = "none" /\ pc'[l] # "idle"
      /\ \A q \in Processes \ {l} : pc'[q] = pc[q] /\ handler'[q] = handler[q]
  <2>1. pc[l] # "idle"
    BY <1>a DEF SessionsInv, RequestsInv, HandlersWait
  <2> QED
    BY <1>b, <2>1, Replying, Spending DEF FaultKinds
<1>d. ASSUME UNCHANGED <<issued, session, parent>>
      PROVE  TypeOK' /\ TablesInv' /\ LoginsIssueOnce' /\ LocksHold'
  <2>1. TypeOK'
    BY <1>a, <1>b, <1>c, <1>d DEF SessionsInv, TypeOK
  <2>2. LoginsIssueOnce'
    BY <1>c, <1>d DEF SessionsInv, RequestsInv, LoginsIssueOnce
  <2>3. LocksHold'
    BY <1>a, <1>c, <1>d DEF SessionsInv, RequestsInv, LocksHold
  <2> QED
    BY <2>1, <2>2, <2>3, <1>a, <1>d, TablesFrame DEF SessionsInv
<1>e. ASSUME Issue(l, NoToken)
      PROVE  TypeOK' /\ TablesInv' /\ LoginsIssueOnce' /\ LocksHold'
  <2>1. /\ issued' = issued + 1 /\ issued' \in 0..MaxTokens
        /\ 1..issued' = 1..issued \cup {issued'} /\ 0..issued \subseteq 0..issued' /\ issued' \notin 1..issued
        /\ session' \in [Tokens -> Logins \cup {None}] /\ parent' \in [Tokens -> 0..issued']
        /\ \A t \in Tokens : t # issued' => session'[t] = session[t] /\ parent'[t] = parent[t]
        /\ session'[issued'] = l /\ parent'[issued'] = NoToken
    <3>1. NoToken \in 0..issued /\ l \in Logins
      BY DEF NoToken
    <3> QED
      BY <1>e, <3>1, Issuing
  <2>2. TypeOK'
    <3>1. fresh' \in [Calls \cup Logins -> 0..issued']
      BY <1>b, <2>1
    <3>2. revoked' \subseteq 1..issued'
      BY <1>a, <2>1
    <3> QED
      BY <1>a, <1>c, <2>1, <3>1, <3>2, TypesGrow
  <2>3. TablesInv'
    <3>1. Descent'
      BY <2>1, SMTT(40) DEF SessionsInv, TablesInv, Descent, Tokens
    <3>2. OneLive'
      BY <1>a, <2>1 DEF SessionsInv, TablesInv, OneLive
    <3>3. RevokedIsReplaced'
      <4> SUFFICES ASSUME NEW t \in revoked
                   PROVE  \/ \E u \in 1..issued' : parent'[u] = t
                          \/ \A u \in 1..issued' : session'[u] = session'[t] => u \in revoked
        BY <1>a DEF RevokedIsReplaced
      <4>1. t \in 1..issued /\ t \in Tokens /\ t # issued' /\ session[t] # l
        BY <1>a, <2>1
      <4>2. CASE \E u \in 1..issued : parent[u] = t
        BY <2>1, <4>1, <4>2
      <4>3. CASE \A u \in 1..issued : session[u] = session[t] => u \in revoked
        BY <1>a, <2>1, <4>1, <4>3
      <4> QED
        BY <4>2, <4>3 DEF SessionsInv, TablesInv, RevokedIsReplaced
    <3> QED
      BY <2>1, <2>2, <3>1, <3>2, <3>3 DEF TablesInv, TypeOK
  <2>4. LoginsIssueOnce'
    BY <1>c, <2>1 DEF SessionsInv, RequestsInv, LoginsIssueOnce
  <2>5. LocksHold'
    <3>1. \A d \in Calls : handler'[d] = "locked" =>
              /\ handler[d] = "locked" /\ presented'[d] = presented[d]
              /\ presented[d] \in 1..issued /\ session'[presented[d]] = session[presented[d]]
      BY <1>a, <1>c, <2>1 DEF SessionsInv, RequestsInv, RequestsPresent
    <3> QED
      BY <1>a, <3>1 DEF SessionsInv, RequestsInv, LocksHold
  <2> QED
    BY <2>2, <2>3, <2>4, <2>5
<1>0. (Unkilled' => Unkilled) /\ (NoFault' => NoFault)
  BY Spending DEF FaultKinds, Unkilled, NoFault
<1>1. TypeOK'
  BY <1>b, <1>d, <1>e
<1>2. TablesInv'
  BY <1>b, <1>d, <1>e
<1>3. HandlersWait'
  BY <1>0, Spending DEF SessionsInv, RequestsInv, FaultKinds, HandlersWait
<1>4. LoginsIssueOnce'
  BY <1>b, <1>d, <1>e
<1>5. RequestsPresent'
  BY <1>0, Spending DEF SessionsInv, RequestsInv, FaultKinds, RequestsPresent
<1>6. LocksHold'
  BY <1>b, <1>d, <1>e
<1>7. FreshIsUnused'
  BY <1>0, Spending DEF SessionsInv, RequestsInv, FaultKinds, FreshIsUnused
<1>8. PresentersGoOn'
  BY <1>0, Spending DEF SessionsInv, RequestsInv, FaultKinds, PresentersGoOn
<1>9. RevokedWasPresented'
  BY <1>0, Spending DEF SessionsInv, RequestsInv, FaultKinds, RevokedWasPresented
<1>10. LogoutsRevoke'
  BY <1>0, Spending DEF SessionsInv, RequestsInv, FaultKinds, LogoutsRevoke
<1> QED
  BY <1>1, <1>2, <1>3, <1>4, <1>5, <1>6, <1>7, <1>8, <1>9, <1>10 DEF SessionsInv, RequestsInv

(* A logout revokes what it presented.                                    *)
LEMMA RevokeKeeps ==
    ASSUME SessionsInv, NEW o \in Logouts, Revoke(o)
    PROVE  SessionsInv'
<1> USE Kinds, Types DEF Revoke, gateway, clock, device, Goto, Reply, TokenLocked
<1>0. (Unkilled' => Unkilled) /\ (NoFault' => NoFault)
  BY Spending DEF FaultKinds, Unkilled, NoFault
<1>1. TypeOK'
  <2>1. presented[o] \in 1..issued
    BY DEF SessionsInv, RequestsInv, RequestsPresent
  <2>2. revoked' \subseteq 1..issued
    BY <2>1
  <2>3. faults' \in [FaultKinds -> Nat]
    BY Spending DEF FaultKinds
  <2> QED
    BY <2>2, <2>3 DEF SessionsInv, TypeOK
<1>2. TablesInv'
  <2>1. presented[o] \in 1..issued /\ revoked' \in {revoked, revoked \cup {presented[o]}}
    BY DEF SessionsInv, RequestsInv, RequestsPresent
  <2>2. UNCHANGED <<issued, session, parent>>
    OBVIOUS
  <2>3. Descent' /\ OneLive'
    BY <2>1, <2>2 DEF SessionsInv, TablesInv, Descent, OneLive
  <2>4. RevokedIsReplaced'
    <3>1. \A u \in 1..issued : session[u] = session[presented[o]] => u \in revoked \cup {presented[o]}
                               \/ presented[o] \in revoked
      BY <2>1 DEF SessionsInv, TablesInv, OneLive
    <3> QED
      BY <2>1, <2>2, <3>1 DEF SessionsInv, TablesInv, RevokedIsReplaced
  <2> QED
    BY <2>1, <2>2, <2>3, <2>4 DEF SessionsInv, TablesInv
<1>3. HandlersWait'
  BY <1>0, Spending DEF SessionsInv, RequestsInv, FaultKinds, HandlersWait
<1>4. LoginsIssueOnce'
  BY <1>0, Spending DEF SessionsInv, RequestsInv, FaultKinds, LoginsIssueOnce
<1>5. RequestsPresent'
  BY <1>0, Spending DEF SessionsInv, RequestsInv, FaultKinds, RequestsPresent
<1>6. LocksHold'
  BY <1>0, Spending DEF SessionsInv, RequestsInv, FaultKinds, LocksHold
<1>7. FreshIsUnused'
  BY <1>0, Spending DEF SessionsInv, RequestsInv, FaultKinds, FreshIsUnused
<1>8. PresentersGoOn'
  BY <1>0, Spending DEF SessionsInv, RequestsInv, FaultKinds, PresentersGoOn
<1>9. RevokedWasPresented'
  BY <1>0, Spending DEF SessionsInv, RequestsInv, FaultKinds, RevokedWasPresented
<1>10. LogoutsRevoke'
  BY <1>0, Spending DEF SessionsInv, RequestsInv, FaultKinds, LogoutsRevoke
<1> QED
  BY <1>1, <1>2, <1>3, <1>4, <1>5, <1>6, <1>7, <1>8, <1>9, <1>10 DEF SessionsInv, RequestsInv

(* Time passes.                                                           *)
LEMMA ExpireAccessKeeps ==
    ASSUME SessionsInv, NEW t \in Tokens, ExpireAccess(t)
    PROVE  SessionsInv'
<1> USE Kinds, Types DEF ExpireAccess, gateway, clock, device
<1>0. (Unkilled' => Unkilled) /\ (NoFault' => NoFault)
  BY DEF Unkilled, NoFault
<1>1. TypeOK'
  BY DEF SessionsInv, TypeOK
<1>2. TablesInv'
  BY TablesFrame DEF SessionsInv, gateway
<1>3. HandlersWait'
  BY <1>0 DEF SessionsInv, RequestsInv, HandlersWait
<1>4. LoginsIssueOnce'
  BY <1>0 DEF SessionsInv, RequestsInv, LoginsIssueOnce
<1>5. RequestsPresent'
  BY <1>0 DEF SessionsInv, RequestsInv, RequestsPresent
<1>6. LocksHold'
  BY <1>0 DEF SessionsInv, RequestsInv, LocksHold
<1>7. FreshIsUnused'
  BY <1>0 DEF SessionsInv, RequestsInv, FreshIsUnused
<1>8. PresentersGoOn'
  BY <1>0 DEF SessionsInv, RequestsInv, PresentersGoOn
<1>9. RevokedWasPresented'
  BY <1>0 DEF SessionsInv, RequestsInv, RevokedWasPresented
<1>10. LogoutsRevoke'
  BY <1>0 DEF SessionsInv, RequestsInv, LogoutsRevoke
<1> QED
  BY <1>1, <1>2, <1>3, <1>4, <1>5, <1>6, <1>7, <1>8, <1>9, <1>10 DEF SessionsInv, RequestsInv

(* Time passes.                                                           *)
LEMMA ExpireRefreshKeeps ==
    ASSUME SessionsInv, NEW t \in Tokens, ExpireRefresh(t)
    PROVE  SessionsInv'
<1> USE Kinds, Types DEF ExpireRefresh, gateway, clock, device
<1>0. (Unkilled' => Unkilled) /\ (NoFault' => NoFault)
  BY DEF Unkilled, NoFault
<1>1. TypeOK'
  BY DEF SessionsInv, TypeOK
<1>2. TablesInv'
  BY TablesFrame DEF SessionsInv, gateway
<1>3. HandlersWait'
  BY <1>0 DEF SessionsInv, RequestsInv, HandlersWait
<1>4. LoginsIssueOnce'
  BY <1>0 DEF SessionsInv, RequestsInv, LoginsIssueOnce
<1>5. RequestsPresent'
  BY <1>0 DEF SessionsInv, RequestsInv, RequestsPresent
<1>6. LocksHold'
  BY <1>0 DEF SessionsInv, RequestsInv, LocksHold
<1>7. FreshIsUnused'
  BY <1>0 DEF SessionsInv, RequestsInv, FreshIsUnused
<1>8. PresentersGoOn'
  BY <1>0 DEF SessionsInv, RequestsInv, PresentersGoOn
<1>9. RevokedWasPresented'
  BY <1>0 DEF SessionsInv, RequestsInv, RevokedWasPresented
<1>10. LogoutsRevoke'
  BY <1>0 DEF SessionsInv, RequestsInv, LogoutsRevoke
<1> QED
  BY <1>1, <1>2, <1>3, <1>4, <1>5, <1>6, <1>7, <1>8, <1>9, <1>10 DEF SessionsInv, RequestsInv

(* The transactions of the gateway are rolled back.                       *)
LEMMA CrashKeeps ==
    ASSUME SessionsInv, Crash
    PROVE  SessionsInv'
<1> USE Kinds, Types DEF Crash, gateway, clock, device, AfterError
<1>0. (Unkilled' => Unkilled) /\ (NoFault' => NoFault)
  BY Spending DEF FaultKinds, Unkilled, NoFault
<1>1. TypeOK'
  BY Spending DEF SessionsInv, TypeOK, FaultKinds
<1>2. TablesInv'
  BY TablesFrame DEF SessionsInv, gateway
<1>3. HandlersWait'
  BY <1>0, Spending DEF SessionsInv, RequestsInv, FaultKinds, HandlersWait
<1>4. LoginsIssueOnce'
  BY <1>0, Spending DEF SessionsInv, RequestsInv, FaultKinds, LoginsIssueOnce
<1>5. RequestsPresent'
  BY <1>0, Spending DEF SessionsInv, RequestsInv, FaultKinds, RequestsPresent
<1>6. LocksHold'
  BY <1>0, Spending DEF SessionsInv, RequestsInv, FaultKinds, LocksHold
<1>7. FreshIsUnused'
  BY <1>0, Spending DEF SessionsInv, RequestsInv, FaultKinds, FreshIsUnused
<1>8. PresentersGoOn'
  BY <1>0, Spending DEF SessionsInv, RequestsInv, FaultKinds, PresentersGoOn
<1>9. RevokedWasPresented'
  BY <1>0, Spending DEF SessionsInv, RequestsInv, FaultKinds, RevokedWasPresented
<1>10. LogoutsRevoke'
  BY <1>0, Spending DEF SessionsInv, RequestsInv, FaultKinds, LogoutsRevoke
<1> QED
  BY <1>1, <1>2, <1>3, <1>4, <1>5, <1>6, <1>7, <1>8, <1>9, <1>10 DEF SessionsInv, RequestsInv

(* The application dies.                                                  *)
LEMMA KillKeeps ==
    ASSUME SessionsInv, Kill
    PROVE  SessionsInv'
<1> USE Kinds, Types DEF Kill, gateway, clock, device
<1>0. (Unkilled' => Unkilled) /\ (NoFault' => NoFault)
  BY Spending DEF FaultKinds, Unkilled, NoFault
<1>1. TypeOK'
  BY Spending DEF SessionsInv, TypeOK, FaultKinds
<1>2. TablesInv'
  BY TablesFrame DEF SessionsInv, gateway
<1>3. HandlersWait'
  BY <1>0, Spending DEF SessionsInv, RequestsInv, FaultKinds, HandlersWait
<1>4. LoginsIssueOnce'
  BY <1>0, Spending DEF SessionsInv, RequestsInv, FaultKinds, LoginsIssueOnce
<1>5. RequestsPresent'
  BY <1>0, Spending DEF SessionsInv, RequestsInv, FaultKinds, RequestsPresent
<1>6. LocksHold'
  BY <1>0, Spending DEF SessionsInv, RequestsInv, FaultKinds, LocksHold
<1>7. FreshIsUnused'
  BY <1>0, Spending DEF SessionsInv, RequestsInv, FaultKinds, FreshIsUnused
<1>8. PresentersGoOn'
  BY <1>0, Spending DEF SessionsInv, RequestsInv, FaultKinds, PresentersGoOn
<1>9. RevokedWasPresented'
  BY <1>0, Spending DEF SessionsInv, RequestsInv, FaultKinds, RevokedWasPresented
<1>10. LogoutsRevoke'
  BY <1>0, Spending DEF SessionsInv, RequestsInv, FaultKinds, LogoutsRevoke
<1> QED
  BY <1>1, <1>2, <1>3, <1>4, <1>5, <1>6, <1>7, <1>8, <1>9, <1>10 DEF SessionsInv, RequestsInv

-----------------------------------------------------------------------------
(* The invariant                                                           *)

LEMMA InitEstablishes == Init => SessionsInv
  BY Kinds, BoundsAssumption
     DEF Init, SessionsInv, TypeOK, TablesInv, RequestsInv, Tokens, NoToken, FaultKinds, NoFault, Unkilled,
         Descent, OneLive, RevokedIsReplaced, HandlersWait, LoginsIssueOnce, RequestsPresent, LocksHold,
         FreshIsUnused, PresentersGoOn, RevokedWasPresented, LogoutsRevoke

LEMMA StutterKeeps == SessionsInv /\ UNCHANGED vars => SessionsInv'
<1> SUFFICES ASSUME SessionsInv, UNCHANGED vars PROVE SessionsInv'
  OBVIOUS
<1> USE DEF vars, gateway, clock, device
<1>1. TypeOK' /\ TablesInv'
  BY TablesFrame DEF SessionsInv, TypeOK
<1>2. HandlersWait' /\ LoginsIssueOnce' /\ RequestsPresent' /\ LocksHold' /\ FreshIsUnused'
  BY DEF SessionsInv, RequestsInv, HandlersWait, LoginsIssueOnce, RequestsPresent, LocksHold, FreshIsUnused
<1>3. PresentersGoOn' /\ RevokedWasPresented' /\ LogoutsRevoke'
  BY DEF SessionsInv, RequestsInv, PresentersGoOn, RevokedWasPresented, LogoutsRevoke, Unkilled, NoFault
<1> QED
  BY <1>1, <1>2, <1>3 DEF SessionsInv, RequestsInv

LEMMA NextKeeps == SessionsInv /\ [Next]_vars => SessionsInv'
<1> SUFFICES ASSUME SessionsInv, [Next]_vars PROVE SessionsInv'
  OBVIOUS
<1>1. ASSUME NEW c \in Calls, StartCall(c) \/ Call(c) PROVE SessionsInv'
  BY <1>1, StartCallKeeps, AcceptedKeeps, AuthenticateKeeps, SelectKeeps, RotateKeeps, SaveKeeps, ClearKeeps
     DEF Call, Refresh
<1>2. ASSUME NEW l \in Logins, Submit(l) \/ Login(l) PROVE SessionsInv'
  BY <1>2, SubmitKeeps, CreateUserKeeps, CheckPasswordKeeps, IssueTokenKeeps, SaveLoginKeeps
     DEF Login, Register
<1>3. ASSUME NEW o \in Logouts, StartLogout(o) \/ Logout(o) PROVE SessionsInv'
  BY <1>3, StartLogoutKeeps, RevokeKeeps, ClearKeeps DEF Logout
<1>4. ASSUME NEW p \in Processes, GiveUp(p) \/ Leave(p) PROVE SessionsInv'
  BY <1>4, GiveUpKeeps, LeaveKeeps
<1>5. ASSUME NEW t \in Tokens, ExpireAccess(t) \/ ExpireRefresh(t) PROVE SessionsInv'
  BY <1>5, ExpireAccessKeeps, ExpireRefreshKeeps
<1>6. Crash \/ Kill => SessionsInv'
  BY CrashKeeps, KillKeeps
<1>7. UNCHANGED vars => SessionsInv'
  BY StutterKeeps
<1> QED
  BY <1>1, <1>2, <1>3, <1>4, <1>5, <1>6, <1>7 DEF Next

(* All parts of the invariant hold in every reachable state.               *)
THEOREM Invariance == Spec => []SessionsInv
  BY InitEstablishes, NextKeeps, PTL DEF Spec

-----------------------------------------------------------------------------
(* The properties of the model                                             *)

(* The variables keep their types: no request presents and no device stores *)
(* a token that was never issued.                                          *)
THEOREM TypeCorrect == Spec => []TypeOK
<1>1. SessionsInv => TypeOK
  BY DEF SessionsInv
<1> QED
  BY <1>1, Invariance, PTL

(* Rotation leaves a session at most one usable refresh token, whichever   *)
(* calls present the same token at once and whatever fails.                *)
THEOREM OneLivePerSessionHolds == Spec => []OneLivePerSession
<1>1. SessionsInv => OneLivePerSession
  <2> SUFFICES ASSUME SessionsInv, NEW l \in Logins
               PROVE  Cardinality({t \in Tokens : Live(t) /\ session[t] = l}) <= 1
    BY DEF OneLivePerSession
  <2> DEFINE live == {t \in Tokens : Live(t) /\ session[t] = l}
  <2>1. \A t, u \in live : t = u
    BY DEF SessionsInv, TablesInv, OneLive, Live
  <2>2. live = {} \/ \E t \in live : live = {t}
    BY <2>1
  <2>3. Cardinality(live) = 0 \/ Cardinality(live) = 1
    <3>1. \A t \in live : Cardinality({t}) = 1
      BY FS_Singleton
    <3> QED
      BY <2>2, <3>1, FS_EmptySet
  <2> QED
    BY <2>3
<1> QED
  BY <1>1, Invariance, PTL

(* While the application is not killed, a revoked token in the store was   *)
(* presented by a call or logout that is not done yet, or by a logout that *)
(* was cancelled because its screen was left.                              *)
THEOREM RevokedLeavesStoreHolds == Spec => []RevokedLeavesStore
<1>1. SessionsInv => RevokedLeavesStore
  <2> SUFFICES ASSUME SessionsInv, store \in revoked, ~(faults["kill"] > 0)
               PROVE  \/ \E p \in Calls \cup Logouts :
                             presented[p] = store /\ pc[p] \in {"wait", "save", "clear"}
                      \/ \E o \in Logouts : presented[o] = store /\ pc[o] = "left"
    BY DEF RevokedLeavesStore
  <2>1. Unkilled /\ store # NoToken
    BY Types, Kinds DEF Unkilled, FaultKinds
  <2> QED
    BY <2>1 DEF SessionsInv, RequestsInv, PresentersGoOn, RevokedWasPresented
<1> QED
  BY <1>1, Invariance, PTL

(* A logout that met no fault leaves its session without a usable token,   *)
(* or a refresh had replaced the token it presented.                       *)
THEOREM LogoutEndsSessionHolds == Spec => []LogoutEndsSession
<1>1. SessionsInv => LogoutEndsSession
  <2> SUFFICES ASSUME SessionsInv, NEW o \in Logouts, pc[o] = "done", NoFault
               PROVE  \/ \A t \in Tokens : session[t] = session[presented[o]] => ~Live(t)
                      \/ \E t \in Tokens : parent[t] = presented[o]
    BY DEF LogoutEndsSession
  <2>1. presented[o] \in revoked
    BY DEF SessionsInv, RequestsInv, LogoutsRevoke
  <2>2. \/ \E u \in 1..issued : parent[u] = presented[o]
        \/ \A u \in 1..issued : session[u] = session[presented[o]] => u \in revoked
    BY <2>1 DEF SessionsInv, TablesInv, RevokedIsReplaced
  <2> QED
    BY <2>2, Types DEF Live
<1> QED
  BY <1>1, Invariance, PTL

-----------------------------------------------------------------------------
(* The gateway implements TokenFamilies                                    *)

FamilyStep == [Families!Next]_(Families!families)

Opened == {m \in Logins : Descendants(m) # {}}
Usable == [l \in Opened |-> Descendants(l) \ revoked]

(* Steps that touch no token.                                              *)
LEMMA FamiliesStutter ==
    ASSUME UNCHANGED <<issued, revoked, session>>
    PROVE  FamilyStep
  BY DEF FamilyStep, Families!families, Descendants

(* One more token of login l, in place of all its others.                  *)
LEMMA HandingOut ==
    ASSUME SessionsInv, NEW l \in Logins, NEW replaced \in 0..issued, Issue(l, replaced),
           revoked' \subseteq 1..issued, revoked \subseteq revoked',
           Descendants(l) \subseteq revoked',
           \A t \in revoked' \ revoked : session[t] = l
    PROVE  \E t \in Tokens : Families!HandOut(l, t)
<1>1. /\ 1..issued' = 1..issued \cup {issued'} /\ issued' \notin 1..issued
      /\ \A t \in Tokens : t # issued' => session'[t] = session[t]
      /\ session'[issued'] = l
  BY Issuing
<1>2. issued' \in Tokens /\ 1..issued \subseteq Tokens
  BY Types DEF Issue, Tokens
<1>3. /\ Descendants(l)' = Descendants(l) \cup {issued'}
      /\ \A m \in Logins \ {l} : Descendants(m)' = Descendants(m)
  BY <1>1, <1>2 DEF Descendants
<1>4. Opened' = Opened \cup {l}
  BY <1>1, <1>3, Zenon DEF Opened
<1>5. Descendants(l)' \ revoked' = {issued'}
  BY <1>1, <1>3
<1>6. \A m \in Opened' \ {l} : Descendants(m)' \ revoked' = Descendants(m) \ revoked
  BY <1>3 DEF Opened, Descendants
<1>7. Usable' = [m \in DOMAIN Usable \cup {l} |-> IF m = l THEN {issued'} ELSE Usable[m]]
  <2>1. DOMAIN Usable = Opened /\ \A m \in Opened : Usable[m] = Descendants(m) \ revoked
    BY DEF Usable
  <2>2. Usable' = [m \in Opened' |-> Descendants(m)' \ revoked']
    BY DEF Usable
  <2> QED
    BY <1>4, <1>5, <1>6, <2>1, <2>2
<1> QED
  BY <1>1, <1>2, <1>7 DEF Families!HandOut, Usable, Opened

(* A rotation renews a family.                                             *)
LEMMA RotateRenews ==
    ASSUME SessionsInv, NEW c \in Calls, Rotate(c)
    PROVE  FamilyStep
<1>1. /\ presented[c] \in 1..issued /\ presented[c] \notin revoked /\ session[presented[c]] \in Logins
      /\ revoked \subseteq 1..issued
  BY Kinds, Types DEF Rotate, SessionsInv, RequestsInv, RequestsPresent, LocksHold, TablesInv, Descent
<1>2. PICK l \in Logins : l = session[presented[c]]
  BY <1>1
<1>3. CASE UNCHANGED <<issued, revoked, session>>
  BY <1>3, FamiliesStutter
<1>4. CASE revoked' = revoked \cup {presented[c]} /\ Issue(session[presented[c]], presented[c])
  <2>1. Issue(l, presented[c]) /\ presented[c] \in 0..issued
    BY <1>1, <1>2, <1>4
  <2>2. Descendants(l) \subseteq revoked \cup {presented[c]}
    BY <1>1, <1>2, Types DEF SessionsInv, TablesInv, OneLive, Descendants
  <2>3. /\ revoked' \subseteq 1..issued /\ revoked \subseteq revoked' /\ Descendants(l) \subseteq revoked'
        /\ \A t \in revoked' \ revoked : session[t] = l
    BY <1>1, <1>2, <1>4, <2>2
  <2>4. \E t \in Tokens : Families!HandOut(l, t)
    BY <2>1, <2>3, HandingOut
  <2>5. presented[c] \in Descendants(l) \ revoked
    BY <1>1, <1>2 DEF Descendants
  <2>6. Families!Renew(l)
    BY <2>4, <2>5 DEF Families!Renew
  <2> QED
    BY <2>6 DEF FamilyStep, Families!Next
<1> QED
  BY <1>3, <1>4 DEF Rotate, NoIssue

(* A login opens a family.                                                 *)
LEMMA IssueTokenOpens ==
    ASSUME SessionsInv, NEW l \in Logins, IssueToken(l)
    PROVE  FamilyStep
<1>1. CASE UNCHANGED <<issued, revoked, session>>
  BY <1>1, FamiliesStutter
<1>2. CASE Issue(l, NoToken) /\ UNCHANGED revoked
  <2>1. Descendants(l) = {}
    BY Kinds DEF IssueToken, SessionsInv, RequestsInv, LoginsIssueOnce, Descendants
  <2>2. \E t \in Tokens : Families!HandOut(l, t)
    BY <1>2, <2>1, HandingOut, Types DEF NoToken
  <2>3. Families!Open(l)
    BY <2>1, <2>2 DEF Families!Open
  <2> QED
    BY <2>3 DEF FamilyStep, Families!Next
<1> QED
  BY <1>1, <1>2 DEF IssueToken, NoIssue

(* The last usable token of login l is revoked.                            *)
LEMMA Ending ==
    ASSUME NEW l \in Logins, NEW t \in Descendants(l), Descendants(l) \ revoked = {t},
           revoked' = revoked \cup {t}, UNCHANGED <<issued, session>>
    PROVE  Families!End(l)
<1>1. \A m \in Logins : Descendants(m)' = Descendants(m)
  BY DEF Descendants
<1>2. l \in Opened /\ Opened' = Opened
  BY <1>1 DEF Opened
<1>3. Descendants(l) \ revoked' = {}
  OBVIOUS
<1>4. \A m \in Opened \ {l} : Descendants(m) \ revoked' = Descendants(m) \ revoked
  BY DEF Opened, Descendants
<1>5. Usable' = [m \in Opened |-> Descendants(m) \ revoked']
  <2>1. \A m \in Opened : Descendants(m)' = Descendants(m)
    BY <1>1 DEF Opened
  <2>2. Usable' = [m \in Opened |-> Descendants(m)' \ revoked']
    BY <1>2 DEF Usable
  <2> QED
    BY <2>1, <2>2
<1>6. Usable' = [Usable EXCEPT ![l] = {}]
  BY <1>2, <1>3, <1>4, <1>5 DEF Usable
<1> QED
  BY <1>2, <1>6 DEF Families!End, Usable, Opened

(* A logout ends a family, or revokes a token that was revoked before.     *)
LEMMA RevokeEnds ==
    ASSUME SessionsInv, NEW o \in Logouts, Revoke(o)
    PROVE  FamilyStep
<1>1. presented[o] \in 1..issued /\ session[presented[o]] \in Logins
  BY Kinds, Types DEF Revoke, SessionsInv, RequestsInv, RequestsPresent, TablesInv, Descent
<1>2. PICK l \in Logins : l = session[presented[o]]
  BY <1>1
<1>3. UNCHANGED <<issued, session>> /\ revoked' \in {revoked, revoked \cup {presented[o]}}
  BY DEF Revoke
<1>4. CASE revoked' = revoked
  BY <1>3, <1>4, FamiliesStutter
<1>5. CASE revoked' = revoked \cup {presented[o]} /\ presented[o] \notin revoked
  <2>1. presented[o] \in Descendants(l) /\ Descendants(l) \ revoked = {presented[o]}
    BY <1>1, <1>2, <1>5, Types DEF SessionsInv, TablesInv, OneLive, Descendants
  <2>2. Families!End(l)
    BY <1>3, <1>5, <2>1, Ending
  <2> QED
    BY <2>2 DEF FamilyStep, Families!Next
<1> QED
  BY <1>3, <1>4, <1>5

LEMMA NextIsFamilyStep == SessionsInv /\ [Next]_vars => FamilyStep
<1> SUFFICES ASSUME SessionsInv, [Next]_vars PROVE FamilyStep
  OBVIOUS
<1> USE DEF gateway
<1>1. ASSUME NEW c \in Calls, StartCall(c) \/ Call(c) PROVE FamilyStep
  BY <1>1, RotateRenews, FamiliesStutter DEF StartCall, Call, Refresh, Accepted, Authenticate, Select, Save, Clear
<1>2. ASSUME NEW l \in Logins, Submit(l) \/ Login(l) PROVE FamilyStep
  BY <1>2, IssueTokenOpens, FamiliesStutter DEF Submit, Login, Register, CreateUser, CheckPassword, SaveLogin
<1>3. ASSUME NEW o \in Logouts, StartLogout(o) \/ Logout(o) PROVE FamilyStep
  BY <1>3, RevokeEnds, FamiliesStutter DEF StartLogout, Logout, Clear
<1>4. ASSUME NEW p \in Processes, GiveUp(p) \/ Leave(p) PROVE FamilyStep
  BY <1>4, FamiliesStutter DEF GiveUp, Leave
<1>5. ASSUME NEW t \in Tokens, ExpireAccess(t) \/ ExpireRefresh(t) PROVE FamilyStep
  BY <1>5, FamiliesStutter DEF ExpireAccess, ExpireRefresh
<1>6. Crash \/ Kill \/ UNCHANGED vars => FamilyStep
  BY FamiliesStutter DEF Crash, Kill, vars
<1> QED
  BY <1>1, <1>2, <1>3, <1>4, <1>5, <1>6 DEF Next

(* The gateway keeps the promises of TokenFamilies, for any calls, logins  *)
(* and logouts at once and whatever fails: every step on the table of      *)
(* refresh tokens opens, renews or ends one family.                        *)
THEOREM TokenFamiliesAreImplemented == Spec => ImplementsTokenFamilies
<1>1. Init => Families!Init
  <2> SUFFICES ASSUME Init PROVE Families!Init
    OBVIOUS
  <2>1. 1..issued = {}
    BY DEF Init
  <2>2. \A m \in Logins : Descendants(m) = {}
    BY <2>1 DEF Descendants
  <2> QED
    BY <2>1, <2>2 DEF Families!Init
<1>2. SessionsInv /\ [Next]_vars => [Families!Next]_(Families!families)
  BY NextIsFamilyStep DEF FamilyStep
<1> QED
  BY <1>1, <1>2, Invariance, PTL DEF Spec, ImplementsTokenFamilies, Families!Spec

-----------------------------------------------------------------------------
(* How a session is lost, and why a call does not authenticate in circles  *)

(* Nothing has failed, no refresh token is too old, nobody has logged out. *)
Quiet == NoFault /\ expired = {} /\ \A o \in Logouts : pc[o] = "idle"

(* Then only rotations revoke, and only a rotation can have spoilt the     *)
(* token of a call that is about to clear the store.                       *)
OvertakenInv ==
    Quiet =>
        /\ \A t \in revoked : \E u \in 1..issued : parent[u] = t
        /\ \A t \in 1..issued : \E u \in 1..issued \ revoked : session[u] = session[t]
        /\ \A c \in Calls : pc[c] = "clear" => presented[c] \in revoked

(* The new token of a call is newer than the one it was refused with.      *)
RetriesInv == \A c \in Calls : pc[c] = "save" => fresh[c] > bearer[c]

(* A step that touches no token, takes no call to "clear" and brings none  *)
(* an answer.                                                              *)
LEMMA CallsFrame ==
    ASSUME SessionsInv, OvertakenInv, RetriesInv, Quiet' => Quiet,
           UNCHANGED <<issued, revoked, session, parent>>,
           \A c \in Calls : /\ Quiet' /\ pc'[c] = "clear" => pc[c] = "clear" /\ presented'[c] = presented[c]
                            /\ pc'[c] = "save" => pc[c] = "save" /\ fresh'[c] = fresh[c] /\ bearer'[c] = bearer[c]
    PROVE  OvertakenInv' /\ RetriesInv'
  BY DEF OvertakenInv, RetriesInv

LEMMA QuietEarlier == SessionsInv /\ [Next]_vars /\ Quiet' => Quiet
<1> SUFFICES ASSUME SessionsInv, [Next]_vars, Quiet' PROVE Quiet
  OBVIOUS
<1> USE Kinds, Types DEF Quiet, Goto
<1>1. ASSUME NEW kind \in FaultKinds, Spend(kind) PROVE FALSE
  BY <1>1, Spending
<1>2. ASSUME NEW c \in Calls, StartCall(c) \/ Call(c) PROVE Quiet
  BY <1>1, <1>2 DEF StartCall, Call, Refresh, Accepted, Authenticate, Select, Rotate, Save, Clear, Reply,
                    ReplyError, ReplyTokens, device, clock, FaultKinds, NoFault
<1>3. ASSUME NEW l \in Logins, Submit(l) \/ Login(l) PROVE Quiet
  BY <1>1, <1>3 DEF Submit, Login, Register, CreateUser, CheckPassword, IssueToken, SaveLogin, Reply,
                    ReplyError, ReplyTokens, device, clock, FaultKinds, NoFault
<1>4. ASSUME NEW o \in Logouts, StartLogout(o) \/ Logout(o) PROVE Quiet
  <2>1. pc[o] # "idle" => pc'[o] # "idle"
    BY <1>1, <1>4 DEF StartLogout, Logout, Revoke, Clear, Reply
  <2>2. handler[o] # "none" => pc[o] # "idle"
    BY DEF SessionsInv, RequestsInv, HandlersWait
  <2>3. pc'[o] # "idle"
    BY <1>4, <2>1, <2>2 DEF StartLogout, Logout, Revoke, Clear
  <2> QED
    BY <2>3
<1>5. ASSUME NEW p \in Processes, GiveUp(p) \/ Leave(p) PROVE Quiet
  BY <1>1, <1>5 DEF GiveUp, Leave, FaultKinds, NoFault, clock
<1>6. ASSUME NEW t \in Tokens, ExpireAccess(t) \/ ExpireRefresh(t) PROVE Quiet
  BY <1>6 DEF ExpireAccess, ExpireRefresh, NoFault
<1>7. Crash \/ Kill \/ UNCHANGED vars => Quiet
  BY <1>1 DEF Crash, Kill, vars, clock, FaultKinds, NoFault
<1> QED
  BY <1>2, <1>3, <1>4, <1>5, <1>6, <1>7 DEF Next

(* A refused rotation: its token has been revoked, or something failed.    *)
LEMMA SelectOvertaken ==
    ASSUME SessionsInv, OvertakenInv, RetriesInv, NEW c \in Calls, Select(c), Quiet' => Quiet
    PROVE  OvertakenInv' /\ RetriesInv'
<1> USE Kinds, Types
<1>1. /\ UNCHANGED <<issued, revoked, session, parent, presented, bearer, fresh, expired>>
      /\ \A d \in Calls \ {c} : pc'[d] = pc[d]
      /\ pc'[c] = pc[c] \/ pc'[c] = "clear"
  BY DEF Select, gateway, clock, Reply, ReplyError, AfterError, Goto
<1>2. presented[c] \in 1..issued
  BY DEF Select, SessionsInv, RequestsInv, RequestsPresent
<1>3. Quiet' /\ pc'[c] = "clear" /\ pc[c] # "clear" => presented[c] \in revoked
  <2>1. Quiet' => ~Spend("db")
    BY Spending DEF Quiet, FaultKinds
  <2>2. Quiet' => (Valid(presented[c]) <=> presented[c] \notin revoked)
    BY <1>1, <1>2 DEF Quiet, Valid, Live
  <2> QED
    BY <2>1, <2>2 DEF Select, Reply, ReplyError, AfterError, Goto
<1>4. RetriesInv'
  BY <1>1 DEF RetriesInv
<1>5. ASSUME Quiet' PROVE \A d \in Calls : pc'[d] = "clear" => presented'[d] \in revoked'
  BY <1>1, <1>3, <1>5 DEF OvertakenInv
<1>6. OvertakenInv'
  BY <1>1, <1>5 DEF OvertakenInv
<1> QED
  BY <1>4, <1>6

(* A token is replaced by one of the same session.                         *)
LEMMA RotateOvertaken ==
    ASSUME SessionsInv, OvertakenInv, RetriesInv, NEW c \in Calls, Rotate(c), Quiet' => Quiet
    PROVE  OvertakenInv' /\ RetriesInv'
<1> USE Kinds, Types
<1>1. presented[c] \in 1..issued /\ session[presented[c]] \in Logins /\ UNCHANGED <<presented, bearer>>
  BY DEF Rotate, SessionsInv, RequestsInv, RequestsPresent, TablesInv, Descent
<1>2. bearer[c] \in 0..issued /\ fresh \in [Calls \cup Logins -> 0..issued]
  OBVIOUS
<1>3. CASE Spend("db") /\ ReplyError(c)
  <2>1. ~Quiet'
    BY <1>3, Spending DEF Quiet, FaultKinds
  <2>2. RetriesInv'
    BY <1>1, <1>3 DEF ReplyError, Reply, AfterError, Goto, RetriesInv
  <2> QED
    BY <2>1, <2>2 DEF OvertakenInv
<1>4. CASE /\ revoked' = revoked \cup {presented[c]}
           /\ Issue(session[presented[c]], presented[c]) /\ ReplyTokens(c, issued + 1)
  <2>1. /\ issued' = issued + 1 /\ 1..issued' = 1..issued \cup {issued'} /\ issued' \notin 1..issued
        /\ \A t \in Tokens : t # issued' => session'[t] = session[t] /\ parent'[t] = parent[t]
        /\ session'[issued'] = session[presented[c]] /\ parent'[issued'] = presented[c]
    BY <1>1, <1>4, Issuing
  <2>2. /\ \A d \in Calls \ {c} : pc'[d] = pc[d] /\ fresh'[d] = fresh[d]
        /\ fresh'[c] = issued' /\ (pc'[c] = "clear" => pc[c] = "clear")
    BY <1>2, <1>4, <2>1 DEF ReplyTokens, Reply, Goto
  <2>3. RetriesInv'
    BY <1>1, <1>2, <2>1, <2>2 DEF RetriesInv
  <2>4. ASSUME Quiet'
        PROVE  /\ \A t \in revoked' : \E u \in 1..issued' : parent'[u] = t
               /\ \A t \in 1..issued' : \E u \in 1..issued' \ revoked' : session'[u] = session'[t]
               /\ \A d \in Calls : pc'[d] = "clear" => presented'[d] \in revoked'
    <3>1. /\ \A t \in revoked : \E u \in 1..issued : parent[u] = t
          /\ \A t \in 1..issued : \E u \in 1..issued \ revoked : session[u] = session[t]
          /\ \A d \in Calls : pc[d] = "clear" => presented[d] \in revoked
      BY <2>4 DEF OvertakenInv
    <3>2. ASSUME NEW t \in revoked' PROVE \E u \in 1..issued' : parent'[u] = t
      <4>1. CASE t = presented[c]
        BY <2>1, <4>1
      <4>2. CASE t # presented[c]
        <5>1. PICK u \in 1..issued : parent[u] = t
          BY <1>4, <3>1, <4>2
        <5>2. u \in Tokens /\ u # issued'
          BY <2>1, <5>1
        <5> QED
          BY <2>1, <5>1, <5>2
      <4> QED
        BY <4>1, <4>2
    <3>3. ASSUME NEW t \in 1..issued'
          PROVE  \E u \in 1..issued' \ revoked' : session'[u] = session'[t]
      <4>1. issued' \in 1..issued' \ revoked'
        BY <1>1, <1>4, <2>1
      <4>2. CASE session'[t] = session[presented[c]]
        BY <2>1, <4>1, <4>2
      <4>3. CASE session'[t] # session[presented[c]]
        <5>1. t \in 1..issued /\ t \in Tokens /\ t # issued'
          BY <2>1, <4>3
        <5>2. PICK u \in 1..issued \ revoked : session[u] = session[t]
          BY <3>1, <5>1
        <5>3. u \in Tokens /\ u # issued' /\ u # presented[c] /\ session'[u] = session'[t]
          BY <2>1, <4>3, <5>1, <5>2
        <5> QED
          BY <1>4, <2>1, <5>2, <5>3
      <4> QED
        BY <4>2, <4>3
    <3>4. \A d \in Calls : pc'[d] = "clear" => presented'[d] \in revoked'
      BY <1>1, <1>4, <2>2, <3>1
    <3> QED
      BY <3>2, <3>3, <3>4
  <2> QED
    BY <2>3, <2>4 DEF OvertakenInv
<1> QED
  BY <1>3, <1>4 DEF Rotate

(* A session begins.                                                       *)
LEMMA IssueTokenOvertaken ==
    ASSUME SessionsInv, OvertakenInv, RetriesInv, NEW l \in Logins, IssueToken(l), Quiet' => Quiet
    PROVE  OvertakenInv' /\ RetriesInv'
<1> USE Kinds, Types
<1>1. UNCHANGED <<revoked, presented, bearer>> /\ \A c \in Calls : pc'[c] = pc[c] /\ fresh'[c] = fresh[c]
  BY DEF IssueToken, ReplyTokens, ReplyError, Reply, AfterError, Goto
<1>2. RetriesInv'
  BY <1>1 DEF RetriesInv
<1>3. CASE Spend("db")
  BY <1>2, <1>3, Spending DEF OvertakenInv, Quiet, FaultKinds
<1>4. CASE Issue(l, NoToken)
  <2>1. /\ 1..issued' = 1..issued \cup {issued'} /\ issued' \notin 1..issued
        /\ \A t \in Tokens : t # issued' => session'[t] = session[t] /\ parent'[t] = parent[t]
    BY <1>4, Issuing DEF NoToken
  <2>2. ASSUME Quiet'
        PROVE  /\ \A t \in revoked' : \E u \in 1..issued' : parent'[u] = t
               /\ \A t \in 1..issued' : \E u \in 1..issued' \ revoked' : session'[u] = session'[t]
               /\ \A c \in Calls : pc'[c] = "clear" => presented'[c] \in revoked'
    <3>1. /\ \A t \in revoked : \E u \in 1..issued : parent[u] = t
          /\ \A t \in 1..issued : \E u \in 1..issued \ revoked : session[u] = session[t]
          /\ \A c \in Calls : pc[c] = "clear" => presented[c] \in revoked
      BY <2>2 DEF OvertakenInv
    <3>2. /\ revoked' = revoked /\ revoked \subseteq 1..issued
          /\ \A u \in 1..issued : u \in Tokens /\ u # issued'
      BY <1>1, <2>1 DEF SessionsInv, TablesInv
    <3>3. \A t \in revoked' : \E u \in 1..issued' : parent'[u] = t
      BY <2>1, <3>1, <3>2
    <3>4. ASSUME NEW t \in 1..issued'
          PROVE  \E u \in 1..issued' \ revoked' : session'[u] = session'[t]
      <4>1. CASE t = issued'
        BY <2>1, <3>2, <4>1
      <4>2. CASE t # issued'
        <5>1. t \in 1..issued
          BY <2>1, <4>2
        <5>2. PICK u \in 1..issued \ revoked : session[u] = session[t]
          BY <3>1, <5>1
        <5> QED
          BY <2>1, <3>2, <5>1, <5>2
      <4> QED
        BY <4>1, <4>2
    <3>5. \A c \in Calls : pc'[c] = "clear" => presented'[c] \in revoked'
      BY <1>1, <3>1
    <3> QED
      BY <3>3, <3>4, <3>5
  <2> QED
    BY <1>2, <2>2 DEF OvertakenInv
<1> QED
  BY <1>3, <1>4 DEF IssueToken

LEMMA NextOvertaken ==
    SessionsInv /\ OvertakenInv /\ RetriesInv /\ [Next]_vars => OvertakenInv' /\ RetriesInv'
<1> SUFFICES ASSUME SessionsInv, OvertakenInv, RetriesInv, [Next]_vars
             PROVE  OvertakenInv' /\ RetriesInv'
  OBVIOUS
<1>0. Quiet' => Quiet
  BY QuietEarlier
<1> USE Kinds, Types, CallsFrame, <1>0 DEF gateway, device, Goto
<1>1. ASSUME NEW c \in Calls, StartCall(c) \/ Accepted(c) \/ Authenticate(c) \/ Save(c)
      PROVE  OvertakenInv' /\ RetriesInv'
  BY <1>1 DEF StartCall, Accepted, Authenticate, Save
<1>2. ASSUME NEW p \in Calls \cup Logouts, Clear(p) PROVE OvertakenInv' /\ RetriesInv'
  BY <1>2 DEF Clear
<1>3. ASSUME NEW l \in Logins, Submit(l) \/ CreateUser(l) \/ CheckPassword(l) \/ SaveLogin(l)
      PROVE  OvertakenInv' /\ RetriesInv'
  BY <1>3 DEF Submit, CreateUser, CheckPassword, SaveLogin, Reply, ReplyError, AfterError
<1>4. ASSUME NEW o \in Logouts, StartLogout(o) PROVE OvertakenInv' /\ RetriesInv'
  BY <1>4 DEF StartLogout
<1>5. ASSUME NEW o \in Logouts, Revoke(o) PROVE OvertakenInv' /\ RetriesInv'
  <2>1. pc[o] # "idle"
    BY <1>5 DEF Revoke, SessionsInv, RequestsInv, HandlersWait
  <2>2. RetriesInv' /\ ~Quiet
    BY <1>5, <2>1 DEF Revoke, Reply, RetriesInv, Quiet
  <2> QED
    BY <2>2 DEF OvertakenInv
<1>6. ASSUME NEW p \in Processes, GiveUp(p) \/ Leave(p) PROVE OvertakenInv' /\ RetriesInv'
  BY <1>6, Spending DEF GiveUp, Leave, AfterError, Quiet, FaultKinds
<1>7. ASSUME NEW t \in Tokens, ExpireAccess(t) \/ ExpireRefresh(t) PROVE OvertakenInv' /\ RetriesInv'
  BY <1>7 DEF ExpireAccess, ExpireRefresh
<1>8. Crash \/ Kill => OvertakenInv' /\ RetriesInv'
  BY Spending DEF Crash, Kill, AfterError, Quiet, FaultKinds
<1>9. UNCHANGED vars => OvertakenInv' /\ RetriesInv'
  BY DEF vars
<1>10. ASSUME NEW c \in Calls, Refresh(c) PROVE OvertakenInv' /\ RetriesInv'
  BY <1>10, SelectOvertaken, RotateOvertaken DEF Refresh
<1>11. ASSUME NEW l \in Logins, IssueToken(l) PROVE OvertakenInv' /\ RetriesInv'
  BY <1>11, IssueTokenOvertaken
<1> HIDE CallsFrame, Kinds, Types
<1> QED
  BY <1>1, <1>2, <1>3, <1>4, <1>5, <1>6, <1>7, <1>8, <1>9, <1>10, <1>11 DEF Next, Call, Login, Register, Logout

LEMMA CallsInvariance == Spec => [](SessionsInv /\ OvertakenInv /\ RetriesInv)
<1>1. Init => OvertakenInv /\ RetriesInv
  BY Kinds DEF Init, OvertakenInv, RetriesInv
<1> QED
  BY <1>1, Invariance, NextOvertaken, PTL DEF Spec

(* The store is emptied only by a call that was overtaken: while nothing   *)
(* fails, no refresh token is too old and nobody logs out, the token such a*)
(* call presented had been replaced by another call's refresh, and its     *)
(* session still has a usable token, which the device throws away          *)
(* (TokenRefreshAuthenticator.authenticate).                               *)
LostOnlyWhenOvertaken ==
    [][Quiet /\ store # NoToken /\ store' = NoToken =>
          \E c \in Calls :
              /\ pc[c] = "clear" /\ pc'[c] = "done"
              /\ \E t \in Tokens : parent[t] = presented[c]
              /\ \E t \in Tokens : Live(t) /\ session[t] = session[presented[c]]]_vars

(* The way SessionContinues fails is the only one: a session that is lost  *)
(* without a fault, an old token or a logout was alive, and a concurrent   *)
(* refresh had replaced the token of the call that deleted it.             *)
THEOREM LostOnlyWhenOvertakenHolds == Spec => LostOnlyWhenOvertaken
<1>1. ASSUME SessionsInv, OvertakenInv, Next, Quiet, store # NoToken, store' = NoToken
      PROVE  \E c \in Calls :
                 /\ pc[c] = "clear" /\ pc'[c] = "done"
                 /\ \E t \in Tokens : parent[t] = presented[c]
                 /\ \E t \in Tokens : Live(t) /\ session[t] = session[presented[c]]
  <2> USE Kinds, Types DEF device
  <2>1. \E p \in Calls \cup Logouts : Clear(p)
    <3>1. ASSUME NEW p \in Calls \cup Logins, pc[p] = "save" PROVE fresh[p] # NoToken
      BY <1>1, <3>1 DEF SessionsInv, RequestsInv, FreshIsUnused
    <3> QED
      BY <1>1, <3>1 DEF Next, Call, Login, Logout, Refresh, Register, StartCall, Accepted, Authenticate, Select,
         Rotate, Save, Submit, CreateUser, CheckPassword, IssueToken, SaveLogin, StartLogout, Revoke, GiveUp, Leave,
         ExpireAccess, ExpireRefresh, Crash, Kill
  <2>2. PICK c \in Calls : Clear(c)
    BY <1>1, <2>1 DEF Quiet, Clear
  <2>3. pc[c] = "clear" /\ pc'[c] = "done" /\ presented[c] \in revoked
    BY <1>1, <2>2 DEF Clear, Goto, OvertakenInv
  <2>4. PICK t \in 1..issued : parent[t] = presented[c]
    BY <1>1, <2>3 DEF OvertakenInv
  <2>5. PICK u \in 1..issued \ revoked : session[u] = session[presented[c]]
    BY <1>1, <2>3 DEF OvertakenInv
  <2>6. t \in Tokens /\ u \in Tokens /\ Live(u)
    BY <1>1, <2>4, <2>5 DEF Live
  <2> QED
    BY <2>3, <2>4, <2>5, <2>6
<1> QED
  BY <1>1, CallsInvariance, PTL DEF Spec, LostOnlyWhenOvertaken

(* A call that the authenticator sends again carries an access token issued*)
(* after the one it was refused with (the retry takes the answer of its own*)
(* refresh, not whatever the store holds by then).                         *)
RetriesCarryNewTokens ==
    [][\A c \in Calls : pc[c] = "save" /\ pc'[c] = "sent" => bearer'[c] > bearer[c]]_vars

(* Tokens being finite in number, no call authenticates for ever: this is  *)
(* the measure behind RequestsEnd.                                         *)
THEOREM RetriesCarryNewTokensHolds == Spec => RetriesCarryNewTokens
<1>1. ASSUME SessionsInv, RetriesInv, Next, NEW c \in Calls, pc[c] = "save", pc'[c] = "sent"
      PROVE  bearer'[c] > bearer[c]
  <2> USE Kinds, Types DEF Goto
  <2>1. Save(c)
    BY <1>1 DEF Next, Call, Login, Logout, Refresh, Register, StartCall, Accepted, Authenticate, Select,
         Rotate, Save, Submit, CreateUser, CheckPassword, IssueToken, SaveLogin, StartLogout, Revoke, GiveUp, Leave,
         ExpireAccess, ExpireRefresh, Crash, Kill, Clear, Reply, ReplyError, ReplyTokens, AfterError
  <2> QED
    BY <1>1, <2>1 DEF Save, RetriesInv
<1>2. SessionsInv /\ RetriesInv /\ [Next]_vars =>
          [\A c \in Calls : pc[c] = "save" /\ pc'[c] = "sent" => bearer'[c] > bearer[c]]_vars
  BY <1>1
<1> QED
  BY <1>2, CallsInvariance, PTL DEF Spec, RetriesCarryNewTokens

=============================================================================
