---------------------------- MODULE Console_proofs ----------------------------
(***************************************************************************)
(* How long a session can outlive the rights it was given for, and why the *)
(* live feed never brings the process down: for any number of users,       *)
(* tenants and clients, any life of a token, any capacity.                 *)
(***************************************************************************)
EXTENDS MCConsole, TLAPS

-----------------------------------------------------------------------------
(* Accounts and sessions.                                                  *)

Place == Tenant \cup {None}

SeenTyped ==
    /\ now \in Nat
    /\ lastSeen \in [User -> [Place -> Int]]
    /\ \A u \in User, s \in Place : lastSeen[u][s] <= now

\* What the tables say now has been seen now.
SeenNow == \A u \in User, s \in Place : Standing(account, member, u, s) => lastSeen[u][s] = now

Accounts ==
    /\ DOMAIN account = User /\ DOMAIN login = User /\ DOMAIN token = User
    /\ DOMAIN request = User
    /\ \A u \in User : Exists(u) =>
          account[u] \in [verified : BOOLEAN, role : Assignable]

\* A login that has read an admin's account saw it no later than it began.
Logins ==
    \A u \in User : login[u] # None =>
        /\ login[u].at \in Nat /\ login[u].at <= now /\ now <= login[u].at + Delay
        /\ IsPlatformAdmin(login[u].role) => login[u].at <= lastSeen[u][None]

\* A token was issued for rights held at most one login before.
Tokens ==
    \A u \in User : token[u] # None =>
        /\ token[u].exp \in Int /\ token[u].home \in Tenant
        /\ IsPlatformAdmin(token[u].global) => token[u].exp <= lastSeen[u][None] + TokenTTL + Delay
        /\ \/ token[u].exp <= lastSeen[u][token[u].home] + TokenTTL + Delay
           \/ token[u].exp <= lastSeen[u][None] + TokenTTL + Delay

AccessInv == SeenTyped /\ SeenNow /\ Accounts /\ Logins /\ Tokens

LEMMA AdminIsPlatformAdmin == IsPlatformAdmin("admin")
  BY DEF IsPlatformAdmin, PlatformRank

LEMMA InitAccess == Init => AccessInv
<1> SUFFICES ASSUME Init PROVE AccessInv
  OBVIOUS
<1>1. SeenTyped
  <2>1. Bound \in Nat
    BY AccessAssumption DEF Bound
  <2> DEFINE low == -Bound
  <2>2. low \in Int /\ low <= 0
    BY <2>1
  <2>3. now = 0 /\ lastSeen = [u \in User |-> [s \in Place |-> low]]
    BY DEF Init, Place
  <2> HIDE DEF low
  <2> QED
    BY <2>2, <2>3 DEF SeenTyped
<1>2. SeenNow
  BY DEF Init, SeenNow, Standing, Place
<1>3. Accounts /\ Logins /\ Tokens
  BY DEF Init, Accounts, Exists, Logins, Tokens
<1> QED
  BY <1>1, <1>2, <1>3 DEF AccessInv

\* Where the tables change, what was seen only grows.
Grown == \A u \in User, s \in Place : lastSeen[u][s] <= lastSeen'[u][s]

LEMMA ObserveKeeps ==
    ASSUME SeenTyped, Observe, now' \in {now, now + 1}
    PROVE  SeenTyped' /\ SeenNow' /\ Grown
<1>1. now' \in Nat /\ now <= now'
  BY DEF SeenTyped
<1>2. \A u \in User, s \in Place :
        lastSeen'[u][s] = IF Standing(account', member', u, s) \/ Standing(account, member, u, s)
                          THEN now' ELSE lastSeen[u][s]
  BY DEF Observe, Place
<1>3. lastSeen' \in [User -> [Place -> Int]]
  BY <1>1 DEF Observe, SeenTyped, Place
<1>4. \A u \in User, s \in Place : lastSeen[u][s] \in Int /\ lastSeen[u][s] <= now
  BY DEF SeenTyped
<1>5. \A u \in User, s \in Place : lastSeen'[u][s] \in {now', lastSeen[u][s]}
  BY <1>2
<1>6. SeenTyped' /\ Grown
  BY <1>1, <1>3, <1>4, <1>5 DEF SeenTyped, Grown
<1>7. SeenNow'
  BY <1>2 DEF SeenNow
<1> QED
  BY <1>6, <1>7

\* Logins and tokens are not touched by what happens to the tables.
LEMMA SessionsStand ==
    ASSUME AccessInv, Grown, SeenTyped', UNCHANGED <<now, login, token>>
    PROVE  Logins' /\ Tokens'
<1>1. \A u \in User, s \in Place : /\ lastSeen[u][s] \in Int /\ lastSeen'[u][s] \in Int
                                  /\ lastSeen[u][s] <= lastSeen'[u][s]
  BY DEF AccessInv, SeenTyped, Grown
<1>2. None \in Place /\ \A t \in Tenant : t \in Place
  BY DEF Place
<1>3. TokenTTL \in Nat /\ Delay \in Nat
  BY AccessAssumption
<1>4. Logins'
  BY <1>1, <1>2 DEF AccessInv, Logins
<1>5. Tokens'
  BY <1>1, <1>2, <1>3 DEF AccessInv, Tokens
<1> QED
  BY <1>4, <1>5

\* A change of the tables that ends with Observe.
LEMMA TablesChange ==
    ASSUME AccessInv, Observe, Accounts', UNCHANGED <<now, login, token>>
    PROVE  AccessInv'
<1>1. SeenTyped' /\ SeenNow' /\ Grown
  BY ObserveKeeps DEF AccessInv
<1> QED
  BY <1>1, SessionsStand DEF AccessInv

\* A step that no table and no claim takes part in.
LEMMA NothingSeen ==
    ASSUME AccessInv, Accounts', UNCHANGED <<now, account, member, login, token, lastSeen>>
    PROVE  AccessInv'
  BY DEF AccessInv, SeenTyped, SeenNow, Logins, Tokens

LEMMA StepAccess == AccessInv /\ [Next]_vars => AccessInv'
<1> SUFFICES ASSUME AccessInv, [Next]_vars PROVE AccessInv'
  OBVIOUS
<1>0. SeenTyped /\ SeenNow /\ Accounts /\ Logins /\ Tokens
  BY DEF AccessInv
<1>1. CASE Tick
  <2>1. SeenTyped' /\ SeenNow' /\ Grown
    BY <1>0, <1>1, ObserveKeeps DEF Tick
  <2>2. \A u \in User : /\ lastSeen[u][None] \in Int /\ lastSeen'[u][None] \in Int
                        /\ lastSeen[u][None] <= lastSeen'[u][None]
    BY <1>0, <2>1 DEF SeenTyped, Grown, Place
  <2>3. now \in Nat /\ now' = now + 1 /\ UNCHANGED <<account, login, token, request>>
    BY <1>0, <1>1 DEF Tick, SeenTyped
  <2>4. Accounts'
    BY <1>0, <2>3 DEF Accounts, Exists
  <2>5. Logins'
    BY <1>0, <1>1, <2>2, <2>3, AccessAssumption DEF Tick, Logins
  <2>6. Tokens'
    <3>1. \A u \in User, s \in Place : /\ lastSeen[u][s] \in Int /\ lastSeen'[u][s] \in Int
                                      /\ lastSeen[u][s] <= lastSeen'[u][s]
      BY <1>0, <2>1 DEF SeenTyped, Grown
    <3> QED
      BY <1>0, <2>3, <3>1, AccessAssumption DEF Tokens, Place
  <2> QED
    BY <2>1, <2>4, <2>5, <2>6 DEF AccessInv
<1>2. CASE Promote
  <2>1. Accounts'
    BY <1>0, <1>2 DEF Promote, Accounts, Exists, Assignable
  <2> QED
    BY <1>2, <2>1, TablesChange DEF Promote
<1>3. ASSUME NEW u \in User, HandleRegister(u) PROVE AccessInv'
  <2>1. Accounts'
    BY <1>0, <1>3 DEF HandleRegister, Accounts, Exists, Assignable
  <2> QED
    BY <1>3, <2>1, TablesChange DEF HandleRegister
<1>4. ASSUME NEW u \in User, NEW role \in Assignable, NEW granted, HandleAdminCreateUser(u, role, granted)
      PROVE  AccessInv'
  <2>1. Accounts'
    BY <1>0, <1>4 DEF HandleAdminCreateUser, Accounts, Exists
  <2> QED
    BY <1>4, <2>1, TablesChange DEF HandleAdminCreateUser
<1>5. ASSUME NEW u \in User, HandleVerify(u) PROVE AccessInv'
  <2>1. account[u] \in [verified : BOOLEAN, role : Assignable] /\ DOMAIN account = User
    BY <1>0, <1>5 DEF HandleVerify, Accounts
  <2>2. /\ account' = [account EXCEPT ![u] = account'[u]]
        /\ account'[u] \in [verified : BOOLEAN, role : Assignable]
        /\ account'[u].role = account[u].role
    BY <2>1, <1>5 DEF HandleVerify
  <2>3. UNCHANGED <<now, member, login, token, request, lastSeen>>
    BY <1>5 DEF HandleVerify
  <2>4. Accounts'
    BY <1>0, <2>2, <2>3 DEF Accounts, Exists
  <2>5. \A v \in User : \A s : Standing(account', member', v, s) => Standing(account, member, v, s)
    BY <1>0, <1>5, <2>2, <2>3 DEF Standing, Accounts, HandleVerify, Exists
  <2> QED
    BY <1>0, <2>3, <2>4, <2>5 DEF AccessInv, SeenTyped, SeenNow, Logins, Tokens
<1>6. ASSUME NEW u \in User, HandleDeleteUser(u) PROVE AccessInv'
  <2>1. Accounts'
    BY <1>0, <1>6 DEF HandleDeleteUser, Accounts, Exists
  <2> QED
    BY <1>6, <2>1, TablesChange DEF HandleDeleteUser
<1>7. ASSUME NEW u \in User, NEW t \in Tenant,
             \/ HandleCreateTenant(u, t) \/ HandleGrantUserAccess(u, t)
             \/ HandleRevokeUserAccess(u, t)
      PROVE  AccessInv'
  <2>1. Observe /\ UNCHANGED <<now, account, login, token, request>>
    BY <1>7
       DEF HandleCreateTenant, HandleGrantUserAccess, HandleRevokeUserAccess
  <2>2. Accounts'
    BY <1>0, <2>1 DEF Accounts, Exists
  <2> QED
    BY <2>1, <2>2, TablesChange
<1>8. ASSUME NEW u \in User, StartLogin(u) PROVE AccessInv'
  <2>1. UNCHANGED <<now, account, member, token, request, lastSeen>>
    BY <1>8 DEF StartLogin
  <2>2. IsPlatformAdmin(account[u].role) => lastSeen[u][None] = now
    BY <1>0, <1>8 DEF StartLogin, SeenNow, Standing, Place, Exists
  <2>3. Logins'
    BY <1>0, <1>8, <2>1, <2>2, AccessAssumption DEF StartLogin, Logins, SeenTyped, Accounts
  <2> QED
    BY <1>0, <1>8, <2>1, <2>3
       DEF StartLogin, AccessInv, SeenTyped, SeenNow, Accounts, Exists, Tokens
<1>9. ASSUME NEW u \in User, NEW t \in Tenant, NEW role, NEW stored,
             IssueToken(u, t) \/ BootstrapTenant(u, t, stored)
      PROVE  AccessInv'
  <2>1. /\ UNCHANGED <<now, account, member, request, lastSeen>>
        /\ login[u] # None /\ login' = [login EXCEPT ![u] = None]
    BY <1>9 DEF IssueToken, BootstrapTenant
  <2>2. PICK r : token' = [token EXCEPT ![u] = Claims(u, t, r)]
    BY <1>9 DEF IssueToken, BootstrapTenant
  <2>3. member[u][t] # None \/ login[u].role = "admin"
    BY <1>9 DEF IssueToken, BootstrapTenant
  <2>4. /\ now \in Nat /\ TokenTTL \in Nat /\ Delay \in Nat
        /\ lastSeen[u][t] \in Int /\ lastSeen[u][None] \in Int
    BY <1>0, AccessAssumption DEF SeenTyped, Place
  <2>5. IsPlatformAdmin(login[u].role) => now <= lastSeen[u][None] + Delay
    BY <1>0, <2>1, <2>4 DEF Logins
  <2>6. now <= lastSeen[u][t] \/ now <= lastSeen[u][None] + Delay
    <3>1. CASE member[u][t] # None
      BY <1>0, <2>4, <3>1, AccessAssumption DEF SeenNow, Standing, Place
    <3>2. CASE login[u].role = "admin"
      BY <2>5, <3>2, AdminIsPlatformAdmin
    <3> QED
      BY <2>3, <3>1, <3>2
  <2>7. /\ token'[u].exp = now + TokenTTL /\ token'[u].home = t
        /\ token'[u].global = login[u].role
        /\ \A v \in User \ {u} : token'[v] = token[v]
    BY <1>0, <2>2 DEF Claims, Accounts
  <2>8. Tokens'
    <3> SUFFICES ASSUME NEW v \in User, token'[v] # None
                 PROVE  /\ token'[v].exp \in Int /\ token'[v].home \in Tenant
                        /\ IsPlatformAdmin(token'[v].global) =>
                              token'[v].exp <= lastSeen[v][None] + TokenTTL + Delay
                        /\ \/ token'[v].exp <= lastSeen[v][token'[v].home] + TokenTTL + Delay
                           \/ token'[v].exp <= lastSeen[v][None] + TokenTTL + Delay
      BY <2>1 DEF Tokens
    <3>1. CASE v = u
      BY <2>4, <2>5, <2>6, <2>7, <3>1
    <3>2. CASE v # u
      BY <1>0, <2>7, <3>2 DEF Tokens
    <3> QED
      BY <3>1, <3>2
  <2>9. Accounts' /\ Logins'
    BY <1>0, <2>1, <2>2 DEF Accounts, Exists, Logins
  <2> QED
    BY <1>0, <2>1, <2>8, <2>9 DEF AccessInv, SeenTyped, SeenNow
<1>10. ASSUME NEW u \in User, RefuseLogin(u) PROVE AccessInv'
  <2>1. UNCHANGED <<now, account, member, token, request, lastSeen>>
    BY <1>10 DEF RefuseLogin
  <2>2. Accounts' /\ Logins'
    BY <1>0, <1>10, <2>1 DEF RefuseLogin, Accounts, Exists, Logins
  <2> QED
    BY <1>0, <2>1, <2>2 DEF AccessInv, SeenTyped, SeenNow, Tokens
<1>11. ASSUME NEW u \in User, NEW t, NEW gate, Serve(u, t, gate) \/ ServeAll(u) \/ Answer(u)
       PROVE  AccessInv'
  <2>1. /\ UNCHANGED <<now, account, member, login, token, lastSeen>>
        /\ \E ts : request' = [request EXCEPT ![u] = ts]
    BY <1>11 DEF Serve, ServeAll, Answer
  <2>2. Accounts'
    BY <1>0, <2>1 DEF Accounts, Exists
  <2> QED
    BY <2>1, <2>2, NothingSeen
<1>12. CASE UNCHANGED vars
  <2>1. Accounts'
    BY <1>0, <1>12 DEF vars, Accounts, Exists
  <2> QED
    BY <1>12, <2>1, NothingSeen DEF vars
<1>13. ASSUME NEW t \in Tenant, HandleDeleteTenant(t) PROVE AccessInv'
  <2>1. Observe /\ UNCHANGED <<now, account, login, token, request>>
    BY <1>13 DEF HandleDeleteTenant
  <2>2. Accounts'
    BY <1>0, <2>1 DEF Accounts, Exists
  <2> QED
    BY <2>1, <2>2, TablesChange
<1> QED
  BY <1>1, <1>2, <1>3, <1>4, <1>5, <1>6, <1>7, <1>8, <1>9, <1>10, <1>11, <1>12, <1>13 DEF Next

\* Only a request that is served enters a tenant.
LEMMA OnlyServes ==
    ASSUME Accounts, [Next]_vars, NEW u \in User, NEW t, t \in request'[u] \ request[u]
    PROVE  \/ ServeAll(u) /\ t \in tenants
           \/ \E gate : Serve(u, t, gate)
<1>1. ~UNCHANGED request
  OBVIOUS
<1>2. PICK v \in User : ServeAll(v) \/ Answer(v) \/ \E s \in Tenant, gate \in Gate : Serve(v, s, gate)
  BY <1>1
     DEF Next, vars, Tick, Promote, HandleRegister, HandleVerify, HandleDeleteUser,
         HandleAdminCreateUser, StartLogin, RefuseLogin, HandleCreateTenant,
         HandleGrantUserAccess, HandleRevokeUserAccess, IssueToken, BootstrapTenant,
         HandleDeleteTenant
<1>3. v = u
  BY <1>2 DEF ServeAll, Answer, Serve, Accounts
<1> QED
  BY <1>2, <1>3 DEF ServeAll, Answer, Serve, Accounts

\* A request enters no tenant whose rights its user lost longer ago than a
\* token and a login last: no deletion, revocation or change of role is
\* escaped, whichever way it falls between the steps of a login.
THEOREM RevocationsReach == Spec => RevocationReaches
<1> DEFINE Fresh ==
        \A u \in User, t \in Tenant : t \in request'[u] \ request[u] =>
            \E s \in {t, None} : now - lastSeen[u][s] < Bound
<1>1. AccessInv /\ [Next]_vars => Fresh
  <2> SUFFICES ASSUME AccessInv, [Next]_vars, NEW u \in User, NEW t \in Tenant,
                      t \in request'[u] \ request[u]
               PROVE  \E s \in {t, None} : now - lastSeen[u][s] < Bound
    OBVIOUS
  <2>1. /\ now \in Nat /\ TokenTTL \in Nat /\ Delay \in Nat /\ Bound = TokenTTL + Delay + 1
        /\ \A s \in Place : lastSeen[u][s] \in Int
        /\ t \in Place /\ None \in Place
    BY AccessAssumption DEF AccessInv, SeenTyped, Bound, Place
  <2>2. SeenNow /\ Tokens /\ Accounts
    BY DEF AccessInv
  <2>3. \/ ServeAll(u) /\ t \in tenants
        \/ \E gate : Serve(u, t, gate)
    BY <2>2, OnlyServes
  <2>4. /\ token[u] # None /\ now <= token[u].exp
        /\ IsPlatformAdmin(token[u].global) \/ t = token[u].home \/ member[u][t] # None
    BY <2>3 DEF ServeAll, Serve, Alive, InScope
  <2>5. CASE IsPlatformAdmin(token[u].global)
    BY <2>1, <2>2, <2>4, <2>5 DEF Tokens
  <2>6. CASE t = token[u].home
    BY <2>1, <2>2, <2>4, <2>6 DEF Tokens
  <2>7. CASE member[u][t] # None
    <3>1. lastSeen[u][t] = now
      BY <2>1, <2>2, <2>7, AccessAssumption DEF SeenNow, Standing
    <3> QED
      BY <2>1, <3>1
  <2> QED
    BY <2>4, <2>5, <2>6, <2>7
<1>2. AccessInv /\ [Next]_vars => [Fresh]_vars
  BY <1>1
<1> QED
  BY <1>2, InitAccess, StepAccess, PTL DEF Spec, RevocationReaches

-----------------------------------------------------------------------------
(* The live feed.                                                          *)

Phase == {"new", "registering", "serving"}
Once == {"no", "asking", "handed", "done"}

HubTyped ==
    /\ phase \in [Client -> Phase]
    /\ tenantIDs \in [Client -> SUBSET Tenant]
    /\ listed \in [Tenant -> SUBSET Client]
    /\ round \subseteq Client
    /\ once \in [Client -> Once]
    /\ DOMAIN closed = Client /\ DOMAIN told = Client

\* A client that Run has not taken has nothing to do with the others; one on
\* a list asked for it.
Newcomers ==
    /\ \A c \in Client : phase[c] # "serving" => once[c] = "no" /\ ~told[c] /\ ~closed[c]
    /\ \A t \in Tenant : \A c \in listed[t] : phase[c] = "serving" /\ t \in tenantIDs[c]
    /\ \A c \in round : phase[c] = "serving"

\* Run closes a channel once: it belongs to a client that handed itself over.
ClosedOnce ==
    /\ \A c \in Client : closed[c] => once[c] \in {"handed", "done"}
    /\ run.at = "register" =>
          run.client \in Client /\ phase[run.client] = "serving" /\ ~closed[run.client]
    /\ run.at = "unregister" =>
          run.client \in Client /\ once[run.client] \in {"handed", "done"} /\ ~closed[run.client]

\* A closed channel is out of reach of the broadcasts.
ClosedUnlisted ==
    /\ \A t \in Tenant : \A c \in listed[t] : ~closed[c]
    /\ \A c \in round : ~closed[c]

HubInv == HubTyped /\ Newcomers /\ ClosedOnce /\ ClosedUnlisted /\ NoPanic

LEMMA InitHub == Feed!Init => HubInv
  BY DEF Feed!Init, Feed!Idle, HubInv, HubTyped, Phase, Once, Newcomers, ClosedOnce, ClosedUnlisted, NoPanic,
         Feed!NoPanic

LEMMA StepHub == HubInv /\ [Feed!Next]_(Feed!vars) => HubInv'
<1> SUFFICES ASSUME HubInv, [Feed!Next]_(Feed!vars) PROVE HubInv'
  OBVIOUS
<1> USE DEF HubInv, HubTyped, Phase, Once, Newcomers, ClosedOnce, ClosedUnlisted,
            NoPanic, Feed!NoPanic, Feed!link
<1>1. ASSUME NEW c \in Client, NEW ids \in SUBSET Tenant \ {{}}, Feed!ServeWS(c, ids) PROVE HubInv'
  BY <1>1 DEF Feed!ServeWS
<1>2. ASSUME NEW c \in Client, Feed!TakeRegister(c) PROVE HubInv'
  BY <1>2 DEF Feed!TakeRegister, Feed!Idle
<1>3. CASE Feed!Register
  BY <1>3 DEF Feed!Register, Feed!Idle
<1>4. ASSUME NEW c \in Client, Feed!ForceDisconnect(c) PROVE HubInv'
  BY <1>4 DEF Feed!ForceDisconnect
<1>5. ASSUME NEW c \in Client, Feed!TakeUnregister(c) PROVE HubInv'
  BY <1>5 DEF Feed!TakeUnregister, Feed!Idle
<1>6. CASE Feed!Unregister
  BY <1>6 DEF Feed!Unregister, Feed!Idle
<1>7. ASSUME NEW c \in Client, Feed!CloseConn(c) PROVE HubInv'
  BY <1>7 DEF Feed!CloseConn
<1>8. CASE Feed!TakeDone \/ Feed!Stop
  BY <1>8 DEF Feed!TakeDone, Feed!Stop
<1>9. ASSUME NEW t \in Tenant, Feed!Publish(t) PROVE HubInv'
  BY <1>9 DEF Feed!Publish
<1>10. ASSUME NEW c \in Client, Feed!Visit(c) PROVE HubInv'
  BY <1>10 DEF Feed!Visit
<1>11. CASE Feed!LoseFeed \/ Feed!Resubscribe
  BY <1>11 DEF Feed!LoseFeed, Feed!Resubscribe
<1>12. ASSUME NEW c \in Client, Feed!EndRead(c) \/ Feed!Write(c) \/ Feed!EndWrite(c) PROVE HubInv'
  BY <1>12 DEF Feed!EndRead, Feed!Write, Feed!EndWrite
<1>13. CASE UNCHANGED Feed!vars
  BY <1>13 DEF Feed!vars
<1> QED
  BY <1>1, <1>2, <1>3, <1>4, <1>5, <1>6, <1>7, <1>8, <1>9, <1>10, <1>11, <1>12, <1>13
     DEF Feed!Next, Feed!Take, Feed!Locked

\* Neither a broadcast nor a second unregistration meets a closed channel,
\* whoever finds at the same time that a client has to go.
THEOREM NobodyPanics == Feed!Spec => []NoPanic
<1>1. HubInv => NoPanic
  BY DEF HubInv
<1> QED
  BY <1>1, InitHub, StepHub, PTL DEF Feed!Spec

\* The same of the two parts in one process, as the console runs them.
THEOREM ConsoleHolds == ConsoleSpec => RevocationReaches /\ []NoPanic
<1>1. ConsoleInit => Init /\ Feed!Init
  BY DEF ConsoleInit
<1>2. [ConsoleNext]_consoleVars => [Next]_vars /\ [Feed!Next]_(Feed!vars)
  BY DEF ConsoleNext, consoleVars, feedVars, Feed!vars, Feed!link
<1>3. ConsoleSpec => Spec
  BY <1>1, <1>2, PTL DEF ConsoleSpec, Spec
<1>4. HubInv => NoPanic
  BY DEF HubInv
<1> QED
  BY <1>1, <1>2, <1>3, <1>4, RevocationsReach, InitHub, StepHub, PTL DEF ConsoleSpec
===============================================================================
