-------------------------------- MODULE Access --------------------------------
(***************************************************************************)
(* Accounts, tenants and grants (api/auth_handler.go,                      *)
(* api/access_handler.go, api/tenant_handler.go), the token a login issues,*)
(* and what a request with that token is served for (middleware/auth.go,   *)
(* middleware/tenant_scope.go).                                            *)
(*                                                                         *)
(* A token is a copy of the account and of its home grant that nobody can  *)
(* take back before it expires.  Requests with different tokens have       *)
(* nothing in common, so an account is given one token at a time here.     *)
(***************************************************************************)
EXTENDS Integers, FiniteSets

CONSTANTS
    User, Tenant,
    InitialAdmin,   \* users whose e-mail is in INITIAL_ADMIN_EMAILS
    SMTP,           \* verification e-mails can be sent
    TokenTTL,       \* the 24 hours of HandleLogin
    Delay,          \* bound on the time a login takes
    MaxTime,        \* bound on the clock
    None, Gone

ASSUME AccessAssumption ==
    /\ InitialAdmin \subseteq User /\ SMTP \in BOOLEAN
    /\ TokenTTL \in Nat \ {0} /\ Delay \in Nat /\ MaxTime \in Nat
    /\ None \notin Tenant /\ None # Gone

\* tenantRoleRank and platformRoleRank of model/user.go: a role has a rank in
\* each dimension, zero where it carries nothing.
TenantRank(role) ==
    CASE role \in {"read_only", "viewer"}    -> 10
      [] role = "analyst_l1"                 -> 20
      [] role \in {"analyst_l2", "operator"} -> 30
      [] role = "analyst_l3"                 -> 40
      [] role \in {"tenant_admin", "admin"}  -> 50
      [] OTHER                               -> 0

PlatformRank(role) ==
    CASE role = "mssp_analyst"                -> 60
      [] role \in {"platform_admin", "admin"} -> 100
      [] OTHER                                -> 0

IsPlatformAdmin(role) == PlatformRank(role) >= 100

\* Of the roles an administrator may assign, one of each kind.
Assignable == {"viewer", "operator", "admin"}

\* RequireRole and RequireGlobalRole: what a route asks of the token.
Gate == {[tenant |-> 0, platform |-> 0], [tenant |-> 50, platform |-> 0],
         [tenant |-> 0, platform |-> 100]}

VARIABLES
    now,
    account,    \* users: verified and global_role, None before, Gone after it exists
    tenants,    \* rows of tenants, all active
    dropped,    \* ids of deleted tenants, which are not used again
    member,     \* tenant_users: the role of a user in a tenant, or None
    login,      \* a login under way: global_role read, and when
    token,      \* the claims each user holds, or None
    request,    \* the tenants a request of the user is being served for
    lastSeen    \* when the user last was a member of a tenant; under None, an admin

vars == <<now, account, tenants, dropped, member, login, token, request, lastSeen>>

Bound == TokenTTL + Delay + 1

Exists(u) == account[u] \notin {None, Gone}

\* What the tables say: a member of the tenant; under None, a platform admin.
Standing(acc, mem, u, t) ==
    IF t = None THEN acc[u] \notin {None, Gone} /\ IsPlatformAdmin(acc[u].role)
                ELSE mem[u][t] # None

\* Every action that changes a table ends with this.
Observe ==
    lastSeen' = [u \in User |-> [t \in Tenant \cup {None} |->
        IF Standing(account', member', u, t) \/ Standing(account, member, u, t)
        THEN now' ELSE lastSeen[u][t]]]

Init ==
    /\ now = 0
    /\ account = [u \in User |-> None]
    /\ tenants \in SUBSET Tenant
    /\ dropped = {}
    /\ member = [u \in User |-> [t \in Tenant |-> None]]
    /\ login = [u \in User |-> None]
    /\ token = [u \in User |-> None]
    /\ request = [u \in User |-> {}]
    /\ lastSeen = [u \in User |-> [t \in Tenant \cup {None} |-> -Bound]]

Tick ==
    /\ now < MaxTime
    /\ \A u \in User : login[u] # None => now < login[u].at + Delay
    /\ now' = now + 1
    /\ UNCHANGED <<account, tenants, dropped, member, login, token, request>>
    /\ Observe

\* JWTAuth: the signature was checked; an expired token is refused.
Alive(u) == token[u] # None /\ now <= token[u].exp

\* RequireRole and RequireGlobalRole look at the claims.
Passes(u, gate) ==
    /\ TenantRank(token[u].role) >= gate.tenant
    /\ PlatformRank(token[u].global) >= gate.platform

-----------------------------------------------------------------------------
(* Accounts.                                                               *)

\* HandleRegister: an operator without a tenant, or an initial administrator.
HandleRegister(u) ==
    /\ account[u] = None
    /\ account' = [account EXCEPT ![u] =
          [verified |-> u \in InitialAdmin \/ ~SMTP,
           role |-> IF u \in InitialAdmin THEN "admin" ELSE "operator"]]
    /\ UNCHANGED <<now, tenants, dropped, member, login, token, request>>
    /\ Observe

\* HandleAdminCreateUser: the account and its grants in one transaction; the
\* role goes into global_role as well.
HandleAdminCreateUser(u, role, granted) ==
    /\ account[u] = None /\ granted \subseteq tenants
    /\ account' = [account EXCEPT ![u] = [verified |-> ~SMTP, role |-> role]]
    /\ member' = [member EXCEPT ![u] = [t \in Tenant |-> IF t \in granted THEN role ELSE None]]
    /\ UNCHANGED <<now, tenants, dropped, login, token, request>>
    /\ Observe

\* HandleVerify, with the token of the e-mail.
HandleVerify(u) ==
    /\ Exists(u) /\ ~account[u].verified
    /\ account' = [account EXCEPT ![u].verified = TRUE]
    /\ UNCHANGED <<now, tenants, dropped, member, login, token, request, lastSeen>>

\* At boot the initial administrators are verified and promoted.
Promote ==
    /\ \E u \in InitialAdmin : Exists(u) /\ account[u] # [verified |-> TRUE, role |-> "admin"]
    /\ account' = [u \in User |-> IF u \in InitialAdmin /\ Exists(u)
                                  THEN [verified |-> TRUE, role |-> "admin"] ELSE account[u]]
    /\ UNCHANGED <<now, tenants, dropped, member, login, token, request>>
    /\ Observe

\* HandleDeleteUser: grants and account in one transaction; tokens live on.
HandleDeleteUser(u) ==
    /\ Exists(u)
    /\ account' = [account EXCEPT ![u] = Gone]
    /\ member' = [member EXCEPT ![u] = [t \in Tenant |-> None]]
    /\ UNCHANGED <<now, tenants, dropped, login, token, request>>
    /\ Observe

-----------------------------------------------------------------------------
(* Tenants and grants.                                                     *)

\* HandleCreateTenant: the creator, a platform admin by the token, becomes its
\* admin, in one transaction; the grant of a creator who has been deleted fails,
\* and so does the tenant.
HandleCreateTenant(u, t) ==
    /\ Alive(u) /\ Passes(u, [tenant |-> 0, platform |-> 100])
    /\ t \notin tenants \cup dropped /\ Exists(u)
    /\ tenants' = tenants \cup {t}
    /\ member' = [member EXCEPT ![u][t] = "admin"]
    /\ UNCHANGED <<now, account, dropped, login, token, request>>
    /\ Observe

\* HandleDeleteTenant: the row and, by the foreign key, its grants.
HandleDeleteTenant(t) ==
    /\ t \in tenants
    /\ tenants' = tenants \ {t}
    /\ dropped' = dropped \cup {t}
    /\ member' = [u \in User |-> [member[u] EXCEPT ![t] = None]]
    /\ UNCHANGED <<now, account, login, token, request>>
    /\ Observe

\* HandleGrantUserAccess: always operator, also over a higher role.  A user or
\* a tenant deleted after the two checks fails the foreign key.
HandleGrantUserAccess(u, t) ==
    /\ Exists(u) /\ t \in tenants
    /\ member' = [member EXCEPT ![u][t] = "operator"]
    /\ UNCHANGED <<now, account, tenants, dropped, login, token, request>>
    /\ Observe

\* HandleRevokeUserAccess: of somebody else.
HandleRevokeUserAccess(u, t) ==
    /\ member[u][t] # None
    /\ member' = [member EXCEPT ![u][t] = None]
    /\ UNCHANGED <<now, account, tenants, dropped, login, token, request>>
    /\ Observe

-----------------------------------------------------------------------------
(* Sessions.                                                               *)

\* HandleLogin reads the account, and then compares the password.
StartLogin(u) ==
    /\ login[u] = None /\ Exists(u) /\ account[u].verified
    /\ login' = [login EXCEPT ![u] = [role |-> account[u].role, at |-> now]]
    /\ UNCHANGED <<now, account, tenants, dropped, member, token, request, lastSeen>>

Claims(u, t, role) ==
    [home |-> t, role |-> role, global |-> login[u].role, exp |-> now + TokenTTL]

\* ... then looks for a home tenant: one it is a member of, and for an admin
\* without any, or whose lookup has failed, one that exists; and issues the token.
IssueToken(u, t) ==
    /\ login[u] # None /\ t \in tenants
    /\ member[u][t] # None \/ login[u].role = "admin"
    /\ token' = [token EXCEPT ![u] =
          Claims(u, t, IF login[u].role = "admin" THEN "admin" ELSE member[u][t])]
    /\ login' = [login EXCEPT ![u] = None]
    /\ UNCHANGED <<now, account, tenants, dropped, member, request, lastSeen>>

\* When that finds no active tenant either, or fails too, an admin's login creates
\* one, under a slug of its own; whether the row was stored is not looked at.
BootstrapTenant(u, t, stored) ==
    /\ login[u] # None /\ login[u].role = "admin"
    /\ t \notin tenants \cup dropped
    /\ tenants' = IF stored THEN tenants \cup {t} ELSE tenants
    /\ dropped' = IF stored THEN dropped ELSE dropped \cup {t}
    /\ token' = [token EXCEPT ![u] = Claims(u, t, "admin")]
    /\ login' = [login EXCEPT ![u] = None]
    /\ UNCHANGED <<now, account, member, request, lastSeen>>

\* The wrong password, or nobody's tenant: no token.
RefuseLogin(u) ==
    /\ login[u] # None
    /\ login' = [login EXCEPT ![u] = None]
    /\ UNCHANGED <<now, account, tenants, dropped, member, token, request, lastSeen>>

\* Fault: a tenant that was asked for before is not looked up again.
FaultRemembered(u, t) ==
    t = token[u].home \/ t \in tenants

\* ResolveTenantScope: the home tenant by the token alone; another one by the
\* tables, as far as the token is not a platform admin's.
InScope(u, t) ==
    \/ t = token[u].home
    \/ IsPlatformAdmin(token[u].global) /\ t \in tenants
    \/ ~IsPlatformAdmin(token[u].global) /\ member[u][t] # None

Serve(u, t, gate) ==
    /\ request[u] = {} /\ Alive(u) /\ Passes(u, gate) /\ InScope(u, t)
    /\ request' = [request EXCEPT ![u] = {t}]
    /\ UNCHANGED <<now, account, tenants, dropped, member, login, token, lastSeen>>

\* AllTenantsScope: every tenant at once, by the token alone.
ServeAll(u) ==
    /\ request[u] = {} /\ Alive(u) /\ IsPlatformAdmin(token[u].global)
    /\ request' = [request EXCEPT ![u] = tenants]
    /\ UNCHANGED <<now, account, tenants, dropped, member, login, token, lastSeen>>

Answer(u) ==
    /\ request[u] # {}
    /\ request' = [request EXCEPT ![u] = {}]
    /\ UNCHANGED <<now, account, tenants, dropped, member, login, token, lastSeen>>

Next ==
    \/ Tick \/ Promote
    \/ \E u \in User :
        \/ HandleRegister(u) \/ HandleVerify(u) \/ HandleDeleteUser(u)
        \/ \E role \in Assignable, granted \in SUBSET Tenant : HandleAdminCreateUser(u, role, granted)
        \/ StartLogin(u) \/ RefuseLogin(u) \/ ServeAll(u) \/ Answer(u)
        \/ \E t \in Tenant :
            \/ HandleCreateTenant(u, t) \/ HandleGrantUserAccess(u, t)
            \/ HandleRevokeUserAccess(u, t)
            \/ IssueToken(u, t)
            \/ \E stored \in BOOLEAN : BootstrapTenant(u, t, stored)
            \/ \E gate \in Gate : Serve(u, t, gate)
    \/ \E t \in Tenant : HandleDeleteTenant(t)

Spec == Init /\ [][Next]_vars

-----------------------------------------------------------------------------
(* Properties.                                                             *)

\* A request is served for a tenant only if its user was a member of it, or a
\* platform admin, less than the life of a token and one login ago: deleting the
\* user, revoking the grant, deleting the tenant, or changing a role while a
\* login is under way, leaves no session that lasts longer (HandleDeleteUser,
\* HandleRevokeUserAccess, HandleDeleteTenant against HandleLogin, JWTAuth and
\* ResolveTenantScope).
RevocationReaches ==
    [][\A u \in User, t \in Tenant :
          t \in request'[u] \ request[u] =>
              \E s \in {t, None} : now - lastSeen[u][s] < Bound]_vars
=============================================================================
