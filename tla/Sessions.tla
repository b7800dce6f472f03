------------------------------- MODULE Sessions -------------------------------
(***************************************************************************)
(* Sessions of the control plane: a user logs in, looks into the tenants   *)
(* that the role opens, confirms the password and does something that      *)
(* needs that, from several tabs of one browser, which share the cookie.   *)
(* What a token says is not looked up again; meanwhile roles are changed,  *)
(* users deactivated and tenants closed in the database.                   *)
(*                                                                         *)
(* The client sends each token where the control plane sends it: the       *)
(* session's as the bearer, the confirmation's in its own header.          *)
(***************************************************************************)
EXTENDS Naturals

CONSTANTS
    Users, SessionTenants,
    Home,               \* [Users -> SessionTenants]
    Roles,
    CrossTenantRoles,   \* admin and support
    DangerRoles,        \* roles the handler of the dangerous action lists
    Tabs,
    NoToken,
    SessionLife, ConfirmLife,   \* twelve hours and five minutes, in ticks
    MaxTime, MaxReforms         \* bounds on the clock and on changes to accounts

ASSUME HomeAssumption == Home \in [Users -> SessionTenants] /\ CrossTenantRoles \subseteq Roles
ASSUME LifeAssumption == SessionLife \in Nat /\ ConfirmLife \in Nat

VARIABLES
    time,
    account,    \* [Users -> role and whether active]
    open,       \* tenants whose status is active
    cookie,     \* the session token of the browser
    page,       \* [Tabs -> whether the last page shown was the login page]
    op,         \* [Tabs -> the call a tab is in, or NoToken]
    lastHeld,   \* [Users -> [Roles -> the last time the user had the role, from 1]]
    confirmed,  \* [Users -> [SessionTenants -> the last time the password was checked]]
    reforms

authVars == <<time, account, open, cookie, page, op, lastHeld, confirmed, reforms>>

Claims(u, t, role, until) == [user |-> u, tenant |-> t, role |-> role, until |-> until]

AuthInit ==
    /\ time = 1
    /\ account \in [Users -> [role : Roles, active : {TRUE}]]
    /\ open = SessionTenants
    /\ cookie = NoToken
    /\ page = [b \in Tabs |-> "login"] /\ op = [b \in Tabs |-> NoToken]
    /\ lastHeld = [u \in Users |-> [r \in Roles |-> IF account[u].role = r THEN 1 ELSE 0]]
    /\ confirmed = [u \in Users |-> [t \in SessionTenants |-> 0]]
    /\ reforms = 0

-----------------------------------------------------------------------------
World == <<time, account, open, lastHeld, reforms>>

(* JwtAuthGuard: nothing but the signature and the date.                   *)
SignedIn == cookie # NoToken /\ time < cookie.until

Calls(b, c) == op' = [op EXCEPT ![b] = c]

(* login reads the account and checks the password, then signs.            *)
Login(b, u) ==
    /\ op[b] = NoToken /\ page[b] = "login"
    /\ account[u].active /\ Home[u] \in open
    /\ Calls(b, [kind |-> "session", claims |-> Claims(u, Home[u], account[u].role, 0)])
    /\ UNCHANGED <<World, cookie, page, confirmed>>

(* A plausible slip: the role is taken over from the old token.            *)
OldRole(u) == cookie.role

(* The role the account has now.                                           *)
RoleOf(u) == account[u].role

SwitchTenant(b, t) ==
    /\ op[b] = NoToken /\ page[b] = "in"
    /\ SignedIn /\ cookie.role \in CrossTenantRoles
    /\ account[cookie.user].active /\ t \in open /\ t # cookie.tenant
    /\ Calls(b, [kind |-> "session", claims |-> Claims(cookie.user, t, RoleOf(cookie.user), 0)])
    /\ UNCHANGED <<World, cookie, page, confirmed>>

(* The token of a login or a switch arrives, and the page is shown again.  *)
SetCookie(b) ==
    /\ op[b] # NoToken /\ op[b].kind = "session"
    /\ cookie' = [op[b].claims EXCEPT !.until = time + SessionLife]
    /\ page' = [page EXCEPT ![b] = "in"]
    /\ Calls(b, NoToken)
    /\ UNCHANGED <<World, confirmed>>

(* getServerSession: a page is rendered only for an active user of an open *)
(* tenant.                                                                 *)
CurrentUser ==
    SignedIn /\ account[cookie.user].active /\ cookie.tenant \in open

ShowPage(b) ==
    /\ op[b] = NoToken
    /\ page' = [page EXCEPT ![b] = IF CurrentUser THEN "in" ELSE "login"]
    /\ UNCHANGED <<World, cookie, op, confirmed>>

(* reauthenticate: the password is asked for, and a token for the session's*)
(* user and tenant comes back.                                             *)
Reauthenticate(b) ==
    /\ op[b] = NoToken /\ page[b] = "in"
    /\ SignedIn /\ account[cookie.user].active
    /\ Calls(b, [kind |-> "confirm", claims |-> [cookie EXCEPT !.until = time + ConfirmLife]])
    /\ confirmed' = [confirmed EXCEPT ![cookie.user][cookie.tenant] = time]
    /\ UNCHANGED <<World, cookie, page>>

(* A plausible slip: only the user is compared.                            *)
MatchesUser(token) == token.user = cookie.user

Matches(token) == token.user = cookie.user /\ token.tenant = cookie.tenant

(* RolesGuard and ReauthGuard before the handler of the action.            *)
Act(b) ==
    /\ op[b] # NoToken /\ op[b].kind = "confirm"
    /\ SignedIn /\ cookie.role \in DangerRoles
    /\ time < op[b].claims.until /\ Matches(op[b].claims)
    /\ Calls(b, NoToken)
    /\ UNCHANGED <<World, cookie, page, confirmed>>

(* 403 is a message; 401 makes SessionWatch delete the cookie, whosever it *)
(* is by then, and show the login page.                                    *)
RefuseRole(b) ==
    /\ op[b] # NoToken /\ op[b].kind = "confirm"
    /\ SignedIn /\ cookie.role \notin DangerRoles
    /\ Calls(b, NoToken)
    /\ UNCHANGED <<World, cookie, page, confirmed>>

Refuse(b) ==
    /\ op[b] # NoToken /\ op[b].kind = "confirm"
    /\ SignedIn => /\ cookie.role \in DangerRoles
                   /\ time >= op[b].claims.until \/ ~Matches(op[b].claims)
    /\ cookie' = NoToken
    /\ page' = [page EXCEPT ![b] = "login"]
    /\ Calls(b, NoToken)
    /\ UNCHANGED <<World, confirmed>>

Logout(b) ==
    /\ op[b] = NoToken /\ page[b] = "in"
    /\ cookie' = NoToken
    /\ page' = [page EXCEPT ![b] = "login"]
    /\ UNCHANGED <<World, op, confirmed>>

TabStep(b) ==
    \/ \E u \in Users : Login(b, u)
    \/ \E t \in SessionTenants : SwitchTenant(b, t)
    \/ SetCookie(b) \/ ShowPage(b) \/ Reauthenticate(b)
    \/ Act(b) \/ RefuseRole(b) \/ Refuse(b) \/ Logout(b)

-----------------------------------------------------------------------------
(* Nothing in the API changes an account or a tenant: this is SQL.         *)
ChangeAccount ==
    /\ reforms < MaxReforms
    /\ \E u \in Users, role \in Roles, active \in BOOLEAN :
          /\ account' = [account EXCEPT ![u] = [role |-> role, active |-> active]]
          /\ lastHeld' = IF active THEN [lastHeld EXCEPT ![u][role] = time] ELSE lastHeld
    /\ reforms' = reforms + 1
    /\ UNCHANGED <<time, open, cookie, page, op, confirmed>>

CloseTenant ==
    /\ reforms < MaxReforms
    /\ \E t \in open : open' = open \ {t}
    /\ reforms' = reforms + 1
    /\ UNCHANGED <<time, account, cookie, page, op, lastHeld, confirmed>>

(* Calls that return a session are short against the time it is valid.     *)
Tick ==
    /\ time < MaxTime
    /\ \A b \in Tabs : op[b] # NoToken => op[b].kind = "confirm"
    /\ time' = time + 1
    /\ lastHeld' = [u \in Users |-> [r \in Roles |->
          IF account[u].active /\ account[u].role = r THEN time + 1 ELSE lastHeld[u][r]]]
    /\ UNCHANGED <<account, open, cookie, page, op, confirmed, reforms>>

AuthNext ==
    \/ \E b \in Tabs : TabStep(b)
    \/ ChangeAccount \/ CloseTenant \/ Tick

AuthSpec == AuthInit /\ [][AuthNext]_authVars

-----------------------------------------------------------------------------
(* A role that was taken away, or a user who was deactivated, opens        *)
(* nothing any more once twelve hours have passed, although nobody looks   *)
(* the account up: a switch of tenants starts the twelve hours again, but  *)
(* with the role the account has by then.                                  *)
RightsNotOlderThanSession ==
    SignedIn => lastHeld[cookie.user][cookie.role] + SessionLife >= cookie.until

(* What needs the password was confirmed by the same user for the same     *)
(* tenant less than five minutes ago, whatever other tabs did to the       *)
(* session between the confirmation and the action.                        *)
DangerIsConfirmed ==
    [][ \A b \in Tabs : Act(b) =>
          /\ confirmed[cookie.user][cookie.tenant] > 0
          /\ time < confirmed[cookie.user][cookie.tenant] + ConfirmLife ]_authVars
=============================================================================
