---------------------------- MODULE ControlPlane ----------------------------
(* The browser side of the control plane: tabs that share one session cookie *)
(* (src/control-plane/app/api, proxy.ts, lib/backend.ts), each with the      *)
(* session it was rendered with, its query cache (lib/hooks.ts,              *)
(* app/providers.tsx) and its SessionWatch.  What the backend answers to a   *)
(* query is abstracted to the tenant whose data it holds.                    *)
(*                                                                           *)
(* External: router.replace to a page outside the layout unmounts the        *)
(* providers, and one that proxy.ts redirects back into it keeps them; the   *)
(* browser attaches to a request the cookie it has when the request leaves.  *)
EXTENDS Naturals, Sequences

CONSTANTS
    BrowserTabs,
    PlaneTenants,
    NoData,
    MaxSessions        \* bound: session tokens ever issued

ASSUME PlaneAssumption == MaxSessions \in Nat

NoSession == 0

NoFlight == MaxSessions + 1

VARIABLES
    issued,            \* the tokens the backend signed: tenant and whether still valid
    theCookie,         \* the sms_cp_token cookie, a number into issued
    tab,               \* each tab: its page, the session shown, and what it awaits
    cache,             \* each tab's query cache: key -> whose data
    flight,            \* each tab's queries under way: key -> the cookie they left with
    crossed            \* a query left the tab with another tenant's token (history)

planeVars == <<issued, theCookie, tab, cache, flight, crossed>>

(* leaving: "asked" while SessionWatch awaits logoutRequest, "going" before  *)
(* router.replace('/login'), "back" when that was redirected to the          *)
(* dashboard; redirecting is its redirectingRef.                             *)
AtLogin == [page |-> "login", tenant |-> NoData, switching |-> FALSE,
            leaving |-> "no", redirecting |-> FALSE]

InApp(t) == tab[t].page = "app"

Empty == [k \in PlaneTenants |-> NoData]

Quiet == [k \in PlaneTenants |-> NoFlight]

PlaneInit ==
    /\ issued = <<>>
    /\ theCookie = NoSession
    /\ tab = [t \in BrowserTabs |-> AtLogin]
    /\ cache = [t \in BrowserTabs |-> Empty]
    /\ flight = [t \in BrowserTabs |-> Quiet]
    /\ crossed = [t \in BrowserTabs |-> FALSE]

ValidSession(s) == s \in DOMAIN issued /\ issued[s].live

TenantOfCookie == issued[theCookie].tenant

KeyOfFirst(t) == CHOOSE k \in PlaneTenants : TRUE

(* useTenantKey: the query keys carry the tenant of the session shown. *)
Key(t) == tab[t].tenant

(* The layout is mounted anew, or left: new providers, with an empty cache.  *)
Remount(t, to) ==
    /\ tab' = [tab EXCEPT ![t] = to]
    /\ cache' = [cache EXCEPT ![t] = Empty]
    /\ flight' = [flight EXCEPT ![t] = Quiet]
    /\ crossed' = [crossed EXCEPT ![t] = FALSE]

Issue(k) ==
    /\ Len(issued) < MaxSessions
    /\ issued' = Append(issued, [tenant |-> k, live |-> TRUE])
    /\ theCookie' = Len(issued) + 1

(* proxy.ts deletes a cookie the backend refuses. *)
CookieChecked == theCookie' = IF ValidSession(theCookie) THEN theCookie ELSE NoSession

(* A page is loaded (also after loginRequest): proxy.ts and requireSession.  *)
Visit(t) ==
    /\ CookieChecked
    /\ Remount(t, IF ValidSession(theCookie) THEN [AtLogin EXCEPT !.page = "app", !.tenant = TenantOfCookie]
                  ELSE AtLogin)
    /\ UNCHANGED issued

(* The backend is not reached: the cookie stays and requireSession redirects.*)
VisitUnreached(t) ==
    /\ InApp(t)
    /\ Remount(t, AtLogin)
    /\ UNCHANGED <<issued, theCookie>>

(* LoginForm and POST /api/auth/login; the visit of the dashboard follows.   *)
LogIn(t) ==
    /\ ~InApp(t)
    /\ \E k \in PlaneTenants : Issue(k)
    /\ UNCHANGED <<tab, cache, flight, crossed>>

(* A query of the page, or its refetch interval: it leaves with the cookie.  *)
Poll(t) ==
    /\ InApp(t) /\ flight[t][Key(t)] = NoFlight
    /\ flight' = [flight EXCEPT ![t][Key(t)] = theCookie]
    /\ crossed' = [crossed EXCEPT ![t] = @ \/ (ValidSession(theCookie) /\ TenantOfCookie # tab[t].tenant)]
    /\ UNCHANGED <<issued, theCookie, tab, cache>>

(* A 401 raises AUTH_REQUIRED_EVENT; SessionWatch takes the first one only.  *)
AuthRequired(t) ==
    tab' = [tab EXCEPT ![t] = IF @.redirecting THEN @
                              ELSE [@ EXCEPT !.redirecting = TRUE, !.leaving = "asked"]]

(* The answer to a query arrives. *)
QueryAnswer(t, k) ==
    /\ flight[t][k] # NoFlight
    /\ flight' = [flight EXCEPT ![t][k] = NoFlight]
    /\ IF ValidSession(flight[t][k])
       THEN cache' = [cache EXCEPT ![t][k] = issued[flight[t][k]].tenant] /\ UNCHANGED tab
       ELSE AuthRequired(t) /\ UNCHANGED cache
    /\ UNCHANGED <<issued, theCookie, crossed>>

StayWhenLogoutFails(t) ==
    /\ tab[t].leaving = "asked"
    /\ \/ theCookie' = NoSession /\ tab' = [tab EXCEPT ![t].leaving = "going"]
       \/ UNCHANGED theCookie /\ tab' = [tab EXCEPT ![t].leaving = "no"]
    /\ UNCHANGED <<issued, cache, flight, crossed>>

(* SessionWatch's logoutRequest deletes the cookie, or fails: it goes on.    *)
CleanUp(t) ==
    /\ tab[t].leaving = "asked"
    /\ theCookie' \in {NoSession, theCookie}
    /\ tab' = [tab EXCEPT ![t].leaving = "going"]
    /\ UNCHANGED <<issued, cache, flight, crossed>>

(* router.replace('/login'): while the cookie is valid proxy.ts sends the    *)
(* tab back to the dashboard and the layout stays, redirectingRef with it;   *)
(* SessionWatch's router.refresh() then shows the cookie's session.          *)
Go(t) ==
    /\ tab[t].leaving = "going"
    /\ CookieChecked
    /\ IF ValidSession(theCookie)
       THEN /\ tab' = [tab EXCEPT ![t] =
                           IF @.redirecting THEN [@ EXCEPT !.leaving = "back", !.tenant = TenantOfCookie]
                                            ELSE [@ EXCEPT !.leaving = "no"]]
            /\ UNCHANGED <<cache, flight, crossed>>
       ELSE Remount(t, AtLogin)
    /\ UNCHANGED issued

(* AppShell, Sign out; a failing logoutRequest leaves everything.            *)
SignOut(t) ==
    /\ InApp(t) /\ tab[t].leaving \in {"no", "back"}
    /\ theCookie' = NoSession
    /\ tab' = [tab EXCEPT ![t].leaving = "going"]
    /\ UNCHANGED <<issued, cache, flight, crossed>>

(* AppShell, the tenant switcher: POST /api/auth/switch-tenant answers with  *)
(* a token of the other tenant; the old token stays valid.                   *)
SwitchTo(t) ==
    /\ InApp(t) /\ ValidSession(theCookie)
    /\ \E k \in PlaneTenants : k # tab[t].tenant /\ Issue(k)
    /\ tab' = [tab EXCEPT ![t].switching = TRUE]
    /\ UNCHANGED <<cache, flight, crossed>>

(* ... then router.replace('/dashboard') and router.refresh(): the layout    *)
(* shows the cookie's session and keeps its query cache.                     *)
Refresh(t) ==
    /\ tab[t].switching
    /\ CookieChecked
    /\ IF ValidSession(theCookie)
       THEN /\ tab' = [tab EXCEPT ![t].switching = FALSE, ![t].tenant = TenantOfCookie]
            /\ UNCHANGED <<cache, flight, crossed>>
       ELSE Remount(t, AtLogin)
    /\ UNCHANGED issued

(* A token's twelve hours are over. *)
Lapse(s) ==
    /\ ValidSession(s)
    /\ issued' = [issued EXCEPT ![s].live = FALSE]
    /\ UNCHANGED <<theCookie, tab, cache, flight, crossed>>

Leave(t) == CleanUp(t) \/ Go(t)

Hear(t) == \E k \in PlaneTenants : QueryAnswer(t, k)

PlaneNext ==
    \/ \E t \in BrowserTabs : \/ Poll(t) \/ Hear(t) \/ Leave(t) \/ Refresh(t)
                              \/ Visit(t) \/ VisitUnreached(t) \/ LogIn(t)
                              \/ SignOut(t) \/ SwitchTo(t)
    \/ \E s \in DOMAIN issued : Lapse(s)

(* A visible tab's notifications are polled and its requests are answered.   *)
PlaneFairness ==
    \A t \in BrowserTabs : WF_planeVars(Poll(t)) /\ WF_planeVars(Hear(t)) /\ WF_planeVars(Leave(t))

PlaneSpec == PlaneInit /\ [][PlaneNext]_planeVars /\ PlaneFairness
-----------------------------------------------------------------------------
(* What a tab shows under a tenant's name is that tenant's data, whatever is *)
(* answered late and however often the tenant is switched, unless a query    *)
(* left it while the cookie already was another tenant's (useTenantKey, the  *)
(* tenant in every query key).                                               *)
ShowsItsTenant ==
    \A t \in BrowserTabs : InApp(t) /\ ~crossed[t] => cache[t][Key(t)] \in {NoData, tab[t].tenant}

(* SessionWatch's redirect was sent back to the dashboard: redirectingRef is *)
(* still set, and no further 401 is taken.                                   *)
Deaf(t) == tab[t].leaving = "back"

(* Once no valid session is left for good, every tab ends at the login page, *)
(* even when the clean-up fails, unless it had been sent back by proxy.ts    *)
(* (SessionWatch.handleAuthRequired).                                        *)
SignedOutTabsLeave ==
    <>[](~ValidSession(theCookie)) => <>[](\A t \in BrowserTabs : ~InApp(t) \/ Deaf(t))
=============================================================================
