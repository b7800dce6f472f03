--------------------------- MODULE ConsoleProofs ----------------------------
(***************************************************************************)
(* Theorems about the operators' side: the tabs of the control plane,      *)
(* saved views, the send page, and the scripts that prepare the database.  *)
(***************************************************************************)
EXTENDS ControlPlane, SavedViews, SendPage, Deployment, SequenceTheorems, TLAPS

-----------------------------------------------------------------------------
(* The browser's tabs: a tab that has sent no query with another tenant's    *)
(* cookie holds, under every key, only the data of the tenant the key names, *)
(* and waits only for such data.  That is inductive, as a token keeps its    *)
(* tenant and one that has lapsed stays lapsed.                              *)

Tokens == [tenant : PlaneTenants, live : BOOLEAN]

TabStates == [ page : {"app", "login"}, tenant : PlaneTenants \cup {NoData}, switching : BOOLEAN,
               leaving : {"no", "asked", "going", "back"}, redirecting : BOOLEAN ]

TokensOK ==
    /\ issued \in Seq(Tokens) /\ Len(issued) <= MaxSessions
    /\ theCookie \in 0..Len(issued)

TabsOK ==
    /\ tab \in [BrowserTabs -> TabStates]
    /\ \A t \in BrowserTabs : InApp(t) => tab[t].tenant \in PlaneTenants

Unmixed(t) ==
    \A k \in PlaneTenants :
        /\ cache[t][k] \in {NoData, k}
        /\ ValidSession(flight[t][k]) => issued[flight[t][k]].tenant = k

DataOK ==
    /\ cache \in [BrowserTabs -> [PlaneTenants -> PlaneTenants \cup {NoData}]]
    /\ flight \in [BrowserTabs -> [PlaneTenants -> (0..Len(issued)) \cup {NoFlight}]]
    /\ crossed \in [BrowserTabs -> BOOLEAN]
    /\ \A t \in BrowserTabs : ~crossed[t] => Unmixed(t)

PlaneIInv == TokensOK /\ TabsOK /\ DataOK

(* Tokens are added and lapse; nothing else happens to them.                 *)
Later ==
    /\ issued' \in Seq(Tokens) /\ Len(issued) <= Len(issued') /\ Len(issued') <= MaxSessions
    /\ \A s \in 1..Len(issued) :
         issued'[s].tenant = issued[s].tenant /\ (issued'[s].live => issued[s].live)

LEMMA ValidToken ==
    ASSUME TokensOK, NEW s, ValidSession(s)
    PROVE  s \in 1..Len(issued) /\ issued[s] \in Tokens /\ issued[s].tenant \in PlaneTenants
  <1>1. issued \in Seq(Tokens)
    BY DEF TokensOK
  <1>2. DOMAIN issued = 1..Len(issued) /\ \A i \in 1..Len(issued) : issued[i] \in Tokens
    BY <1>1
  <1>3. s \in 1..Len(issued)
    BY <1>2 DEF ValidSession
  <1> QED BY <1>2, <1>3 DEF Tokens

LEMMA NotValid == ASSUME TokensOK PROVE ~ValidSession(NoFlight) /\ ~ValidSession(NoSession)
  BY PlaneAssumption DEF TokensOK, ValidSession, NoFlight, NoSession

LEMMA PlaneInitHolds == PlaneInit => PlaneIInv
  <1> SUFFICES ASSUME PlaneInit PROVE PlaneIInv
    OBVIOUS
  <1>1. TokensOK
    BY PlaneAssumption DEF PlaneInit, TokensOK, NoSession
  <1>2. TabsOK
    BY DEF PlaneInit, TabsOK, TabStates, AtLogin, InApp
  <1>3. DataOK
    <2>1. \A t \in BrowserTabs : Unmixed(t)
      BY <1>1, NotValid DEF PlaneInit, Unmixed, Empty, Quiet
    <2> QED BY <2>1 DEF PlaneInit, DataOK, Empty, Quiet
  <1> QED BY <1>1, <1>2, <1>3 DEF PlaneIInv

(* Tokens come and lapse: what is cached and awaited stays as good as it was.*)
LEMMA DataKept ==
    ASSUME TokensOK, DataOK, Later, UNCHANGED <<cache, flight, crossed>>
    PROVE  DataOK'
  <1>1. \A n \in 0..Len(issued) : n \in 0..Len(issued')
    BY DEF TokensOK, Later
  <1>2. flight' \in [BrowserTabs -> [PlaneTenants -> (0..Len(issued')) \cup {NoFlight}]]
    BY <1>1 DEF DataOK
  <1>3. ASSUME NEW t \in BrowserTabs, Unmixed(t) PROVE Unmixed(t)'
    <2> SUFFICES ASSUME NEW k \in PlaneTenants, ValidSession(flight[t][k])'
                 PROVE  issued'[flight[t][k]].tenant = k
      BY <1>3 DEF Unmixed
    <2> DEFINE f == flight[t][k]
    <2>1. f \in (0..Len(issued)) \cup {NoFlight} /\ f \in 1..Len(issued') /\ issued'[f].live
      BY DEF DataOK, ValidSession, Later
    <2>2. f \in 1..Len(issued)
      BY <2>1, PlaneAssumption DEF NoFlight, Later, TokensOK
    <2>3. ValidSession(f)
      BY <2>1, <2>2 DEF ValidSession, Later, TokensOK
    <2> QED BY <1>3, <2>2, <2>3 DEF Later, Unmixed
  <1> QED BY <1>2, <1>3 DEF DataOK

LEMMA IssueFacts ==
    ASSUME TokensOK, NEW k \in PlaneTenants, Issue(k)
    PROVE  TokensOK' /\ Later
  <1> DEFINE x == [tenant |-> k, live |-> TRUE]
  <1>1. x \in Tokens
    BY DEF Tokens
  <1> HIDE DEF x
  <1>2. issued' = Append(issued, x) /\ issued \in Seq(Tokens) /\ Len(issued) < MaxSessions
        /\ theCookie' = Len(issued) + 1
    BY DEF Issue, TokensOK, x
  <1>3. /\ issued' \in Seq(Tokens) /\ Len(issued') = Len(issued) + 1 /\ Len(issued) \in Nat
        /\ \A s \in 1..Len(issued) : issued'[s] = issued[s]
    BY <1>1, <1>2, AppendProperties
  <1> QED BY <1>2, <1>3, PlaneAssumption DEF TokensOK, Later

LEMMA LapseFacts ==
    ASSUME TokensOK, NEW s, Lapse(s)
    PROVE  TokensOK' /\ Later
  <1> DEFINE x == [issued[s] EXCEPT !.live = FALSE]
  <1>1. s \in 1..Len(issued) /\ issued[s] \in Tokens /\ issued \in Seq(Tokens)
    BY ValidToken DEF Lapse, TokensOK
  <1>2. x \in Tokens /\ x.tenant = issued[s].tenant /\ ~x.live
    BY <1>1 DEF Tokens
  <1>3. issued' = [issued EXCEPT ![s] = x]
    BY DEF Lapse
  <1> HIDE DEF x
  <1>4. /\ issued' \in Seq(Tokens) /\ Len(issued') = Len(issued)
        /\ \A r \in 1..Len(issued) : issued'[r] = IF r = s THEN x ELSE issued[r]
    BY <1>1, <1>2, <1>3, ExceptSeq
  <1> QED BY <1>2, <1>4, PlaneAssumption DEF TokensOK, Later, Lapse

(* The cookie is kept or deleted.                                            *)
LEMMA CookieKept ==
    ASSUME TokensOK, UNCHANGED issued, theCookie' \in {NoSession, theCookie}
    PROVE  TokensOK'
  BY DEF TokensOK, NoSession

(* A tab's new state.                                                        *)
LEMMA TabInv ==
    ASSUME TabsOK, NEW t \in BrowserTabs, NEW to \in TabStates,
           to.page = "app" => to.tenant \in PlaneTenants,
           tab' = [tab EXCEPT ![t] = to]
    PROVE  TabsOK'
  BY DEF TabsOK, InApp

LEMMA RemountInv ==
    ASSUME TokensOK, TabsOK, DataOK, NEW t \in BrowserTabs, NEW to \in TabStates,
           to.page = "app" => to.tenant \in PlaneTenants, Remount(t, to), UNCHANGED issued
    PROVE  TabsOK' /\ DataOK'
  <1>1. TabsOK'
    BY TabInv DEF Remount
  <1>2. cache' \in [BrowserTabs -> [PlaneTenants -> PlaneTenants \cup {NoData}]]
    BY DEF Remount, DataOK, Empty
  <1>3. flight' \in [BrowserTabs -> [PlaneTenants -> (0..Len(issued')) \cup {NoFlight}]]
    BY DEF Remount, DataOK, Quiet
  <1>4. crossed' \in [BrowserTabs -> BOOLEAN]
    BY DEF Remount, DataOK
  <1>5. Unmixed(t)'
    <2>1. cache'[t] = Empty /\ flight'[t] = Quiet
      BY DEF Remount, DataOK
    <2> QED BY <2>1, NotValid DEF Unmixed, Empty, Quiet, ValidSession
  <1>6. ASSUME NEW u \in BrowserTabs \ {t}, ~crossed'[u] PROVE Unmixed(u)'
    <2>1. cache'[u] = cache[u] /\ flight'[u] = flight[u] /\ crossed'[u] = crossed[u]
      BY DEF Remount, DataOK
    <2> QED BY <1>6, <2>1 DEF DataOK, Unmixed, ValidSession
  <1> QED BY <1>1, <1>2, <1>3, <1>4, <1>5, <1>6 DEF DataOK

LEMMA DataFrame ==
    ASSUME DataOK, UNCHANGED <<issued, cache, flight, crossed>>
    PROVE  DataOK'
  BY DEF DataOK, Unmixed, ValidSession

LEMMA VisitInv ==
    ASSUME PlaneIInv, NEW t \in BrowserTabs, Visit(t) \/ VisitUnreached(t)
    PROVE  PlaneIInv'
  <1> USE DEF PlaneIInv
  <1>1. AtLogin \in TabStates /\ AtLogin.page # "app"
    BY DEF AtLogin, TabStates
  <1>2. CASE VisitUnreached(t)
    BY <1>1, <1>2, RemountInv, CookieKept DEF VisitUnreached
  <1>3. CASE Visit(t)
    <2> DEFINE to == [AtLogin EXCEPT !.page = "app", !.tenant = TenantOfCookie]
    <2>1. theCookie' \in {NoSession, theCookie} /\ UNCHANGED issued
      BY <1>3 DEF Visit, CookieChecked
    <2>2. ValidSession(theCookie) => to \in TabStates /\ to.tenant \in PlaneTenants
      <3> SUFFICES ASSUME ValidSession(theCookie) PROVE to \in TabStates /\ to.tenant \in PlaneTenants
        OBVIOUS
      <3>1. TenantOfCookie \in PlaneTenants
        BY ValidToken DEF TenantOfCookie
      <3> HIDE DEF TenantOfCookie
      <3> QED BY <3>1 DEF AtLogin, TabStates
    <2>3. ValidSession(theCookie) => Remount(t, to)
      BY <1>3 DEF Visit
    <2>4. ~ValidSession(theCookie) => Remount(t, AtLogin)
      BY <1>3 DEF Visit
    <2> HIDE DEF to
    <2>5. TabsOK' /\ DataOK'
      BY <1>1, <2>1, <2>2, <2>3, <2>4, RemountInv
    <2> QED BY <2>1, <2>5, CookieKept
  <1> QED BY <1>2, <1>3

LEMMA PollInv ==
    ASSUME PlaneIInv, NEW t \in BrowserTabs, Poll(t)
    PROVE  PlaneIInv'
  <1> USE DEF PlaneIInv
  <1> DEFINE k == tab[t].tenant
             c == crossed[t] \/ (ValidSession(theCookie) /\ TenantOfCookie # tab[t].tenant)
             g == [flight[t] EXCEPT ![k] = theCookie]
  <1>1. k \in PlaneTenants
    BY DEF Poll, TabsOK
  <1>2. flight' = [flight EXCEPT ![t] = g] /\ UNCHANGED <<issued, theCookie, tab, cache>>
    BY DEF Poll, Key
  <1>3. c \in BOOLEAN
    BY DEF DataOK
  <1>4. crossed' = [crossed EXCEPT ![t] = c]
    BY DEF Poll
  <1>5. g \in [PlaneTenants -> (0..Len(issued)) \cup {NoFlight}]
        /\ \A j \in PlaneTenants : g[j] = IF j = k THEN theCookie ELSE flight[t][j]
    BY <1>1 DEF DataOK, TokensOK
  <1>6. ~c => ~crossed[t] /\ (ValidSession(theCookie) => issued[theCookie].tenant = k)
    BY DEF TenantOfCookie
  <1> HIDE DEF c, g
  <1>7. ASSUME ~c PROVE Unmixed(t)'
    <2>1. Unmixed(t) /\ flight'[t] = g
      BY <1>2, <1>6, <1>7 DEF DataOK
    <2> QED BY <1>2, <1>5, <1>6, <1>7, <2>1 DEF Unmixed, ValidSession
  <1>8. ASSUME NEW u \in BrowserTabs \ {t}, ~crossed[u] PROVE Unmixed(u)'
    <2>1. Unmixed(u) /\ flight'[u] = flight[u]
      BY <1>2, <1>8 DEF DataOK
    <2> QED BY <1>2, <2>1 DEF Unmixed, ValidSession
  <1>9. \A u \in BrowserTabs : crossed'[u] = IF u = t THEN c ELSE crossed[u]
    BY <1>4 DEF DataOK
  <1>10. flight' \in [BrowserTabs -> [PlaneTenants -> (0..Len(issued)) \cup {NoFlight}]]
         /\ crossed' \in [BrowserTabs -> BOOLEAN]
    BY <1>2, <1>3, <1>4, <1>5 DEF DataOK
  <1>11. DataOK'
    BY <1>2, <1>7, <1>8, <1>9, <1>10 DEF DataOK
  <1>12. TokensOK' /\ TabsOK'
    BY <1>2 DEF TokensOK, TabsOK, InApp
  <1> QED BY <1>11, <1>12

LEMMA QueryAnswerInv ==
    ASSUME PlaneIInv, NEW t \in BrowserTabs, NEW k \in PlaneTenants, QueryAnswer(t, k)
    PROVE  PlaneIInv'
  <1> USE DEF PlaneIInv
  <1> DEFINE f == flight[t][k]
             g == [flight[t] EXCEPT ![k] = NoFlight]
  <1>1. flight' = [flight EXCEPT ![t] = g] /\ UNCHANGED <<issued, theCookie, crossed>>
    BY DEF QueryAnswer
  <1>2. g \in [PlaneTenants -> (0..Len(issued)) \cup {NoFlight}]
        /\ \A j \in PlaneTenants : g[j] = IF j = k THEN NoFlight ELSE flight[t][j]
    BY DEF DataOK
  <1> HIDE DEF g
  <1>3. flight' \in [BrowserTabs -> [PlaneTenants -> (0..Len(issued)) \cup {NoFlight}]]
        /\ \A u \in BrowserTabs : flight'[u] = IF u = t THEN g ELSE flight[u]
    BY <1>1, <1>2 DEF DataOK
  <1>4. ~ValidSession(NoFlight)
    BY NotValid
  <1>5. TokensOK'
    BY <1>1 DEF TokensOK
  <1>6. CASE ValidSession(f)
    <2>1. tab' = tab /\ cache' = [cache EXCEPT ![t][k] = issued[f].tenant]
      BY <1>6 DEF QueryAnswer
    <2>2. issued[f].tenant \in PlaneTenants
      BY <1>6, ValidToken
    <2>3. cache' \in [BrowserTabs -> [PlaneTenants -> PlaneTenants \cup {NoData}]]
          /\ \A u \in BrowserTabs, j \in PlaneTenants :
               cache'[u][j] = IF u = t /\ j = k THEN issued[f].tenant ELSE cache[u][j]
      BY <2>1, <2>2 DEF DataOK
    <2>4. ASSUME NEW u \in BrowserTabs, ~crossed[u] PROVE Unmixed(u)'
      <3>1. Unmixed(u)
        BY <2>4 DEF DataOK
      <3> SUFFICES ASSUME NEW j \in PlaneTenants
                   PROVE  /\ cache'[u][j] \in {NoData, j}
                          /\ ValidSession(flight'[u][j]) => issued[flight'[u][j]].tenant = j
        BY <1>1 DEF Unmixed, ValidSession
      <3>2. cache'[u][j] \in {NoData, j}
        BY <1>6, <2>3, <3>1 DEF Unmixed
      <3>3. ValidSession(flight'[u][j]) => issued[flight'[u][j]].tenant = j
        BY <1>2, <1>3, <1>4, <3>1 DEF Unmixed
      <3> QED BY <3>2, <3>3
    <2>5. DataOK'
      BY <1>1, <1>3, <2>3, <2>4 DEF DataOK
    <2>6. TabsOK'
      BY <2>1 DEF TabsOK, InApp
    <2> QED BY <1>5, <2>5, <2>6
  <1>7. CASE ~ValidSession(f)
    <2>1. AuthRequired(t) /\ cache' = cache
      BY <1>7 DEF QueryAnswer
    <2>2. ASSUME NEW u \in BrowserTabs, ~crossed[u] PROVE Unmixed(u)'
      <3>1. Unmixed(u)
        BY <2>2 DEF DataOK
      <3> QED BY <1>1, <1>2, <1>3, <1>4, <2>1, <3>1 DEF Unmixed, ValidSession
    <2>3. DataOK'
      BY <1>1, <1>3, <2>1, <2>2 DEF DataOK
    <2> DEFINE b == tab[t]
               to == IF b.redirecting THEN b ELSE [b EXCEPT !.redirecting = TRUE, !.leaving = "asked"]
    <2>4. to \in TabStates /\ to.page = b.page /\ to.tenant = b.tenant
      BY DEF TabsOK, TabStates
    <2>5. tab' = [tab EXCEPT ![t] = to]
      BY <2>1 DEF AuthRequired
    <2>6. to.page = "app" => to.tenant \in PlaneTenants
      BY <2>4 DEF TabsOK, InApp
    <2> HIDE DEF to
    <2>7. TabsOK'
      BY <2>4, <2>5, <2>6, TabInv
    <2> QED BY <1>5, <2>3, <2>7
  <1> QED BY <1>6, <1>7

(* A tab that stays on its page, and perhaps learns the cookie's tenant.     *)
LEMMA TabGoesOn ==
    ASSUME PlaneIInv, NEW t \in BrowserTabs, NEW to \in TabStates, to.page = tab[t].page,
           to.tenant = tab[t].tenant \/ to.tenant \in PlaneTenants,
           tab' = [tab EXCEPT ![t] = to],
           UNCHANGED <<issued, cache, flight, crossed>>, theCookie' \in {NoSession, theCookie}
    PROVE  PlaneIInv'
  <1>1. to.page = "app" => to.tenant \in PlaneTenants
    BY DEF PlaneIInv, TabsOK, InApp
  <1> QED BY <1>1, TabInv, DataFrame, CookieKept DEF PlaneIInv

LEMMA LeaveInv ==
    ASSUME PlaneIInv, NEW t \in BrowserTabs, CleanUp(t) \/ Go(t) \/ Refresh(t) \/ SignOut(t)
    PROVE  PlaneIInv'
  <1> DEFINE b == tab[t]
  <1>1. b \in TabStates
    BY DEF PlaneIInv, TabsOK
  <1>2. CASE CleanUp(t) \/ SignOut(t)
    <2> DEFINE to == [b EXCEPT !.leaving = "going"]
    <2>1. to \in TabStates /\ to.page = b.page /\ to.tenant = b.tenant
      BY <1>1 DEF TabStates
    <2>2. /\ tab' = [tab EXCEPT ![t] = to] /\ UNCHANGED <<issued, cache, flight, crossed>>
          /\ theCookie' \in {NoSession, theCookie}
      BY <1>2 DEF CleanUp, SignOut
    <2> HIDE DEF to
    <2> QED BY <2>1, <2>2, TabGoesOn
  <1>3. CASE (Go(t) \/ Refresh(t)) /\ ~ValidSession(theCookie)
    <2>1. AtLogin \in TabStates /\ AtLogin.page # "app"
      BY DEF AtLogin, TabStates
    <2>2. Remount(t, AtLogin) /\ theCookie' \in {NoSession, theCookie} /\ UNCHANGED issued
      BY <1>3 DEF Go, Refresh, CookieChecked
    <2> QED BY <2>1, <2>2, RemountInv, CookieKept DEF PlaneIInv
  <1>4. CASE (Go(t) \/ Refresh(t)) /\ ValidSession(theCookie)
    <2>1. TenantOfCookie \in PlaneTenants
      BY <1>4, ValidToken DEF TenantOfCookie, PlaneIInv
    <2>2. theCookie' \in {NoSession, theCookie} /\ UNCHANGED <<issued, cache, flight, crossed>>
      BY <1>4 DEF Go, Refresh, CookieChecked
    <2>3. PICK c : c = TenantOfCookie
      OBVIOUS
    <2>4. PICK to \in { [b EXCEPT !.leaving = "back", !.tenant = c], [b EXCEPT !.leaving = "no"],
                        [b EXCEPT !.switching = FALSE, !.tenant = c] } :
             tab' = [tab EXCEPT ![t] = to]
      BY <1>4, <2>3 DEF Go, Refresh
    <2>5. to \in TabStates /\ to.page = b.page /\ (to.tenant = b.tenant \/ to.tenant = c)
      BY <1>1, <2>1, <2>3 DEF TabStates
    <2> QED BY <2>1, <2>2, <2>3, <2>4, <2>5, TabGoesOn
  <1> QED BY <1>2, <1>3, <1>4

LEMMA IssueInv ==
    ASSUME PlaneIInv, NEW t \in BrowserTabs, LogIn(t) \/ SwitchTo(t)
    PROVE  PlaneIInv'
  <1> USE DEF PlaneIInv
  <1>1. PICK k \in PlaneTenants : Issue(k)
    BY DEF LogIn, SwitchTo
  <1>2. TokensOK' /\ Later
    BY <1>1, IssueFacts
  <1>3. DataOK'
    BY <1>2, DataKept DEF LogIn, SwitchTo
  <1>4. TabsOK'
    <2>1. CASE LogIn(t)
      BY <2>1 DEF LogIn, TabsOK, InApp
    <2>2. CASE SwitchTo(t)
      <3> DEFINE to == [tab[t] EXCEPT !.switching = TRUE]
      <3>1. to \in TabStates /\ to.page = tab[t].page /\ to.tenant = tab[t].tenant
        BY DEF TabsOK, TabStates
      <3>2. tab' = [tab EXCEPT ![t] = to] /\ (to.page = "app" => to.tenant \in PlaneTenants)
        BY <2>2, <3>1 DEF SwitchTo, TabsOK, InApp
      <3> HIDE DEF to
      <3> QED BY <3>1, <3>2, TabInv
    <2> QED BY <2>1, <2>2
  <1> QED BY <1>2, <1>3, <1>4

LEMMA PlaneStepKeeps == PlaneIInv /\ [PlaneNext]_planeVars => PlaneIInv'
  <1> SUFFICES ASSUME PlaneIInv, [PlaneNext]_planeVars PROVE PlaneIInv'
    OBVIOUS
  <1>1. ASSUME NEW s \in DOMAIN issued, Lapse(s) PROVE PlaneIInv'
    <2>1. TokensOK' /\ Later
      BY <1>1, LapseFacts DEF PlaneIInv
    <2> QED BY <1>1, <2>1, DataKept DEF PlaneIInv, Lapse, TabsOK, InApp
  <1>2. CASE UNCHANGED planeVars
    BY <1>2, DataFrame, CookieKept DEF planeVars, PlaneIInv, TabsOK, InApp
  <1> QED
    BY <1>1, <1>2, VisitInv, PollInv, QueryAnswerInv, LeaveInv, IssueInv DEF PlaneNext, Hear, Leave

(* However late answers come, however often the tenant is switched, and      *)
(* whatever other tabs do with the cookie, a tab shows under a tenant's name *)
(* only that tenant's data, unless a query left it with another's cookie     *)
(* (useTenantKey).                                                           *)
THEOREM ShowsItsTenantHolds == PlaneSpec => []ShowsItsTenant
  <1>1. PlaneIInv => ShowsItsTenant
    BY DEF PlaneIInv, DataOK, TabsOK, Unmixed, ShowsItsTenant, Key
  <1> QED BY <1>1, PlaneInitHolds, PlaneStepKeeps, PTL DEF PlaneSpec

-----------------------------------------------------------------------------
(* Saved views: that what is shown and stored is sound is inductive together *)
(* with the ids, which are the numbers of the writes so far.                 *)

ViewSet == [id : Nat, name : ViewNames, isDefault : BOOLEAN]

Sound(list) ==
    \A v, w \in list : v # w => ~(v.isDefault /\ w.isDefault) /\ v.name # w.name /\ v.id # w.id

(* A list of views with ids up to n.                                         *)
Listed(list, n) == list \subseteq ViewSet /\ Sound(list) /\ \A v \in list : v.id <= n

ViewsIInv ==
    /\ viewSaves \in Nat
    /\ current # Missing => Listed(current, viewSaves)
    /\ \A t \in ViewTabs : views[t] # Missing => Listed(views[t], viewSaves)
    /\ views \in [ViewTabs -> (SUBSET ViewSet) \cup {Missing}]
    /\ legacy \in OldViews
    /\ OldViewsSurvive

LEMMA OldListed == ASSUME NEW list \in OldViews \ {Missing, Corrupt}, NEW n \in Nat
                   PROVE  Listed(list, n)
  <1> DEFINE m == CHOOSE a \in ViewNames : TRUE
             v == View(0, m, TRUE)
  <1>1. m \in ViewNames
    BY ViewAssumption
  <1>2. v \in ViewSet /\ v.id = 0
    BY <1>1 DEF View, ViewSet
  <1>3. list = {v}
    BY DEF OldViews
  <1> HIDE DEF v
  <1> QED BY <1>2, <1>3 DEF Listed, Sound

LEMMA ViewsInitHolds == ViewsInit => ViewsIInv
  BY DEF ViewsInit, ViewsIInv, OldViewsSurvive

(* Writing a sound list.                                                     *)
LEMMA PersistInv ==
    ASSUME ViewsIInv, NEW t \in ViewTabs, NEW list, Persist(t, list), Listed(list, viewSaves + 1)
    PROVE  ViewsIInv'
  <1>0. CASE UNCHANGED viewVars
    BY <1>0 DEF viewVars, ViewsIInv, OldViewsSurvive
  <1> SUFFICES ASSUME ~UNCHANGED viewVars PROVE ViewsIInv'
    BY <1>0
  <1>1. /\ viewSaves' = viewSaves + 1 /\ viewSaves' \in Nat /\ viewSaves' # 0
        /\ current' = list /\ views' = [views EXCEPT ![t] = list] /\ legacy' = legacy
    BY DEF Persist, ViewsIInv
  <1>2. \A l : Listed(l, viewSaves) => Listed(l, viewSaves + 1)
    BY DEF Listed, ViewSet, ViewsIInv
  <1>3. \A u \in ViewTabs : views'[u] = list \/ views'[u] = views[u]
    BY <1>1 DEF ViewsIInv
  <1>4. views' \in [ViewTabs -> (SUBSET ViewSet) \cup {Missing}]
    BY <1>1 DEF ViewsIInv, Listed
  <1> QED
    BY <1>1, <1>2, <1>3, <1>4 DEF ViewsIInv, OldViewsSurvive

(* What saveView makes of a list.                                            *)
Saved(list, id, name, setDefault) ==
    LET same == SameName(list, name) IN
    IF same = {} THEN Base(list, setDefault) \union {View(id, name, setDefault)}
    ELSE Base(list \ same, setDefault) \union
         {[v EXCEPT !.isDefault = setDefault \/ @] : v \in same}

LEMMA SavedSound ==
    ASSUME NEW list, NEW n \in Nat, Listed(list, n), NEW name \in ViewNames, NEW setDefault \in BOOLEAN
    PROVE  Listed(Saved(list, n + 1, name, setDefault), n + 1)
  <1> USE DEF Saved
  <1> DEFINE same == SameName(list, name)
             D(v) == [v EXCEPT !.isDefault = FALSE]
             B(v) == IF setDefault THEN D(v) ELSE v
             d(v) == setDefault \/ v.isDefault
             S(v) == [v EXCEPT !.isDefault = d(v)]
  <1>1. \A v \in list : /\ v \in ViewSet /\ v.id \in Nat /\ v.id <= n /\ v.name \in ViewNames
                        /\ v.isDefault \in BOOLEAN
    BY DEF Listed, ViewSet
  <1>2. \A v \in list : /\ D(v) \in ViewSet /\ D(v).id = v.id /\ D(v).name = v.name /\ ~D(v).isDefault
    BY <1>1 DEF ViewSet
  <1>3. \A v \in list : /\ B(v) \in ViewSet /\ B(v).id = v.id /\ B(v).name = v.name
                        /\ B(v).isDefault => ~setDefault /\ v.isDefault
    <2> HIDE DEF D
    <2> QED BY <1>1, <1>2
  <1>4. \A v \in list : /\ S(v) \in ViewSet /\ S(v).id = v.id /\ S(v).name = v.name
                        /\ S(v).isDefault => setDefault \/ v.isDefault
    <2> SUFFICES ASSUME NEW v \in list
                 PROVE  /\ S(v) \in ViewSet /\ S(v).id = v.id /\ S(v).name = v.name
                        /\ S(v).isDefault => setDefault \/ v.isDefault
      OBVIOUS
    <2>1. d(v) \in BOOLEAN /\ (d(v) => setDefault \/ v.isDefault)
      BY <1>1
    <2> HIDE DEF d
    <2>2. S(v) \in ViewSet /\ S(v).id = v.id /\ S(v).name = v.name /\ S(v).isDefault = d(v)
      BY <1>1, <2>1 DEF ViewSet
    <2> HIDE DEF S
    <2> QED BY <2>1, <2>2
  <1>5. \A l : Base(l, setDefault) = {B(v) : v \in l}
    BY DEF Base
  <1>6. \A v, w \in list : v # w => ~(v.isDefault /\ w.isDefault) /\ v.name # w.name /\ v.id # w.id
    BY DEF Listed, Sound
  <1>7. \A v \in same : v \in list /\ v.name = name
    BY DEF SameName
  <1>8. \A v \in list \ same : v.name # name
    BY DEF SameName
  <1>9. CASE same = {}
    <2> DEFINE x == View(n + 1, name, setDefault)
               new == {B(v) : v \in list} \union {x}
    <2>1. x \in ViewSet /\ x.id = n + 1 /\ x.name = name /\ x.isDefault = setDefault
      BY DEF View, ViewSet
    <2>2. \A v \in list : v.name # name
      BY <1>8, <1>9
    <2> HIDE DEF x, B, S
    <2>3. \A y \in new : y = x \/ \E v \in list : y = B(v)
      OBVIOUS
    <2>4. new \subseteq ViewSet /\ \A y \in new : y.id <= n + 1
      BY <1>1, <1>3, <2>1, <2>3
    <2>5. Sound(new)
      <3> SUFFICES ASSUME NEW y \in new, NEW z \in new, y # z
                   PROVE  ~(y.isDefault /\ z.isDefault) /\ y.name # z.name /\ y.id # z.id
        BY DEF Sound
      <3>1. CASE y = x
        <4>1. PICK w \in list : z = B(w)
          BY <2>3, <3>1
        <4> QED BY <1>1, <1>3, <2>1, <2>2, <3>1, <4>1
      <3>2. CASE z = x
        <4>1. PICK w \in list : y = B(w)
          BY <2>3, <3>2
        <4> QED BY <1>1, <1>3, <2>1, <2>2, <3>2, <4>1
      <3>3. CASE y # x /\ z # x
        <4>1. PICK v \in list : y = B(v)
          BY <2>3, <3>3
        <4>2. PICK w \in list : z = B(w)
          BY <2>3, <3>3
        <4> QED BY <1>3, <1>6, <4>1, <4>2
      <3> QED BY <3>1, <3>2, <3>3
    <2>6. Listed(new, n + 1)
      BY <2>4, <2>5 DEF Listed
    <2> QED BY <1>5, <1>9, <2>6 DEF x
  <1>10. CASE same # {}
    <2> DEFINE new == {B(v) : v \in list \ same} \union {S(v) : v \in same}
    <2> HIDE DEF B, S, same
    <2>1. \A y \in new : (\E v \in list \ same : y = B(v)) \/ (\E v \in same : y = S(v))
      OBVIOUS
    <2>2. new \subseteq ViewSet /\ \A y \in new : y.id <= n + 1
      BY <1>1, <1>3, <1>4, <1>7, <2>1
    <2>3. \A v, w \in same : v = w
      BY <1>6, <1>7
    <2>4. Sound(new)
      <3> SUFFICES ASSUME NEW y \in new, NEW z \in new, y # z
                   PROVE  ~(y.isDefault /\ z.isDefault) /\ y.name # z.name /\ y.id # z.id
        BY DEF Sound
      <3>1. ASSUME NEW v \in list \ same, NEW w \in list \ same, y = B(v), z = B(w)
            PROVE  ~(y.isDefault /\ z.isDefault) /\ y.name # z.name /\ y.id # z.id
        BY <1>3, <1>6, <3>1
      <3>2. ASSUME NEW v \in list \ same, NEW w \in same
            PROVE  /\ ~(B(v).isDefault /\ S(w).isDefault)
                   /\ B(v).name # S(w).name /\ B(v).id # S(w).id
        <4>1. v # w /\ v \in list /\ w \in list
          BY <1>7
        <4> QED BY <1>3, <1>4, <1>6, <4>1
      <3>3. ASSUME NEW v \in same, NEW w \in same, y = S(v), z = S(w)
            PROVE  FALSE
        BY <2>3, <3>3
      <3> QED BY <2>1, <3>1, <3>2, <3>3
    <2>5. Listed(new, n + 1)
      BY <2>2, <2>4 DEF Listed
    <2> QED BY <1>5, <1>10, <2>5 DEF same, S
  <1> QED BY <1>9, <1>10

LEMMA SaveViewInv ==
    ASSUME ViewsIInv, NEW t \in ViewTabs, NEW n \in ViewNames, NEW d \in BOOLEAN, SaveView(t, n, d)
    PROVE  ViewsIInv'
  <1>1. Listed(views[t], viewSaves) /\ viewSaves \in Nat
    BY DEF SaveView, ViewsIInv
  <1>2. Persist(t, Saved(views[t], viewSaves + 1, n, d))
    BY Zenon DEF SaveView, Saved
  <1>3. Listed(Saved(views[t], viewSaves + 1, n, d), viewSaves + 1)
    BY <1>1, SavedSound
  <1> QED BY <1>2, <1>3, PersistInv

LEMMA RemoveViewInv ==
    ASSUME ViewsIInv, NEW t \in ViewTabs, NEW i, RemoveView(t, i)
    PROVE  ViewsIInv'
  <1> DEFINE list == {v \in views[t] : v.id # i}
  <1>1. Listed(views[t], viewSaves) /\ viewSaves \in Nat
    BY DEF RemoveView, ViewsIInv
  <1>2. Listed(list, viewSaves + 1)
    BY <1>1 DEF Listed, Sound, ViewSet
  <1> QED BY <1>2, PersistInv DEF RemoveView

LEMMA SetDefaultViewInv ==
    ASSUME ViewsIInv, NEW t \in ViewTabs, NEW i, SetDefaultView(t, i)
    PROVE  ViewsIInv'
  <1> DEFINE S(v) == [v EXCEPT !.isDefault = (v.id = i)]
             list == {S(v) : v \in views[t]}
  <1>1. Listed(views[t], viewSaves) /\ viewSaves \in Nat
    BY DEF SetDefaultView, ViewsIInv
  <1>2. ASSUME NEW v \in views[t]
        PROVE  S(v) \in ViewSet /\ S(v).id = v.id /\ S(v).name = v.name /\ (S(v).isDefault => v.id = i)
    <2> DEFINE d == (v.id = i)
    <2>1. v \in ViewSet /\ d \in BOOLEAN
      BY <1>1 DEF Listed
    <2> HIDE DEF d
    <2>2. /\ [v EXCEPT !.isDefault = d] \in ViewSet /\ [v EXCEPT !.isDefault = d].id = v.id
          /\ [v EXCEPT !.isDefault = d].name = v.name /\ [v EXCEPT !.isDefault = d].isDefault = d
      BY <2>1 DEF ViewSet
    <2> QED BY <2>2 DEF d
  <1> HIDE DEF S
  <1>3. \A v \in views[t] : v.id \in Nat /\ v.id <= viewSaves
    BY <1>1 DEF Listed, ViewSet
  <1>4. \A v, w \in views[t] : v # w => v.name # w.name /\ v.id # w.id
    BY <1>1 DEF Listed, Sound
  <1>5. Listed(list, viewSaves + 1)
    <2>1. list \subseteq ViewSet /\ \A y \in list : y.id <= viewSaves + 1
      BY <1>1, <1>2, <1>3
    <2>2. Sound(list)
      BY <1>2, <1>4 DEF Sound
    <2> QED BY <2>1, <2>2 DEF Listed
  <1>6. Persist(t, list)
    BY DEF SetDefaultView, S
  <1> HIDE DEF list
  <1> QED BY <1>5, <1>6, PersistInv

LEMMA ShowInv ==
    ASSUME ViewsIInv, NEW t \in ViewTabs, Show(t)
    PROVE  ViewsIInv'
  <1> USE DEF ViewsIInv
  <1>1. CASE current # Missing /\ views' = [views EXCEPT ![t] = current] /\ UNCHANGED <<current, legacy>>
    <2>1. views' \in [ViewTabs -> (SUBSET ViewSet) \cup {Missing}]
      BY <1>1 DEF Listed
    <2> QED BY <1>1, <2>1 DEF Show, OldViewsSurvive
  <1>2. CASE /\ current = Missing /\ ~Migratable
             /\ views' = [views EXCEPT ![t] = {}] /\ legacy' = Missing /\ UNCHANGED current
    <2>1. Listed({}, viewSaves)
      BY DEF Listed, Sound
    <2>2. \A u \in ViewTabs : views'[u] = {} \/ views'[u] = views[u]
      BY <1>2
    <2>3. views' \in [ViewTabs -> (SUBSET ViewSet) \cup {Missing}] /\ viewSaves' = viewSaves /\ had' = had
      BY <1>2 DEF Show
    <2>4. OldViewsSurvive'
      BY <1>2, <2>3 DEF OldViewsSurvive, Migratable
    <2> QED BY <1>2, <2>1, <2>2, <2>3, <2>4 DEF OldViews
  <1>3. CASE current = Missing /\ Migratable /\
             \E written \in BOOLEAN :
               /\ Migrate(written)
               /\ views' = [views EXCEPT ![t] = IF written THEN legacy ELSE Missing]
    <2>1. Listed(legacy, viewSaves)
      BY <1>3, OldListed DEF Migratable
    <2>2. PICK written \in BOOLEAN :
               /\ Migrate(written)
               /\ views' = [views EXCEPT ![t] = IF written THEN legacy ELSE Missing]
      BY <1>3
    <2>3. \A u \in ViewTabs : views'[u] = legacy \/ views'[u] = Missing \/ views'[u] = views[u]
      BY <2>2
    <2>4. views' \in [ViewTabs -> (SUBSET ViewSet) \cup {Missing}] /\ viewSaves' = viewSaves /\ had' = had
      BY <2>1, <2>2 DEF Show, Listed
    <2>5. /\ current' = legacy \/ (current' = current /\ legacy' = legacy)
          /\ legacy' = Missing \/ legacy' = legacy
      BY <2>2 DEF Migrate
    <2>6. OldViewsSurvive'
      BY <1>3, <2>4, <2>5 DEF OldViewsSurvive
    <2> QED BY <2>1, <2>3, <2>4, <2>5, <2>6 DEF OldViews
  <1> QED BY <1>1, <1>2, <1>3 DEF Show

LEMMA ViewsStepKeeps == ViewsIInv /\ [ViewsNext]_viewVars => ViewsIInv'
  <1> SUFFICES ASSUME ViewsIInv, [ViewsNext]_viewVars PROVE ViewsIInv'
    OBVIOUS
  <1>1. ASSUME NEW t \in ViewTabs, Hide(t) PROVE ViewsIInv'
    BY <1>1 DEF Hide, ViewsIInv, OldViewsSurvive
  <1>2. CASE UNCHANGED viewVars
    BY <1>2 DEF viewVars, ViewsIInv, OldViewsSurvive
  <1> QED BY <1>1, <1>2, ShowInv, SaveViewInv, RemoveViewInv, SetDefaultViewInv DEF ViewsNext

(* Whatever the tabs write over each other, and however often localStorage   *)
(* refuses, no list has two defaults, names or ids twice, and the views of   *)
(* the old version are in one of the two keys (saveView, setDefaultView,     *)
(* loadVersionedLocalState).                                                 *)
THEOREM ViewsKeptHolds == ViewsSpec => []ViewsKept
  <1>1. ViewsIInv => ViewsKept
    <2> SUFFICES ASSUME ViewsIInv PROVE ViewsAreSound
      BY DEF ViewsKept, ViewsIInv
    <2> QED BY DEF ViewsIInv, ViewsAreSound, Listed, Sound
  <1> QED BY <1>1, ViewsInitHolds, ViewsStepKeeps, PTL DEF ViewsSpec

-----------------------------------------------------------------------------
(* The send page: a form keeps the file it showed, and its upload is that    *)
(* file or none, for any files and any number of submissions under way.      *)

FilesOrNone == RecipientFiles \cup {NoFile}

PageTypeOK ==
    /\ parsing \subseteq RecipientFiles
    /\ uploadPreview \in FilesOrNone
    /\ click \in [Clicks -> [ step : {"idle", "uploading", "scheduling", "done", "failed"},
                              shown : FilesOrNone, group : BOOLEAN ]]
    /\ contactUploads \in [Clicks -> FilesOrNone]
    /\ scheduled \subseteq [by : Clicks, group : BOOLEAN, file : FilesOrNone]

(* A submission without a group was made with a file, and gets to its second *)
(* request only with that file uploaded.                                     *)
FormsKeepTheirFile ==
    \A c \in Clicks :
        /\ click[c].step = "uploading" => ~click[c].group
        /\ click[c].step # "idle" /\ ~click[c].group => click[c].shown # NoFile
        /\ click[c].step = "scheduling" /\ ~click[c].group => contactUploads[c] = click[c].shown

ScheduledOnce == \A s \in scheduled : click[s.by].step \in {"done", "failed"}

PageIInv == PageTypeOK /\ FormsKeepTheirFile /\ ScheduledOnce /\ SendsWhatWasShown

LEMMA PageInitHolds == PageInit => PageIInv
  BY DEF PageInit, PageIInv, PageTypeOK, FilesOrNone, Unclicked, FormsKeepTheirFile, ScheduledOnce,
         SendsWhatWasShown

LEMMA FileInputInv ==
    ASSUME PageIInv, \/ ClearFile
                     \/ \E f \in RecipientFiles : ChooseFile(f) \/ Parsed(f)
    PROVE  PageIInv'
  <1>1. UNCHANGED <<click, contactUploads, scheduled>>
    BY DEF ClearFile, ChooseFile, Parsed
  <1>2. PageTypeOK'
    BY <1>1 DEF PageIInv, PageTypeOK, FilesOrNone, ClearFile, ChooseFile, Parsed
  <1> QED BY <1>1, <1>2 DEF PageIInv, FormsKeepTheirFile, ScheduledOnce, SendsWhatWasShown

LEMMA ClickInv ==
    ASSUME PageIInv, NEW c \in Clicks, Click(c)
    PROVE  PageIInv'
  <1> USE DEF PageIInv
  <1> PICK group \in BOOLEAN :
         /\ group \/ uploadPreview # NoFile
         /\ click' = [click EXCEPT ![c] =
               [step |-> IF group THEN "scheduling" ELSE "uploading",
                shown |-> uploadPreview, group |-> group]]
    BY DEF Click
  <1> DEFINE b == [step |-> IF group THEN "scheduling" ELSE "uploading",
                   shown |-> uploadPreview, group |-> group]
  <1>1. /\ b.step = (IF group THEN "scheduling" ELSE "uploading")
        /\ b.shown = uploadPreview /\ b.group = group
        /\ b \in [ step : {"idle", "uploading", "scheduling", "done", "failed"},
                   shown : FilesOrNone, group : BOOLEAN ]
    BY DEF PageTypeOK
  <1> HIDE DEF b
  <1>2. click' = [click EXCEPT ![c] = b] /\ UNCHANGED <<parsing, uploadPreview, contactUploads, scheduled>>
    BY DEF Click, b
  <1>3. click'[c] = b /\ \A d \in Clicks \ {c} : click'[d] = click[d]
    BY <1>2 DEF PageTypeOK
  <1>4. PageTypeOK'
    BY <1>1, <1>2 DEF PageTypeOK
  <1>5. FormsKeepTheirFile'
    BY <1>1, <1>2, <1>3 DEF FormsKeepTheirFile
  <1>6. \A s \in scheduled : s.by \in Clicks /\ s.by # c
    BY DEF PageTypeOK, ScheduledOnce, Click
  <1>7. ScheduledOnce' /\ SendsWhatWasShown'
    BY <1>2, <1>3, <1>6 DEF ScheduledOnce, SendsWhatWasShown
  <1> QED BY <1>4, <1>5, <1>7

LEMMA UploadInv ==
    ASSUME PageIInv, NEW c \in Clicks, Upload(c)
    PROVE  PageIInv'
  <1> USE DEF PageIInv
  <1> PICK done \in BOOLEAN, answered \in BOOLEAN :
         /\ contactUploads' = IF done THEN [contactUploads EXCEPT ![c] = FileToUpload(c)]
                                      ELSE contactUploads
         /\ click' = [click EXCEPT ![c].step = IF done /\ answered THEN "scheduling" ELSE "failed"]
    BY DEF Upload
  <1>1. /\ click'[c].step = (IF done /\ answered THEN "scheduling" ELSE "failed")
        /\ click'[c].shown = click[c].shown /\ click'[c].group = click[c].group
        /\ \A d \in Clicks \ {c} : click'[d] = click[d] /\ contactUploads'[d] = contactUploads[d]
        /\ done => contactUploads'[c] = click[c].shown
    BY DEF PageTypeOK, FileToUpload
  <1>2. PageTypeOK'
    BY DEF PageTypeOK, Upload, FileToUpload
  <1>3. FormsKeepTheirFile'
    BY <1>1 DEF FormsKeepTheirFile, Upload
  <1>4. \A s \in scheduled : s.by \in Clicks /\ s.by # c
    BY DEF PageTypeOK, ScheduledOnce, Upload
  <1>5. ScheduledOnce' /\ SendsWhatWasShown'
    BY <1>1, <1>4 DEF ScheduledOnce, SendsWhatWasShown, Upload
  <1> QED BY <1>2, <1>3, <1>5

LEMMA ScheduleInv ==
    ASSUME PageIInv, NEW c \in Clicks, Schedule(c)
    PROVE  PageIInv'
  <1> USE DEF PageIInv
  <1> DEFINE s == [by |-> c, group |-> click[c].group, file |-> contactUploads[c]]
  <1> PICK done \in BOOLEAN, answered \in BOOLEAN :
         /\ scheduled' = IF done THEN scheduled \union {s} ELSE scheduled
         /\ click' = [click EXCEPT ![c].step = IF done /\ answered THEN "done" ELSE "failed"]
    BY DEF Schedule
  <1>1. /\ click'[c].step \in {"done", "failed"}
        /\ click'[c].shown = click[c].shown /\ click'[c].group = click[c].group
        /\ \A d \in Clicks \ {c} : click'[d] = click[d]
    BY DEF PageTypeOK
  <1>2. /\ s \in [by : Clicks, group : BOOLEAN, file : FilesOrNone]
        /\ s.by = c /\ s.group = click[c].group /\ s.file = contactUploads[c]
    BY DEF PageTypeOK
  <1> HIDE DEF s
  <1>3. PageTypeOK'
    BY <1>2 DEF PageTypeOK, Schedule
  <1>4. FormsKeepTheirFile'
    BY <1>1 DEF FormsKeepTheirFile, Schedule
  <1>5. ~click[c].group => contactUploads[c] = click[c].shown /\ click[c].shown # NoFile
    BY DEF FormsKeepTheirFile, Schedule
  <1>6. \A x \in scheduled : x.by \in Clicks
    BY DEF PageTypeOK
  <1>7. ScheduledOnce' /\ SendsWhatWasShown'
    BY <1>1, <1>2, <1>5, <1>6 DEF ScheduledOnce, SendsWhatWasShown
  <1> QED BY <1>3, <1>4, <1>7

LEMMA PageStepKeeps == PageIInv /\ [PageNext]_pageVars => PageIInv'
  <1> SUFFICES ASSUME PageIInv, [PageNext]_pageVars PROVE PageIInv'
    OBVIOUS
  <1>1. CASE UNCHANGED pageVars
    BY <1>1 DEF pageVars, PageIInv, PageTypeOK, FormsKeepTheirFile, ScheduledOnce, SendsWhatWasShown
  <1> QED BY <1>1, FileInputInv, ClickInv, UploadInv, ScheduleInv DEF PageNext

(* Whatever files are chosen and parsed meanwhile, and whichever requests    *)
(* fail or lose their answer, a campaign scheduled from a file goes to the   *)
(* recipients shown when its form was submitted (bulkForm's handler).        *)
THEOREM SendsWhatWasShownHolds == PageSpec => []SendsWhatWasShown
  <1>1. PageIInv => SendsWhatWasShown
    BY DEF PageIInv
  <1> QED BY <1>1, PageInitHolds, PageStepKeeps, PTL DEF PageSpec

-----------------------------------------------------------------------------
(* The scripts.  Releases: the latch makes the journal of the one that has   *)
(* it grow by its own files only, in the order of their names.  Seeds: what  *)
(* a seed has inserted and not committed belongs to a tenant or a provider   *)
(* whose row it has locked, so no two uncommitted seeds insert for the same. *)

ReleaseStates ==
    [pc : {"look", "create", "connect", "pick", "apply", "verify"} \cup Ended, file : Nat]

HasLatch(r) == release[r].pc \in {"pick", "apply", "verify"}

(* The files before the one a release is at are in the journal.              *)
Through(r, m) == \A n \in Migrations[r] : n <= m => n \in journal

ReleasesOK ==
    /\ release \in [Releases -> ReleaseStates]
    /\ latch \in Releases \cup {Free}
    /\ journal = schema
    /\ \A r \in Releases : HasLatch(r) => latch = r
    /\ \A r \in Releases : release[r].pc \in {"look", "create", "connect"} => release[r].file = 0
    /\ \A r \in Releases : release[r].pc = "pick" => Through(r, release[r].file)
    /\ \A r \in Releases : release[r].pc = "apply" =>
         release[r].file \notin schema /\ Through(r, release[r].file - 1)
    /\ \A r \in Releases : release[r].pc \in {"verify", "ready"} => Migrations[r] \subseteq schema
    /\ NoneClashes

Codes == Tenants \cup Providers

Kinds == {"tenant", "wallet", "user", "users", "provider", "sender", "template", "group",
          "contact", "member", "route", "sell", "cost", "audit"}

Fixtures == [kind : Kinds, owner : Codes \cup Seeds, mark : {"code", "local", "staging"}, by : Seeds]

SeedStates == [ script : {"local", "staging"}, tenant : Tenants, provider : Providers,
                pc : Kinds \cup {"commit"} \cup SeedEnded, work : SUBSET Fixtures ]

HasTenant(s) == seed[s].pc \notin SeedEnded \cup {"tenant"}

HasProvider(s) == HasTenant(s) /\ seed[s].pc \notin {"wallet", "user", "users", "provider"}

(* An audit entry is the seed's own; all else is for a locked row.           *)
Covered(s, x) ==
    /\ x.by = s
    /\ IF x.kind = "audit" THEN x.owner = s ELSE x.owner \in Codes /\ held[x.owner] = s

Once(set) == \A a, b \in set : SameFixture(a, b) => a = b

SeedTypeOK ==
    /\ rows \subseteq Fixtures
    /\ held \in [Codes -> Seeds \cup {Free}]
    /\ seed \in [Seeds -> SeedStates]

SeedOK(s) ==
    /\ HasTenant(s) => held[seed[s].tenant] = s
    /\ HasProvider(s) => held[seed[s].provider] = s
    /\ \A x \in seed[s].work : Covered(s, x)
    /\ Once(Visible(s))

SeedsOK ==
    /\ SeedTypeOK
    /\ \A x \in rows : x.kind = "audit" => x.owner = x.by
    /\ Once(rows)
    /\ \A s \in Seeds : SeedOK(s)

DeployIInv == ReleasesOK /\ SeedsOK

-----------------------------------------------------------------------------
LEMMA DeployInitHolds == DeployInit => DeployIInv
  <1> SUFFICES ASSUME DeployInit PROVE DeployIInv
    OBVIOUS
  <1>1. \A r \in Releases : release[r] = [pc |-> "look", file |-> 0] /\ release[r] \in ReleaseStates
    BY DEF DeployInit, ReleaseStates, Ended
  <1>2. release \in [Releases -> ReleaseStates]
    <2>1. release = [r \in Releases |-> release[r]]
      BY DEF DeployInit
    <2> QED BY <1>1, <2>1
  <1>3. ReleasesOK
    BY <1>1, <1>2 DEF DeployInit, ReleasesOK, HasLatch, NoneClashes
  <1>4. \A s \in Seeds : seed[s] \in SeedStates /\ seed[s].pc = "tenant" /\ seed[s].work = {}
    <2> TAKE s \in Seeds
    <2> DEFINE Start == [ script : {"local", "staging"}, tenant : Tenants,
                          provider : Providers, pc : {"tenant"}, work : {{}} ]
    <2>1. seed \in [Seeds -> Start]
      BY DEF DeployInit
    <2> HIDE DEF Start
    <2>2. seed[s] \in Start
      BY <2>1
    <2>3. \A x \in Start : x \in SeedStates /\ x.pc = "tenant" /\ x.work = {}
      BY DEF Start, SeedStates, Kinds
    <2> QED BY <2>2, <2>3
  <1>5. SeedTypeOK
    BY <1>4 DEF DeployInit, SeedTypeOK, Codes
  <1>6. ASSUME NEW s \in Seeds PROVE SeedOK(s)
    BY <1>4 DEF DeployInit, SeedOK, HasTenant, HasProvider, Covered, Once, Visible
  <1> QED BY <1>3, <1>5, <1>6 DEF DeployInit, DeployIInv, SeedsOK, Once

(* Each release's own step; what it does to its own state is given.          *)
LEMMA OwnReleaseStep ==
    ASSUME ReleasesOK, NEW r \in Releases, NEW new \in ReleaseStates,
           release' = [release EXCEPT ![r] = new],
           latch' \in Releases \cup {Free}, journal' = schema', schema \subseteq schema',
           \A q \in Releases \ {r} : HasLatch(q) => latch' = q,
           schema' = schema \/ latch = r,
           new.pc \in {"pick", "apply", "verify"} => latch' = r,
           new.pc \in {"look", "create", "connect"} => new.file = 0,
           new.pc = "pick" => \A n \in Migrations[r] : n <= new.file => n \in schema',
           new.pc = "apply" => /\ new.file \notin schema'
                               /\ \A n \in Migrations[r] : n <= new.file - 1 => n \in schema',
           new.pc \in {"verify", "ready"} => Migrations[r] \subseteq schema',
           new.pc # "clashed"
    PROVE  ReleasesOK'
  <1>1. release' \in [Releases -> ReleaseStates] /\ release'[r] = new
    BY DEF ReleasesOK
  <1>2. \A q \in Releases \ {r} : release'[q] = release[q]
    BY DEF ReleasesOK
  <1>3. ASSUME NEW q \in Releases
        PROVE  /\ HasLatch(q)' => latch' = q
               /\ release'[q].pc \in {"look", "create", "connect"} => release'[q].file = 0
               /\ release'[q].pc = "pick" => Through(q, release[q].file)'
               /\ release'[q].pc = "apply" =>
                    release'[q].file \notin schema' /\ Through(q, release[q].file - 1)'
               /\ release'[q].pc \in {"verify", "ready"} => Migrations[q] \subseteq schema'
               /\ release'[q].pc # "clashed"
    <2>1. CASE q = r
      BY <1>1, <2>1 DEF HasLatch, Through
    <2>2. CASE q # r
      <3>1. release'[q] = release[q]
        BY <1>2, <2>2
      <3>2. release[q].pc = "apply" => schema' = schema
        BY <2>2 DEF ReleasesOK, HasLatch
      <3> QED BY <2>2, <3>1, <3>2 DEF ReleasesOK, HasLatch, Through, NoneClashes
    <2> QED BY <2>1, <2>2
  <1> QED BY <1>1, <1>3 DEF ReleasesOK, NoneClashes

LEMMA HasOne ==
    ASSUME ReleasesOK, NEW r \in Releases, HasLatch(r)
    PROVE  latch = r /\ \A q \in Releases \ {r} : ~HasLatch(q)
  BY DEF ReleasesOK

(* The file picked is the first that is not in the journal: those before it  *)
(* are.                                                                      *)
LEMMA PickKeepsReleases ==
    ASSUME ReleasesOK, NEW r \in Releases, PickMigration(r)
    PROVE  ReleasesOK'
  <1> DEFINE n == release[r].file
  <1>1. HasLatch(r) /\ n \in Nat /\ journal = schema /\ Through(r, n)
    BY DEF PickMigration, ReleasesOK, HasLatch, ReleaseStates
  <1>2. Migrations[r] \subseteq Nat \ {0}
    BY MigrationAssumption
  <1>3. \A q \in Releases \ {r} : HasLatch(q) => latch' = q
    BY <1>1, HasOne
  <1>4. CASE Pending(r) = {}
    <2> DEFINE new == [pc |-> "verify", file |-> n]
    <2>1. release' = [release EXCEPT ![r] = new]
      BY <1>4 DEF PickMigration, Release, ReleasesOK, ReleaseStates
    <2>2. Migrations[r] \subseteq schema
      BY <1>1, <1>2, <1>4 DEF Pending, Through
    <2>3. new \in ReleaseStates /\ new.pc = "verify"
      BY <1>1 DEF ReleaseStates
    <2> HIDE DEF new
    <2> QED BY <1>1, <1>3, <2>1, <2>2, <2>3, HasOne, OwnReleaseStep DEF PickMigration, ReleasesOK
  <1>5. CASE Pending(r) # {}
    <2>1. PICK m \in Pending(r) :
             /\ \A k \in Pending(r) : m <= k
             /\ release' = [release EXCEPT ![r] = [pc |-> "apply", file |-> m]]
      BY <1>5 DEF PickMigration
    <2> DEFINE new == [pc |-> "apply", file |-> m]
    <2>2. m \in Nat /\ m \notin schema
      BY <1>1, <1>2 DEF Pending
    <2>3. \A k \in Migrations[r] : k <= m - 1 => k \in schema
      BY <1>1, <1>2, <2>1, <2>2 DEF Pending, Through
    <2>4. new \in ReleaseStates /\ new.pc = "apply" /\ new.file = m
      BY <2>2 DEF ReleaseStates
    <2> HIDE DEF new
    <2>5. release' = [release EXCEPT ![r] = new]
      BY <2>1 DEF new
    <2> QED BY <1>1, <1>3, <2>2, <2>3, <2>4, <2>5, HasOne, OwnReleaseStep DEF PickMigration, ReleasesOK
  <1> QED BY <1>4, <1>5

LEMMA ApplyKeepsReleases ==
    ASSUME ReleasesOK, NEW r \in Releases, ApplyMigration(r)
    PROVE  ReleasesOK'
  <1> DEFINE m == release[r].file
  <1>1. /\ HasLatch(r) /\ m \in Nat /\ journal = schema /\ m \notin schema
        /\ \A k \in Migrations[r] : k <= m - 1 => k \in schema
    BY DEF ApplyMigration, ReleasesOK, HasLatch, ReleaseStates, Through
  <1>2. Migrations[r] \subseteq Nat \ {0}
    BY MigrationAssumption
  <1>3. \A q \in Releases \ {r} : HasLatch(q) => latch' = q
    BY <1>1, HasOne
  <1> DEFINE new == [pc |-> "pick", file |-> m]
  <1>4. release' = [release EXCEPT ![r] = new]
    BY <1>1 DEF ApplyMigration, Release, ReleasesOK, ReleaseStates
  <1>5. new \in ReleaseStates /\ new.pc = "pick" /\ new.file = m
    BY <1>1 DEF ReleaseStates
  <1> HIDE DEF new
  <1>6. schema' = schema \cup {m} /\ journal' = schema' /\ latch' = latch
    BY <1>1 DEF ApplyMigration
  <1>7. \A k \in Migrations[r] : k <= m => k \in schema'
    <2> TAKE k \in Migrations[r]
    <2>1. k \in Nat /\ (k <= m => k <= m - 1 \/ k = m)
      BY <1>1, <1>2
    <2> QED BY <1>1, <1>6, <2>1
  <1> QED BY <1>1, <1>3, <1>4, <1>5, <1>6, <1>7, HasOne, OwnReleaseStep DEF ReleasesOK

LEMMA UnlatchedLeavesOthers ==
    ASSUME ReleasesOK, NEW r \in Releases, latch' = Unlatched(r)
    PROVE  latch' \in Releases \cup {Free} /\ \A q \in Releases \ {r} : HasLatch(q) => latch' = q
  BY DEF ReleasesOK, Unlatched

LEMMA OtherReleaseStepsKeep ==
    ASSUME ReleasesOK, NEW r \in Releases,
           \/ LookForDatabase(r) \/ CreateDatabase(r) \/ LockMigrations(r)
           \/ VerifySchema(r) \/ KillRelease(r)
    PROVE  ReleasesOK'
  <1> DEFINE new == [release[r] EXCEPT !.pc = release'[r].pc]
  <1>1. PICK pc \in {"create", "connect", "outrun", "pick", "ready", "incomplete", "absent", "killed"} : Release(r, pc)
    BY DEF LookForDatabase, CreateDatabase, LockMigrations, VerifySchema, KillRelease
  <1>2. release' = [release EXCEPT ![r] = new] /\ new \in ReleaseStates /\ new.pc = pc
        /\ new.file = release[r].file
    BY <1>1 DEF Release, ReleasesOK, ReleaseStates, Ended
  <1>3. schema' = schema /\ journal' = schema'
    BY DEF LookForDatabase, CreateDatabase, LockMigrations, VerifySchema, KillRelease, ReleasesOK
  <1> HIDE DEF new
  <1>4. CASE LookForDatabase(r) \/ CreateDatabase(r)
    <2>1. /\ latch' = latch /\ pc \in {"create", "connect", "absent", "outrun"}
          /\ pc \notin {"absent", "outrun"} => new.file = 0
      <3>1. latch' = latch /\ release[r].pc \in {"look", "create"}
        BY <1>4 DEF LookForDatabase, CreateDatabase
      <3>2. new.pc \in {"create", "connect", "absent", "outrun"}
        <4>1. \E to \in {"create", "connect", "absent", "outrun"} : Release(r, to)
          BY <1>4, Zenon DEF LookForDatabase, CreateDatabase
        <4>2. PICK to \in {"create", "connect", "absent", "outrun"} : Release(r, to)
          BY <4>1
        <4>3. release'[r].pc = to
          BY <4>2 DEF Release, ReleasesOK, ReleaseStates
        <4>4. release'[r].pc = new.pc
          BY <1>2 DEF ReleasesOK
        <4> QED BY <4>3, <4>4
      <3>3. new.file = 0
        BY <1>2, <3>1 DEF ReleasesOK
      <3> QED BY <1>2, <3>1, <3>2, <3>3
    <2> QED BY <1>2, <1>3, <2>1, OwnReleaseStep DEF ReleasesOK
  <1>5. CASE LockMigrations(r)
    <2>1. latch = Free /\ latch' = r /\ pc = "pick" /\ new.file = 0
      BY <1>1, <1>2, <1>5 DEF LockMigrations, Release, ReleasesOK, ReleaseStates
    <2>2. \A n \in Migrations[r] : ~(n <= 0)
      BY MigrationAssumption
    <2>3. \A q \in Releases : ~HasLatch(q)
      BY <2>1, FreeAssumption DEF ReleasesOK
    <2> QED BY <1>2, <1>3, <2>1, <2>2, <2>3, OwnReleaseStep
  <1>6. CASE VerifySchema(r)
    <2>1. latch' = Unlatched(r) /\ pc \in {"ready", "incomplete"} /\ Migrations[r] \subseteq schema
      BY <1>1, <1>2, <1>6 DEF VerifySchema, Release, ReleasesOK, ReleaseStates
    <2> QED BY <1>2, <1>3, <2>1, UnlatchedLeavesOthers, OwnReleaseStep
  <1>7. CASE KillRelease(r)
    <2>1. latch' = Unlatched(r) /\ pc = "killed"
      BY <1>1, <1>2, <1>7 DEF KillRelease, Release, ReleasesOK, ReleaseStates
    <2> QED BY <1>2, <1>3, <2>1, UnlatchedLeavesOthers, OwnReleaseStep
  <1> QED BY <1>4, <1>5, <1>6, <1>7

-----------------------------------------------------------------------------
(* A seed that has inserted nothing more leaves the others' fixtures alone,  *)
(* whatever locks it gives back.                                             *)
LEMMA SeedOver ==
    ASSUME SeedsOK, NEW s \in Seeds, NEW pc \in SeedEnded,
           seed' = [seed EXCEPT ![s].pc = pc, ![s].work = {}],
           held' = Unheld(s), UNCHANGED rows
    PROVE  SeedsOK'
  <1>1. /\ seed' \in [Seeds -> SeedStates]
        /\ seed'[s].work = {} /\ seed'[s].pc = pc
        /\ \A q \in Seeds \ {s} : seed'[q] = seed[q]
    BY DEF SeedsOK, SeedTypeOK, SeedStates
  <1>2. /\ held' \in [Codes -> Seeds \cup {Free}]
        /\ \A k \in Codes : \A q \in Seeds \ {s} : held[k] = q => held'[k] = q
    BY DEF SeedsOK, SeedTypeOK, Unheld
  <1>3. \A q \in Seeds : seed[q].tenant \in Codes /\ seed[q].provider \in Codes
    BY DEF SeedsOK, SeedTypeOK, SeedStates, Codes
  <1>4. ASSUME NEW q \in Seeds PROVE SeedOK(q)'
    <2>1. CASE q = s
      BY <1>1, <2>1 DEF SeedsOK, SeedOK, HasTenant, HasProvider, Once, Visible
    <2>2. CASE q # s
      <3>1. seed'[q] = seed[q] /\ SeedOK(q)
        BY <1>1, <2>2 DEF SeedsOK
      <3>2. ASSUME NEW x \in seed[q].work PROVE Covered(q, x)'
        BY <1>2, <2>2, <3>1 DEF SeedOK, Covered
      <3>3. Visible(q)' = Visible(q) /\ HasTenant(q)' = HasTenant(q) /\ HasProvider(q)' = HasProvider(q)
        BY <3>1 DEF Visible, HasTenant, HasProvider
      <3>4. /\ HasTenant(q)' => held'[seed'[q].tenant] = q
            /\ HasProvider(q)' => held'[seed'[q].provider] = q
        BY <1>2, <1>3, <2>2, <3>1, <3>3 DEF SeedOK
      <3>5. \A x \in seed'[q].work : Covered(q, x)'
        BY <3>1, <3>2
      <3>6. Once(Visible(q))'
        BY <3>1, <3>3 DEF SeedOK, Once, SameFixture
      <3> QED BY <3>4, <3>5, <3>6 DEF SeedOK
    <2> QED BY <2>1, <2>2
  <1> QED BY <1>1, <1>2, <1>4 DEF SeedsOK, SeedTypeOK, Once

(* What two seeds have inserted and not committed is never the same.         *)
LEMMA Apart ==
    ASSUME SeedsOK, NEW s \in Seeds, NEW q \in Seeds, s # q,
           NEW a \in seed[s].work, NEW b \in seed[q].work
    PROVE  ~SameFixture(a, b)
  <1>1. Covered(s, a) /\ Covered(q, b)
    BY DEF SeedsOK, SeedOK
  <1> QED BY <1>1 DEF Covered, SameFixture

LEMMA SeedPut ==
    ASSUME SeedTypeOK, NEW s \in Seeds, NEW new \in SeedStates, seed' = [seed EXCEPT ![s] = new]
    PROVE  /\ seed' \in [Seeds -> SeedStates] /\ seed'[s] = new
           /\ \A q \in Seeds \ {s} : seed'[q] = seed[q]
  BY DEF SeedTypeOK

LEMMA CommitKeepsSeeds ==
    ASSUME SeedsOK, NEW s \in Seeds, CommitSeed(s)
    PROVE  SeedsOK'
  <1> DEFINE new == seed[s].work
  <1>1. /\ seed' \in [Seeds -> SeedStates]
        /\ seed'[s].work = {} /\ seed'[s].pc = "seeded"
        /\ \A q \in Seeds \ {s} : seed'[q] = seed[q]
    <2> DEFINE to == [seed[s] EXCEPT !.pc = "seeded", !.work = {}]
    <2>1. SeedTypeOK /\ seed[s] \in SeedStates
      BY DEF SeedsOK, SeedTypeOK
    <2>2. to \in SeedStates /\ to.pc = "seeded" /\ to.work = {}
      BY <2>1 DEF SeedStates, SeedEnded
    <2>3. seed' = [seed EXCEPT ![s] = to]
      BY DEF CommitSeed
    <2> HIDE DEF to
    <2> QED BY <2>1, <2>2, <2>3, SeedPut
  <1>2. /\ held' \in [Codes -> Seeds \cup {Free}]
        /\ \A k \in Codes : \A q \in Seeds \ {s} : held[k] = q => held'[k] = q
    BY DEF SeedsOK, SeedTypeOK, CommitSeed, Unheld
  <1>3. \A q \in Seeds : seed[q].tenant \in Codes /\ seed[q].provider \in Codes
    BY DEF SeedsOK, SeedTypeOK, SeedStates, Codes
  <1>4. rows' = rows \cup new /\ new \subseteq Fixtures
    BY DEF SeedsOK, SeedTypeOK, SeedStates, CommitSeed
  <1>5. \A x \in new : Covered(s, x)
    BY DEF SeedsOK, SeedOK
  <1>6. Once(rows \cup new)
    BY DEF SeedsOK, SeedOK, Visible
  <1>7. ASSUME NEW q \in Seeds PROVE SeedOK(q)'
    <2>1. CASE q = s
      BY <1>1, <1>4, <1>6, <2>1 DEF SeedOK, HasTenant, HasProvider, SeedEnded, Once, Visible
    <2>2. CASE q # s
      <3>1. seed'[q] = seed[q] /\ SeedOK(q)
        BY <1>1, <2>2 DEF SeedsOK
      <3>2. ASSUME NEW x \in seed[q].work PROVE Covered(q, x)'
        BY <1>2, <2>2, <3>1 DEF SeedOK, Covered
      <3>3. Once(rows \cup new \cup seed[q].work)
        <4> SUFFICES ASSUME NEW a \in rows \cup new \cup seed[q].work,
                            NEW b \in rows \cup new \cup seed[q].work, SameFixture(a, b)
                     PROVE  a = b
          BY DEF Once
        <4>1. SameFixture(b, a)
          BY DEF SameFixture
        <4>2. CASE a \in new /\ b \in seed[q].work
          BY <2>2, <4>2, Apart
        <4>3. CASE b \in new /\ a \in seed[q].work
          BY <2>2, <4>1, <4>3, Apart
        <4> QED BY <1>6, <3>1, <4>2, <4>3 DEF SeedOK, Once, Visible
      <3> QED BY <1>2, <1>3, <1>4, <2>2, <3>1, <3>2, <3>3 DEF SeedOK, HasTenant, HasProvider, Visible
    <2> QED BY <2>1, <2>2
  <1> QED BY <1>1, <1>2, <1>4, <1>5, <1>6, <1>7 DEF SeedsOK, SeedTypeOK, Covered

LEMMA SeedMoves ==
    ASSUME SeedTypeOK, NEW s \in Seeds, NEW pc \in Kinds \cup {"commit"} \cup SeedEnded,
           NEW gain \in SUBSET Fixtures,
           seed' = [seed EXCEPT ![s].pc = pc, ![s].work = @ \cup gain]
    PROVE  /\ seed' \in [Seeds -> SeedStates]
           /\ seed'[s].pc = pc /\ seed'[s].work = seed[s].work \cup gain
           /\ seed'[s].tenant = seed[s].tenant /\ seed'[s].provider = seed[s].provider
           /\ \A q \in Seeds \ {s} : seed'[q] = seed[q]
  <1> DEFINE work == seed[s].work \cup gain
             new == [seed[s] EXCEPT !.pc = pc, !.work = work]
  <1>1. seed \in [Seeds -> SeedStates] /\ seed[s] \in SeedStates
    BY DEF SeedTypeOK
  <1>2. work \in SUBSET Fixtures
    BY <1>1 DEF SeedStates
  <1>3. seed' = [seed EXCEPT ![s] = new]
    BY <1>1
  <1> HIDE DEF work
  <1>4. /\ new \in SeedStates /\ new.pc = pc /\ new.work = work
        /\ new.tenant = seed[s].tenant /\ new.provider = seed[s].provider
    <2> DEFINE Pcs == Kinds \cup {"commit"} \cup SeedEnded
    <2>1. pc \in Pcs
      OBVIOUS
    <2>2. SeedStates = [ script : {"local", "staging"}, tenant : Tenants,
                         provider : Providers, pc : Pcs, work : SUBSET Fixtures ]
      BY Zenon DEF SeedStates
    <2> HIDE DEF Pcs
    <2> QED BY <1>1, <1>2, <2>1, <2>2
  <1> HIDE DEF new
  <1>5. new \in SeedStates
    BY <1>4
  <1>6. /\ seed' \in [Seeds -> SeedStates] /\ seed'[s] = new
        /\ \A q \in Seeds \ {s} : seed'[q] = seed[q]
    BY <1>3, <1>5, SeedPut
  <1> QED BY <1>4, <1>6 DEF work

(* A seed inserts what it does not see, for a row it has locked by then.     *)
LEMMA OwnSeedStep ==
    ASSUME SeedsOK, NEW s \in Seeds, NEW x \in Fixtures,
           NEW pc \in Kinds \cup {"commit"} \cup SeedEnded,
           NEW gain \in SUBSET {x}, gain # {} => \A y \in Visible(s) : SameFixture(y, x) => y = x,
           seed' = [seed EXCEPT ![s].pc = pc, ![s].work = @ \cup gain],
           held' \in [Codes -> Seeds \cup {Free}],
           \A k \in Codes : \A q \in Seeds : held[k] = q => held'[k] = q,
           x.by = s, x.kind = "audit" => x.owner = s,
           x.kind # "audit" => x.owner \in Codes /\ held'[x.owner] = s,
           pc \in SeedEnded \cup {"tenant"} \/ held'[seed[s].tenant] = s,
           \/ pc \in SeedEnded \cup {"tenant", "wallet", "user", "users", "provider"}
           \/ held'[seed[s].provider] = s,
           UNCHANGED rows
    PROVE  SeedsOK'
  <1>1. /\ seed' \in [Seeds -> SeedStates]
        /\ seed'[s].pc = pc /\ seed'[s].work = seed[s].work \cup gain
        /\ seed'[s].tenant = seed[s].tenant /\ seed'[s].provider = seed[s].provider
        /\ \A q \in Seeds \ {s} : seed'[q] = seed[q]
    <2>1. SeedTypeOK /\ gain \in SUBSET Fixtures
      BY Zenon DEF SeedsOK
    <2> QED BY <2>1, SeedMoves, Zenon
  <1>2. \A q \in Seeds : seed[q].tenant \in Codes /\ seed[q].provider \in Codes
    BY DEF SeedsOK, SeedTypeOK, SeedStates, Codes
  <1>3. ASSUME NEW q \in Seeds, NEW y \in seed[q].work PROVE Covered(q, y)'
    BY <1>3 DEF SeedsOK, SeedOK, Covered
  <1>4. ASSUME NEW q \in Seeds PROVE SeedOK(q)'
    <2>1. CASE q = s
      <3>1. \A y \in seed[s].work \cup gain : Covered(s, y)'
        BY <1>3 DEF Covered
      <3>2. Once(rows \cup seed[s].work \cup gain)
        <4> SUFFICES ASSUME NEW a \in Visible(s) \cup gain, NEW b \in Visible(s) \cup gain,
                            SameFixture(a, b)
                     PROVE  a = b
          BY DEF Once, Visible
        <4>1. SameFixture(b, a)
          BY DEF SameFixture
        <4> QED BY <4>1 DEF SeedsOK, SeedOK, Once
      <3>3. Visible(s)' = rows \cup seed[s].work \cup gain
        BY <1>1 DEF Visible
      <3> QED BY <1>1, <2>1, <3>1, <3>2, <3>3 DEF SeedOK, HasTenant, HasProvider
    <2>2. CASE q # s
      <3>1. seed'[q] = seed[q] /\ SeedOK(q)
        BY <1>1, <2>2 DEF SeedsOK
      <3>2. \A y \in seed[q].work : Covered(q, y)'
        BY <1>3
      <3>3. Visible(q)' = Visible(q) /\ HasTenant(q)' = HasTenant(q) /\ HasProvider(q)' = HasProvider(q)
        BY <3>1 DEF Visible, HasTenant, HasProvider
      <3>4. /\ HasTenant(q)' => held'[seed'[q].tenant] = q
            /\ HasProvider(q)' => held'[seed'[q].provider] = q
        BY <1>2, <3>1, <3>3 DEF SeedOK
      <3>5. \A y \in seed'[q].work : Covered(q, y)'
        BY <3>1, <3>2
      <3>6. Once(Visible(q))'
        BY <3>1, <3>3 DEF SeedOK, Once, SameFixture
      <3> QED BY <3>4, <3>5, <3>6 DEF SeedOK
    <2> QED BY <2>1, <2>2
  <1> QED BY <1>1, <1>4 DEF SeedsOK, SeedTypeOK

LEMMA SownKeepsSeeds ==
    ASSUME SeedsOK, NEW s \in Seeds, NEW pc \in Kinds \cup {"commit"}, NEW kind \in Kinds \ {"audit"},
           NEW owner \in Codes, Sown(s, pc, kind, owner),
           held' \in [Codes -> Seeds \cup {Free}],
           \A k \in Codes : \A q \in Seeds : held[k] = q => held'[k] = q,
           held'[owner] = s, held'[seed[s].tenant] = s,
           \/ pc \in {"tenant", "wallet", "user", "users", "provider"}
           \/ held'[seed[s].provider] = s
    PROVE  SeedsOK'
  <1> DEFINE x == Fixture(s, kind, owner)
             gain == IF \E y \in Visible(s) : SameFixture(y, x) THEN {} ELSE {x}
  <1>1. x \in Fixtures /\ x.by = s /\ x.kind = kind /\ x.owner = owner
    BY DEF SeedsOK, SeedTypeOK, SeedStates, Fixtures, Fixture, Mark
  <1>2. seed' = [seed EXCEPT ![s].pc = pc, ![s].work = @ \cup gain] /\ UNCHANGED rows
    BY DEF Sown
  <1> HIDE DEF x
  <1>3. gain \in SUBSET {x} /\ (gain # {} => \A y \in Visible(s) : ~SameFixture(y, x))
    OBVIOUS
  <1> HIDE DEF gain
  <1> QED BY <1>1, <1>2, <1>3, OwnSeedStep

(* The two statements that lock a row: of the tenant, which comes first, and *)
(* of the provider.                                                          *)
LEMMA UpsertKeepsSeeds ==
    ASSUME SeedsOK, NEW s \in Seeds, NEW pc \in Kinds, NEW kind \in {"tenant", "provider"},
           NEW owner \in Codes, Upsert(s, pc, kind, owner),
           kind = "tenant" => owner = seed[s].tenant /\ pc \in {"wallet"},
           kind = "provider" => owner = seed[s].provider
    PROVE  SeedsOK'
  <1>1. /\ held' \in [Codes -> Seeds \cup {Free}] /\ held'[owner] = s
        /\ \A k \in Codes : \A q \in Seeds : held[k] = q => held'[k] = q
    BY FreeAssumption DEF SeedsOK, SeedTypeOK, Upsert
  <1>2. Sown(s, pc, kind, owner) /\ seed[s].pc = kind
    BY DEF Upsert, Sown
  <1>3. seed[s].tenant \in Codes
    BY DEF SeedsOK, SeedTypeOK, SeedStates, Codes
  <1>4. held'[seed[s].tenant] = s
    BY <1>1, <1>2, <1>3 DEF SeedsOK, SeedOK, HasTenant, SeedEnded
  <1>5. kind \in Kinds \ {"audit"} /\ pc \in Kinds \cup {"commit"}
    BY DEF Kinds
  <1>6. pc \in {"tenant", "wallet", "user", "users", "provider"} \/ held'[seed[s].provider] = s
    BY <1>1
  <1> QED BY <1>1, <1>2, <1>4, <1>5, <1>6, SownKeepsSeeds

(* The others: the rows they need are locked already.                        *)
LEMMA EnsureKeepsSeeds ==
    ASSUME SeedsOK, NEW s \in Seeds, NEW pc \in Kinds \cup {"commit"},
           NEW kind \in Kinds \ {"tenant", "provider", "audit"}, NEW owner, Ensure(s, pc, kind, owner),
           \/ /\ owner = seed[s].tenant
              /\ kind \in {"wallet", "user", "users"} => pc \in {"user", "users", "provider"}
           \/ owner = seed[s].provider /\ kind \in {"sell", "cost"}
    PROVE  SeedsOK'
  <1>1. Sown(s, pc, kind, owner) /\ seed[s].pc = kind /\ held' = held
    BY DEF Ensure, Sown
  <1>2. seed[s].tenant \in Codes /\ seed[s].provider \in Codes
    BY DEF SeedsOK, SeedTypeOK, SeedStates, Codes
  <1>3. kind \notin SeedEnded
    BY DEF Kinds, SeedEnded
  <1>4. held[seed[s].tenant] = s
    BY <1>1, <1>3 DEF SeedsOK, SeedOK, HasTenant
  <1>5. kind \notin {"wallet", "user", "users"} => held[seed[s].provider] = s
    BY <1>1, <1>3 DEF SeedsOK, SeedOK, HasTenant, HasProvider
  <1>6. held \in [Codes -> Seeds \cup {Free}]
    BY DEF SeedsOK, SeedTypeOK
  <1>7. owner \in Codes /\ held'[owner] = s
    BY <1>1, <1>2, <1>4, <1>5
  <1>8. pc \in {"tenant", "wallet", "user", "users", "provider"} \/ held'[seed[s].provider] = s
    BY <1>1, <1>5
  <1> QED BY <1>1, <1>4, <1>6, <1>7, <1>8, SownKeepsSeeds

LEMMA AuditKeepsSeeds ==
    ASSUME SeedsOK, NEW s \in Seeds, StagingAudit(s)
    PROVE  SeedsOK'
  <1> DEFINE x == Fixture(s, "audit", s)
  <1>1. x \in Fixtures /\ x.by = s /\ x.kind = "audit" /\ x.owner = s
    BY DEF SeedsOK, SeedTypeOK, SeedStates, Fixtures, Fixture, Mark, Kinds
  <1>2. seed' = [seed EXCEPT ![s].pc = "commit", ![s].work = @ \cup {x}] /\ UNCHANGED <<rows, held>>
    BY DEF StagingAudit
  <1>3. \A y \in Fixtures : SameFixture(y, x) /\ y.by = s => y = x
    BY <1>1 DEF SameFixture, Fixtures
  <1>4. ASSUME NEW y \in Visible(s), SameFixture(y, x) PROVE y = x
    <2>1. y \in Fixtures
      BY <1>4 DEF SeedsOK, SeedTypeOK, SeedStates, Visible
    <2>2. y.by = s
      BY <1>1, <1>4 DEF SeedsOK, SeedOK, Covered, Visible, SameFixture
    <2> QED BY <1>3, <1>4, <2>1, <2>2
  <1>5. held \in [Codes -> Seeds \cup {Free}]
    BY DEF SeedsOK, SeedTypeOK
  <1>6. held[seed[s].tenant] = s /\ held[seed[s].provider] = s
    BY DEF SeedsOK, SeedOK, HasTenant, HasProvider, SeedEnded, StagingAudit
  <1> HIDE DEF x
  <1> QED BY <1>1, <1>2, <1>4, <1>5, <1>6, OwnSeedStep

LEMMA LocalKeepsSeeds ==
    ASSUME SeedsOK, NEW s \in Seeds, LocalStep(s)
    PROVE  SeedsOK'
  <1>1. seed[s].tenant \in Codes /\ seed[s].provider \in Codes
    BY DEF SeedsOK, SeedTypeOK, SeedStates, Codes
  <1>2. CASE LocalTenant(s) \/ LocalProvider(s)
    BY <1>1, <1>2, UpsertKeepsSeeds DEF LocalTenant, LocalProvider, UpsertTenant, Kinds
  <1>3. CASE LocalWallet(s) \/ LocalUser(s)
    BY <1>3, EnsureKeepsSeeds DEF LocalWallet, LocalUser, UpsertOwned, Kinds
  <1>4. CASE LocalSender(s) \/ LocalTemplate(s) \/ LocalGroup(s)
    BY <1>4, EnsureKeepsSeeds DEF LocalSender, LocalTemplate, LocalGroup, UpsertOwned, Kinds
  <1>5. CASE LocalContact(s) \/ LocalMember(s)
    BY <1>5, EnsureKeepsSeeds DEF LocalContact, LocalMember, UpsertOwned, Kinds
  <1>6. CASE LocalRoute(s) \/ LocalPrices(s)
    BY <1>6, EnsureKeepsSeeds DEF LocalRoute, LocalPrices, Kinds
  <1> QED BY <1>2, <1>3, <1>4, <1>5, <1>6 DEF LocalStep

LEMMA StagingKeepsSeeds ==
    ASSUME SeedsOK, NEW s \in Seeds, StagingStep(s)
    PROVE  SeedsOK'
  <1>1. seed[s].tenant \in Codes /\ seed[s].provider \in Codes
    BY DEF SeedsOK, SeedTypeOK, SeedStates, Codes
  <1>2. CASE StagingTenant(s) \/ StagingProvider(s)
    BY <1>1, <1>2, UpsertKeepsSeeds DEF StagingTenant, StagingProvider, UpsertTenant, Kinds
  <1>3. CASE StagingWallet(s) \/ StagingUsers(s)
    BY <1>3, EnsureKeepsSeeds DEF StagingWallet, StagingUsers, UpsertOwned, Kinds
  <1>4. CASE StagingSender(s) \/ StagingTemplate(s) \/ StagingGroup(s)
    BY <1>4, EnsureKeepsSeeds DEF StagingSender, StagingTemplate, StagingGroup, UpsertOwned, Kinds
  <1>5. CASE StagingContact(s) \/ StagingMember(s)
    BY <1>5, EnsureKeepsSeeds DEF StagingContact, StagingMember, UpsertOwned, Kinds
  <1>6. CASE StagingRoute(s) \/ StagingPrices(s)
    BY <1>6, EnsureKeepsSeeds DEF StagingRoute, StagingPrices, Kinds
  <1>7. CASE StagingAudit(s)
    BY <1>7, AuditKeepsSeeds
  <1> QED BY <1>2, <1>3, <1>4, <1>5, <1>6, <1>7 DEF StagingStep

(* A seed started before the first migration ends with nothing inserted.     *)
LEMMA MissingKeepsSeeds ==
    ASSUME SeedsOK, NEW s \in Seeds, SchemaMissing(s)
    PROVE  SeedsOK'
  <1> DEFINE x == Fixture(s, "audit", s)
             gain == {}
             pc == "too early"
  <1>1. x \in Fixtures /\ x.by = s /\ x.kind = "audit" /\ x.owner = s
    BY DEF SeedsOK, SeedTypeOK, SeedStates, Fixtures, Fixture, Mark, Kinds
  <1>2. held \in [Codes -> Seeds \cup {Free}] /\ seed \in [Seeds -> SeedStates]
    BY DEF SeedsOK, SeedTypeOK
  <1>3. seed' = [seed EXCEPT ![s].pc = pc, ![s].work = @ \cup gain] /\ UNCHANGED <<rows, held>>
    BY <1>2 DEF SchemaMissing, SeedStates
  <1>4. pc \in SeedEnded /\ gain \in SUBSET {x} /\ ~(gain # {})
    BY DEF SeedEnded
  <1>5. held' \in [Codes -> Seeds \cup {Free}] /\ \A k \in Codes : \A q \in Seeds : held[k] = q => held'[k] = q
    BY <1>2, <1>3
  <1> HIDE DEF x, gain, pc
  <1> QED BY <1>1, <1>3, <1>4, <1>5, OwnSeedStep

LEMMA DeployStepKeeps == DeployIInv /\ [DeployNext]_deployVars => DeployIInv'
  <1> SUFFICES ASSUME DeployIInv, [DeployNext]_deployVars PROVE DeployIInv'
    OBVIOUS
  <1> USE DEF DeployIInv
  <1>1. ASSUME NEW r \in Releases, ReleaseStep(r) \/ KillRelease(r) PROVE DeployIInv'
    <2>1. UNCHANGED Seeding
      BY <1>1 DEF ReleaseStep, LookForDatabase, CreateDatabase, LockMigrations, PickMigration,
                  ApplyMigration, VerifySchema, KillRelease
    <2>2. SeedsOK'
      BY <2>1 DEF Seeding, SeedsOK, SeedTypeOK, SeedOK, HasTenant, HasProvider, Covered, Once, Visible
    <2>3. ReleasesOK'
      BY <1>1, PickKeepsReleases, ApplyKeepsReleases, OtherReleaseStepsKeep DEF ReleaseStep
    <2> QED BY <2>2, <2>3
  <1>2. ASSUME NEW s \in Seeds, SeedStep(s) \/ KillSeed(s) PROVE DeployIInv'
    <2>1. UNCHANGED Migrating
      BY <1>2 DEF SeedStep, KillSeed, SchemaMissing, CommitSeed, LocalStep, StagingStep,
           LocalTenant, LocalWallet, LocalUser, LocalProvider, LocalSender, LocalTemplate, LocalGroup,
           LocalContact, LocalMember, LocalRoute, LocalPrices, StagingTenant, StagingWallet,
           StagingUsers, StagingProvider, StagingSender, StagingTemplate, StagingGroup,
           StagingContact, StagingMember, StagingRoute, StagingPrices, StagingAudit,
           UpsertTenant, UpsertOwned, Upsert, Ensure, Sown
    <2>2. ReleasesOK'
      BY <2>1 DEF Migrating, ReleasesOK, HasLatch, Through, NoneClashes
    <2>3. CASE KillSeed(s)
      BY <2>2, <2>3, SeedOver DEF KillSeed, SeedEnded
    <2>4. CASE SeedStep(s)
      BY <2>2, <2>4, MissingKeepsSeeds, CommitKeepsSeeds, LocalKeepsSeeds, StagingKeepsSeeds DEF SeedStep
    <2> QED BY <1>2, <2>3, <2>4
  <1>3. CASE UNCHANGED deployVars
    BY <1>3 DEF deployVars, ReleasesOK, HasLatch, Through, NoneClashes, SeedsOK, SeedTypeOK, SeedOK,
                HasTenant, HasProvider, Covered, Once, Visible
  <1> QED BY <1>1, <1>2, <1>3 DEF DeployNext

(* Releases and seeds (migration-runner.mjs, seed-local-admin.mjs and        *)
(* seed-staging-test-users.mjs), any number at a time, with any migrations,  *)
(* killed anywhere: nothing is seeded twice, a release that reports the      *)
(* database ready has its migrations in it, and none fails on what another   *)
(* has applied.                                                              *)
THEOREM DeploymentSoundHolds == DeploySpec => []DeploymentSound
  <1>1. DeployIInv => DeploymentSound
    BY DEF DeployIInv, ReleasesOK, SeedsOK, Once, DeploymentSound, FixturesOnce, ReadyMeansMigrated
  <1> QED BY <1>1, DeployInitHolds, DeployStepKeeps, PTL DEF DeploySpec
=============================================================================
