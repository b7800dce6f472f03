--------------------------- MODULE PlatformProofs ---------------------------
(***************************************************************************)
(* Theorems about who may do what, and which way a message takes:          *)
(* sessions, API keys, routing.                                            *)
(***************************************************************************)
EXTENDS Sessions, ApiKeys, Routing, TLAPS

-----------------------------------------------------------------------------
(* Theorems about Sessions for any users, tenants, roles, tabs and lives   *)
(* of the tokens.                                                          *)

ClaimSet == [user : Users, tenant : SessionTenants, role : Roles, until : Nat]

CallSet == [kind : {"session", "confirm"}, claims : ClaimSet]

AuthTypeOK ==
    /\ time \in Nat \ {0}
    /\ account \in [Users -> [role : Roles, active : BOOLEAN]]
    /\ open \subseteq SessionTenants
    /\ cookie \in ClaimSet \cup {NoToken}
    /\ op \in [Tabs -> CallSet \cup {NoToken}]
    /\ lastHeld \in [Users -> [Roles -> Nat]]
    /\ confirmed \in [Users -> [SessionTenants -> Nat]]

(* No record is later than now, and what an active account has is from now.*)
Recorded ==
    /\ \A u \in Users, r \in Roles : lastHeld[u][r] <= time
    /\ \A u \in Users, t \in SessionTenants : confirmed[u][t] <= time
    /\ \A u \in Users : account[u].active => lastHeld[u][account[u].role] = time

(* The rights of a session token: those the account had when it was signed.*)
Rightful(c) == c # NoToken => c.until <= lastHeld[c.user][c.role] + SessionLife

(* What a call under way brings back.                                      *)
Founded(call) ==
    call # NoToken =>
        /\ call.kind = "session" => lastHeld[call.claims.user][call.claims.role] = time
        /\ call.kind = "confirm" =>
             /\ confirmed[call.claims.user][call.claims.tenant] > 0
             /\ call.claims.until <= confirmed[call.claims.user][call.claims.tenant] + ConfirmLife

AuthIInv == AuthTypeOK /\ Recorded /\ Rightful(cookie) /\ (\A b \in Tabs : Founded(op[b]))

LEMMA AuthInitHolds == AuthInit => AuthIInv
  <1> SUFFICES ASSUME AuthInit PROVE AuthIInv
    OBVIOUS
  <1>1. lastHeld \in [Users -> [Roles -> Nat]] /\ confirmed \in [Users -> [SessionTenants -> Nat]]
    BY DEF AuthInit
  <1>2. \A u \in Users : account[u].role \in Roles
    BY DEF AuthInit
  <1>3. account \in [Users -> [role : Roles, active : BOOLEAN]]
    BY DEF AuthInit
  <1>4. AuthTypeOK
    BY <1>1, <1>3 DEF AuthInit, AuthTypeOK
  <1>5. Recorded
    <2>1. \A u \in Users, r \in Roles : lastHeld[u][r] = IF account[u].role = r THEN 1 ELSE 0
      BY DEF AuthInit
    <2>2. \A u \in Users, t \in SessionTenants : confirmed[u][t] = 0
      BY DEF AuthInit
    <2>3. time = 1
      BY DEF AuthInit
    <2> QED BY <1>2, <2>1, <2>2, <2>3 DEF Recorded
  <1> QED BY <1>4, <1>5 DEF AuthInit, AuthIInv, Rightful, Founded

(* A step that leaves the clock and the records.                           *)
LEMMA TabKeeps ==
    ASSUME AuthIInv, UNCHANGED <<World, confirmed>>, NEW b \in Tabs,
           NEW call \in CallSet \cup {NoToken}, op' = [op EXCEPT ![b] = call], Founded(call),
           cookie' \in ClaimSet \cup {NoToken}, Rightful(cookie')
    PROVE  AuthIInv'
  <1>1. AuthTypeOK'
    BY DEF AuthIInv, AuthTypeOK, World
  <1>2. Recorded' /\ Rightful(cookie)'
    BY DEF AuthIInv, AuthTypeOK, Recorded, Rightful, World
  <1>3. \A d \in Tabs : op'[d] = IF d = b THEN call ELSE op[d]
    BY DEF AuthIInv, AuthTypeOK
  <1>4. \A d \in Tabs : Founded(op'[d])
    BY <1>3 DEF AuthIInv
  <1>5. \A d \in Tabs : Founded(op[d])'
    BY <1>4 DEF World, Founded
  <1> QED BY <1>1, <1>2, <1>5 DEF AuthIInv

LEMMA NoTokenFounded == Founded(NoToken) /\ Rightful(NoToken)
  BY DEF Founded, Rightful

LEMMA SignedInFacts ==
    ASSUME AuthIInv, SignedIn
    PROVE  /\ cookie \in ClaimSet /\ cookie.user \in Users /\ cookie.role \in Roles
           /\ cookie.tenant \in SessionTenants
  BY DEF AuthIInv, AuthTypeOK, SignedIn, ClaimSet

(* A token that is signed for an active account.                           *)
LEMMA SignFounded ==
    ASSUME AuthIInv, NEW u \in Users, account[u].active, NEW t \in SessionTenants
    PROVE  LET call == [kind |-> "session", claims |-> Claims(u, t, account[u].role, 0)]
           IN call \in CallSet /\ Founded(call)
  <1>1. account[u].role \in Roles /\ lastHeld[u][account[u].role] = time
    BY DEF AuthIInv, AuthTypeOK, Recorded
  <1> QED BY <1>1 DEF CallSet, ClaimSet, Claims, Founded

LEMMA AuthStepKeeps ==
    ASSUME AuthIInv, [AuthNext]_authVars
    PROVE  AuthIInv'
  <1> USE DEF Calls
  <1>1. CASE UNCHANGED authVars
    BY <1>1 DEF authVars, AuthIInv, AuthTypeOK, Recorded, Rightful, Founded
  <1>2. ASSUME NEW b \in Tabs, NEW u \in Users, Login(b, u) PROVE AuthIInv'
    <2>1. Home[u] \in SessionTenants
      BY HomeAssumption
    <2> QED BY <1>2, <2>1, SignFounded, TabKeeps DEF Login, AuthIInv, AuthTypeOK
  <1>3. ASSUME NEW b \in Tabs, NEW t \in SessionTenants, SwitchTenant(b, t) PROVE AuthIInv'
    <2>1. cookie.user \in Users /\ account[cookie.user].active
      BY <1>3, SignedInFacts DEF SwitchTenant
    <2>2. op' = [op EXCEPT ![b] = [kind |-> "session",
                    claims |-> Claims(cookie.user, t, account[cookie.user].role, 0)]]
      BY <1>3 DEF SwitchTenant, RoleOf
    <2>3. UNCHANGED <<World, cookie, confirmed>>
      BY <1>3 DEF SwitchTenant
    <2> QED BY <2>1, <2>2, <2>3, SignFounded, TabKeeps DEF AuthIInv, AuthTypeOK
  <1>4. ASSUME NEW b \in Tabs, SetCookie(b) PROVE AuthIInv'
    <2> DEFINE c == op[b].claims
               d == [c EXCEPT !.until = time + SessionLife]
    <2>1. /\ c \in ClaimSet /\ time \in Nat
          /\ lastHeld[c.user][c.role] = time
      BY <1>4 DEF SetCookie, AuthIInv, AuthTypeOK, Founded, CallSet
    <2>2. /\ d \in ClaimSet /\ d.user = c.user /\ d.role = c.role
          /\ d.until = time + SessionLife
      BY <2>1, LifeAssumption DEF ClaimSet
    <2>3. cookie' = d /\ op' = [op EXCEPT ![b] = NoToken] /\ UNCHANGED <<World, confirmed>>
      BY <1>4 DEF SetCookie
    <2> HIDE DEF c, d
    <2>4. Rightful(d)
      BY <2>1, <2>2, LifeAssumption DEF Rightful
    <2> QED BY <2>2, <2>3, <2>4, NoTokenFounded, TabKeeps
  <1>5. ASSUME NEW b \in Tabs, ShowPage(b) PROVE AuthIInv'
    BY <1>5 DEF ShowPage, World, AuthIInv, AuthTypeOK, Recorded, Rightful, Founded
  <1>6. ASSUME NEW b \in Tabs, Reauthenticate(b) PROVE AuthIInv'
    <2> DEFINE u == cookie.user
               t == cookie.tenant
               c == [cookie EXCEPT !.until = time + ConfirmLife]
               call == [kind |-> "confirm", claims |-> c]
    <2>1. cookie \in ClaimSet /\ u \in Users /\ t \in SessionTenants /\ time \in Nat \ {0}
      BY <1>6, SignedInFacts DEF Reauthenticate, AuthIInv, AuthTypeOK
    <2>2. /\ c \in ClaimSet /\ c.user = u /\ c.tenant = t /\ c.until = time + ConfirmLife
      BY <2>1, LifeAssumption DEF ClaimSet
    <2>3. /\ op' = [op EXCEPT ![b] = call]
          /\ confirmed' = [confirmed EXCEPT ![u][t] = time]
          /\ UNCHANGED <<World, cookie>>
      BY <1>6 DEF Reauthenticate
    <2>4. call \in CallSet /\ call.kind = "confirm" /\ call.claims = c
      BY <2>2 DEF CallSet
    <2> HIDE DEF u, t, c, call
    <2>5. confirmed' \in [Users -> [SessionTenants -> Nat]]
      BY <2>1, <2>3 DEF AuthIInv, AuthTypeOK
    <2>6. AuthTypeOK'
      BY <2>3, <2>4, <2>5 DEF AuthIInv, AuthTypeOK, World
    <2>7. \A v \in Users, s \in SessionTenants :
             /\ confirmed'[v][s] = IF v = u /\ s = t THEN time ELSE confirmed[v][s]
             /\ confirmed[v][s] <= confirmed'[v][s] /\ confirmed'[v][s] <= time
             /\ confirmed[v][s] \in Nat /\ confirmed'[v][s] \in Nat
      BY <2>1, <2>3 DEF AuthIInv, AuthTypeOK, Recorded
    <2>8. Recorded' /\ Rightful(cookie)'
      BY <2>3, <2>7 DEF AuthIInv, AuthTypeOK, Recorded, Rightful, World
    <2>9. ASSUME NEW e \in Tabs PROVE Founded(op[e])'
      <3>1. CASE e = b
        <4>1. op'[e] = call
          BY <2>3, <3>1 DEF AuthIInv, AuthTypeOK
        <4>2. confirmed'[u][t] = time
          BY <2>1, <2>7
        <4> QED BY <2>1, <2>2, <2>4, <4>1, <4>2, LifeAssumption DEF Founded
      <3>2. CASE e # b
        <4>1. op'[e] = op[e] /\ op[e] \in CallSet \cup {NoToken} /\ Founded(op[e])
          BY <2>3, <3>2 DEF AuthIInv, AuthTypeOK
        <4>2. UNCHANGED <<time, lastHeld>>
          BY <2>3 DEF World
        <4>3. CASE op[e] # NoToken
          <5>1. /\ op[e].claims.user \in Users /\ op[e].claims.tenant \in SessionTenants
                /\ op[e].claims.until \in Nat
            BY <4>1, <4>3 DEF CallSet, ClaimSet
          <5>2. /\ confirmed[op[e].claims.user][op[e].claims.tenant]
                      <= confirmed'[op[e].claims.user][op[e].claims.tenant]
                /\ confirmed[op[e].claims.user][op[e].claims.tenant] \in Nat
                /\ confirmed'[op[e].claims.user][op[e].claims.tenant] \in Nat
            BY <2>7, <5>1
          <5> DEFINE k == op[e].claims
                     x == confirmed[k.user][k.tenant]
                     y == confirmed'[k.user][k.tenant]
          <5>3. /\ op[e].kind = "session" => lastHeld[k.user][k.role] = time
                /\ op[e].kind = "confirm" => x > 0 /\ k.until <= x + ConfirmLife
            BY <4>1, <4>3 DEF Founded
          <5>4. op[e].kind = "confirm" => y > 0 /\ k.until <= y + ConfirmLife
            <6> HIDE DEF x, y, k
            <6> QED BY <5>1, <5>2, <5>3, LifeAssumption DEF x, y, k
          <5> QED BY <4>1, <4>2, <5>3, <5>4 DEF Founded
        <4> QED BY <4>1, <4>3 DEF Founded
      <3> QED BY <3>1, <3>2
    <2> QED BY <2>6, <2>8, <2>9 DEF AuthIInv
  <1>7. ASSUME NEW b \in Tabs, Act(b) \/ RefuseRole(b) \/ Refuse(b) PROVE AuthIInv'
    <2>1. /\ op' = [op EXCEPT ![b] = NoToken] /\ UNCHANGED <<World, confirmed>>
          /\ cookie' \in {cookie, NoToken}
      BY <1>7 DEF Act, RefuseRole, Refuse
    <2>2. cookie' \in ClaimSet \cup {NoToken} /\ Rightful(cookie')
      BY <2>1, NoTokenFounded DEF AuthIInv, AuthTypeOK
    <2> QED BY <2>1, <2>2, NoTokenFounded, TabKeeps
  <1>8. ASSUME NEW b \in Tabs, Logout(b) PROVE AuthIInv'
    BY <1>8 DEF Logout, World, AuthIInv, AuthTypeOK, Recorded, Rightful, Founded
  <1>9. CASE ChangeAccount
    <2>1. PICK u \in Users, role \in Roles, active \in BOOLEAN :
             /\ account' = [account EXCEPT ![u] = [role |-> role, active |-> active]]
             /\ lastHeld' = IF active THEN [lastHeld EXCEPT ![u][role] = time] ELSE lastHeld
      BY <1>9 DEF ChangeAccount
    <2>2. UNCHANGED <<time, open, cookie, op, confirmed>>
      BY <1>9 DEF ChangeAccount
    <2>3. AuthTypeOK'
      BY <2>1, <2>2 DEF AuthIInv, AuthTypeOK
    <2>4. \A v \in Users, r \in Roles :
             lastHeld'[v][r] \in {lastHeld[v][r], time} /\ lastHeld[v][r] \in Nat
      BY <2>1 DEF AuthIInv, AuthTypeOK
    <2>5. \A v \in Users : account'[v].active => lastHeld'[v][account'[v].role] = time
      BY <2>1 DEF AuthIInv, AuthTypeOK, Recorded
    <2>6. Recorded'
      <3>1. time \in Nat /\ \A v \in Users, r \in Roles : lastHeld[v][r] <= time
        BY DEF AuthIInv, AuthTypeOK, Recorded
      <3>2. ASSUME NEW v \in Users, NEW r \in Roles PROVE lastHeld'[v][r] <= time
        <4>1. lastHeld'[v][r] = lastHeld[v][r] \/ lastHeld'[v][r] = time
          BY <2>4
        <4> QED BY <3>1, <4>1
      <3> QED BY <2>2, <2>5, <3>2 DEF AuthIInv, Recorded
    <2>7. \A v \in Users, r \in Roles :
             /\ lastHeld[v][r] <= lastHeld'[v][r] /\ lastHeld'[v][r] \in Nat
             /\ lastHeld[v][r] = time => lastHeld'[v][r] = time
      BY <2>4 DEF AuthIInv, AuthTypeOK, Recorded
    <2>8. Rightful(cookie)'
      BY <2>2, <2>7, <2>4, LifeAssumption DEF AuthIInv, AuthTypeOK, Rightful, ClaimSet
    <2>9. ASSUME NEW e \in Tabs PROVE Founded(op[e])'
      <3>1. op[e] \in CallSet \cup {NoToken} /\ Founded(op[e])
        BY DEF AuthIInv, AuthTypeOK
      <3>2. op[e] # NoToken => op[e].claims.user \in Users /\ op[e].claims.role \in Roles
        BY <3>1 DEF CallSet, ClaimSet
      <3> QED BY <2>2, <2>7, <3>1, <3>2 DEF Founded
    <2> QED BY <2>3, <2>6, <2>8, <2>9 DEF AuthIInv
  <1>10. CASE CloseTenant
    BY <1>10 DEF CloseTenant, AuthIInv, AuthTypeOK, Recorded, Rightful, Founded
  <1>11. CASE Tick
    <2>1. /\ time' = time + 1 /\ UNCHANGED <<account, open, cookie, op, confirmed>>
          /\ \A b \in Tabs : op[b] # NoToken => op[b].kind = "confirm"
          /\ lastHeld' = [u \in Users |-> [r \in Roles |->
                IF account[u].active /\ account[u].role = r THEN time + 1 ELSE lastHeld[u][r]]]
      BY <1>11 DEF Tick
    <2>2. AuthTypeOK'
      BY <2>1 DEF AuthIInv, AuthTypeOK
    <2>3. \A v \in Users, r \in Roles :
             /\ lastHeld[v][r] \in Nat /\ lastHeld[v][r] <= time
             /\ lastHeld'[v][r] = IF account[v].active /\ account[v].role = r THEN time + 1
                                  ELSE lastHeld[v][r]
      BY <2>1 DEF AuthIInv, AuthTypeOK, Recorded
    <2>4. Recorded'
      BY <2>1, <2>3 DEF AuthIInv, AuthTypeOK, Recorded
    <2>5. Rightful(cookie)'
      BY <2>1, <2>3, LifeAssumption DEF AuthIInv, AuthTypeOK, Rightful, ClaimSet
    <2>6. ASSUME NEW e \in Tabs PROVE Founded(op[e])'
      BY <2>1 DEF AuthIInv, AuthTypeOK, Founded
    <2> QED BY <2>2, <2>4, <2>5, <2>6 DEF AuthIInv
  <1>12. ASSUME NEW b \in Tabs, TabStep(b) PROVE AuthIInv'
    BY <1>2, <1>3, <1>4, <1>5, <1>6, <1>7, <1>8, <1>12 DEF TabStep
  <1> QED BY <1>1, <1>9, <1>10, <1>11, <1>12 DEF AuthNext

(* A session token never outlives its rights by more than its life, and a  *)
(* call under way brings back only what the account had, or a confirmation *)
(* that was given: login, switchTenant and reauthenticate sign nothing     *)
(* else.                                                                   *)
THEOREM AuthInvariant == AuthSpec => []AuthIInv
  <1> QED BY AuthInitHolds, AuthStepKeeps, PTL DEF AuthSpec

-----------------------------------------------------------------------------
(* No right is older than a session's life, although no guard looks the    *)
(* account up and a switch of tenants starts the life again (login,        *)
(* switchTenant, JwtAuthGuard).                                            *)
THEOREM RightsExpire == AuthSpec => []RightsNotOlderThanSession
  <1>1. AuthIInv => RightsNotOlderThanSession
    BY LifeAssumption DEF AuthIInv, Rightful, RightsNotOlderThanSession, SignedIn, AuthTypeOK, ClaimSet
  <1> QED BY <1>1, AuthInvariant, PTL

(* The dangerous action follows a confirmation of the same user, for the   *)
(* same tenant, of the last five minutes, whatever the other tabs do       *)
(* (reauthenticate, ReauthGuard).                                          *)
THEOREM ActsAreConfirmed == AuthSpec => DangerIsConfirmed
  <1> DEFINE Fresh == /\ confirmed[cookie.user][cookie.tenant] > 0
                      /\ time < confirmed[cookie.user][cookie.tenant] + ConfirmLife
  <1>1. ASSUME AuthIInv, NEW b \in Tabs, Act(b) PROVE Fresh
    <2>1. op[b] # NoToken /\ op[b].kind = "confirm" /\ op[b] \in CallSet /\ Founded(op[b])
      BY <1>1 DEF Act, AuthIInv, AuthTypeOK
    <2>2. /\ op[b].claims.user = cookie.user /\ op[b].claims.tenant = cookie.tenant
          /\ time < op[b].claims.until
      BY <1>1 DEF Act, Matches
    <2>3. /\ cookie.user \in Users /\ cookie.tenant \in SessionTenants
          /\ op[b].claims.until \in Nat
      BY <2>1, <2>2 DEF CallSet, ClaimSet
    <2>4. confirmed[cookie.user][cookie.tenant] \in Nat /\ time \in Nat
      BY <1>1, <2>3 DEF AuthIInv, AuthTypeOK
    <2> QED BY <2>1, <2>2, <2>3, <2>4, LifeAssumption DEF Founded
  <1>2. ASSUME AuthIInv PROVE [\A b \in Tabs : Act(b) => Fresh]_authVars
    BY <1>1, <1>2
  <1> QED BY <1>2, AuthInvariant, PTL DEF DangerIsConfirmed

-----------------------------------------------------------------------------
(* Theorems about ApiKeys for any number of keys, owners and calls.        *)

States == {"free", "on", "off"}

KeyRow == [state : States, of : ApiKeyIds \cup {Absent}, expires : Nat]

Call == [ pc : {"none", "read", "check", "touch", "in", "refused"},
          key : ApiKeyIds \cup {Absent}, late : BOOLEAN, row : KeyRow ]

KeyTypeOK ==
    /\ apiKey \in [ApiKeyIds -> KeyRow]
    /\ rotating \in [Owners -> ApiKeyIds \cup {Absent}]
    /\ caller \in [Callers -> Call]
    /\ clock \in Nat

(* A free row replaces nothing and is being rotated by nobody.             *)
Issued ==
    \A o \in Owners : rotating[o] # Absent => apiKey[rotating[o]].state # "free"

(* A call that came late goes on with a key that is off, and found it off. *)
LateCalls ==
    \A c \in Callers :
        /\ caller[c].pc # "none" => caller[c].key \in ApiKeyIds
        /\ caller[c].pc # "none" /\ caller[c].late => apiKey[caller[c].key].state = "off"
        /\ caller[c].pc = "check" /\ caller[c].late => caller[c].row.state = "off"

KeyIInv == KeyTypeOK /\ Issued /\ LateCalls /\ KeysObeyed

LEMMA KeyInitHolds == KeyInit => KeyIInv
  BY DEF KeyInit, KeyIInv, KeyTypeOK, KeyRow, Call, States, Unissued, Waiting, Issued, LateCalls,
         KeysObeyed, ReplacedKeyIsOff, RevokedKeyBlocks

(* A step that leaves every row that is off off, and frees none.           *)
LEMMA OffStaysOff ==
    ASSUME KeyIInv, KeyTypeOK', UNCHANGED caller,
           \A k \in ApiKeyIds : apiKey[k].state = "off" => apiKey'[k].state = "off"
    PROVE  LateCalls' /\ RevokedKeyBlocks'
  BY DEF KeyIInv, KeyTypeOK, KeyRow, Call, LateCalls, KeysObeyed, RevokedKeyBlocks

LEMMA CallKeeps ==
    ASSUME KeyIInv, NEW c \in Callers,
           Arrive(c) \/ ReadKey(c) \/ CheckKey(c) \/ TouchKey(c) \/ Answer(c)
    PROVE  KeyIInv'
  <1>1. UNCHANGED <<apiKey, rotating, clock>>
    BY DEF Arrive, ReadKey, CheckKey, TouchKey, Answer
  <1>2. Issued' /\ ReplacedKeyIsOff'
    BY <1>1 DEF KeyIInv, Issued, KeysObeyed, ReplacedKeyIsOff
  <1>3. PICK call \in Call :
          /\ caller' = [caller EXCEPT ![c] = call]
          /\ call.pc # "none" => call.key \in ApiKeyIds
          /\ call.pc # "none" /\ call.late => apiKey[call.key].state = "off"
          /\ call.pc = "check" /\ call.late => call.row.state = "off"
          /\ call.pc \in {"touch", "in"} => ~call.late
    <2>1. CASE Arrive(c)
      <3>1. PICK k \in ApiKeyIds \ Unused :
               caller' = [caller EXCEPT ![c] =
                  [pc |-> "read", key |-> k, late |-> apiKey[k].state = "off", row |-> Unissued]]
        BY <2>1 DEF Arrive
      <3>2. [pc |-> "read", key |-> k, late |-> apiKey[k].state = "off", row |-> Unissued] \in Call
        BY <3>1 DEF Call, KeyRow, States, Unissued
      <3> QED BY <3>1, <3>2
    <2>2. CASE ReadKey(c)
      <3> DEFINE call == [caller[c] EXCEPT !.pc = "check", !.row = apiKey[caller[c].key]]
      <3>1. caller[c] \in Call /\ caller[c].pc = "read" /\ caller[c].key \in ApiKeyIds
        BY <2>2 DEF ReadKey, KeyIInv, KeyTypeOK, LateCalls
      <3>2. apiKey[caller[c].key] \in KeyRow
        BY <3>1 DEF KeyIInv, KeyTypeOK
      <3>3. call \in Call /\ call.key = caller[c].key /\ call.late = caller[c].late
            /\ call.row = apiKey[caller[c].key] /\ call.pc = "check"
        BY <3>1, <3>2 DEF Call
      <3>4. caller[c].late => apiKey[caller[c].key].state = "off"
        BY <3>1 DEF KeyIInv, LateCalls
      <3>5. caller' = [caller EXCEPT ![c] = call]
        BY <2>2 DEF ReadKey
      <3> HIDE DEF call
      <3> QED BY <3>1, <3>3, <3>4, <3>5
    <2>3. CASE CheckKey(c)
      <3> DEFINE call == [caller[c] EXCEPT !.pc = IF Valid(caller[c].row) THEN "touch" ELSE "refused"]
      <3>1. caller[c] \in Call /\ caller[c].pc = "check" /\ caller[c].key \in ApiKeyIds
        BY <2>3 DEF CheckKey, KeyIInv, KeyTypeOK, LateCalls
      <3>2. call \in Call /\ call.key = caller[c].key /\ call.late = caller[c].late
            /\ call.pc \in {"touch", "refused"}
        BY <3>1 DEF Call
      <3>3. call.pc = "touch" => caller[c].row.state = "on"
        BY <3>1 DEF Valid, Call
      <3>4. caller[c].late => apiKey[caller[c].key].state = "off" /\ caller[c].row.state = "off"
        BY <3>1 DEF KeyIInv, LateCalls
      <3>5. caller' = [caller EXCEPT ![c] = call]
        BY <2>3 DEF CheckKey
      <3> HIDE DEF call
      <3> QED BY <3>1, <3>2, <3>3, <3>4, <3>5
    <2>4. CASE TouchKey(c)
      <3> DEFINE call == [caller[c] EXCEPT !.pc = "in"]
      <3>1. caller[c] \in Call /\ caller[c].pc = "touch" /\ caller[c].key \in ApiKeyIds
            /\ ~caller[c].late
        BY <2>4 DEF TouchKey, KeyIInv, KeyTypeOK, LateCalls, KeysObeyed, RevokedKeyBlocks
      <3>2. call \in Call /\ call.key = caller[c].key /\ call.late = caller[c].late /\ call.pc = "in"
        BY <3>1 DEF Call
      <3>3. caller' = [caller EXCEPT ![c] = call]
        BY <2>4 DEF TouchKey
      <3> HIDE DEF call
      <3> QED BY <3>1, <3>2, <3>3
    <2>5. CASE Answer(c)
      <3>1. Waiting \in Call /\ Waiting.pc = "none"
        BY DEF Waiting, Call, KeyRow, States, Unissued
      <3>2. caller' = [caller EXCEPT ![c] = Waiting]
        BY <2>5 DEF Answer
      <3> QED BY <3>1, <3>2
    <2> QED BY <2>1, <2>2, <2>3, <2>4, <2>5
  <1>4. KeyTypeOK'
    BY <1>1, <1>3 DEF KeyIInv, KeyTypeOK
  <1>5. LateCalls' /\ RevokedKeyBlocks'
    BY <1>1, <1>3 DEF KeyIInv, KeyTypeOK, LateCalls, KeysObeyed, RevokedKeyBlocks
  <1> QED BY <1>2, <1>4, <1>5 DEF KeyIInv, KeysObeyed

LEMMA CreateKeeps == ASSUME KeyIInv, CreateApiKey PROVE KeyIInv'
  <1>1. PICK k \in Unused, life \in {0, Day} :
           apiKey' = [apiKey EXCEPT ![k] = [state |-> "on", of |-> Absent,
                                            expires |-> IF life = 0 THEN 0 ELSE clock + life]]
    BY DEF CreateApiKey
  <1>2. k \in ApiKeyIds /\ apiKey[k].state = "free"
    BY <1>1 DEF Unused
  <1>3. [state |-> "on", of |-> Absent, expires |-> IF life = 0 THEN 0 ELSE clock + life] \in KeyRow
    BY <1>1, KeyAssumption DEF KeyIInv, KeyTypeOK, KeyRow, States
  <1>4. UNCHANGED <<rotating, caller, clock>>
    BY DEF CreateApiKey
  <1>5. KeyTypeOK'
    BY <1>1, <1>2, <1>3, <1>4 DEF KeyIInv, KeyTypeOK
  <1>6. \A j \in ApiKeyIds : /\ j # k => apiKey'[j] = apiKey[j]
                             /\ j = k => apiKey'[j].state = "on" /\ apiKey'[j].of = Absent
    BY <1>1, <1>2 DEF KeyIInv, KeyTypeOK
  <1>7. LateCalls' /\ RevokedKeyBlocks'
    BY <1>2, <1>4, <1>5, <1>6, OffStaysOff
  <1>8. ReplacedKeyIsOff'
    BY <1>2, <1>5, <1>6 DEF KeyIInv, KeysObeyed, ReplacedKeyIsOff, KeyTypeOK, KeyRow
  <1>9. Issued'
    BY <1>2, <1>4, <1>6 DEF KeyIInv, KeyTypeOK, Issued
  <1> QED BY <1>5, <1>7, <1>8, <1>9 DEF KeyIInv, KeysObeyed

LEMMA DisableKeeps == ASSUME KeyIInv, DisableApiKey PROVE KeyIInv'
  <1>1. PICK k \in ApiKeyIds \ Unused : apiKey' = [apiKey EXCEPT ![k].state = "off"]
    BY DEF DisableApiKey
  <1>2. UNCHANGED <<rotating, caller, clock>>
    BY DEF DisableApiKey
  <1>3. \A j \in ApiKeyIds : /\ j # k => apiKey'[j] = apiKey[j]
                             /\ apiKey'[j].of = apiKey[j].of
                             /\ j = k => apiKey'[j].state = "off"
    BY <1>1 DEF KeyIInv, KeyTypeOK, KeyRow
  <1>4. [apiKey[k] EXCEPT !.state = "off"] \in KeyRow
    BY <1>1 DEF KeyIInv, KeyTypeOK, KeyRow, States
  <1>5. KeyTypeOK'
    BY <1>1, <1>2, <1>4 DEF KeyIInv, KeyTypeOK
  <1>6. LateCalls' /\ RevokedKeyBlocks'
    BY <1>2, <1>3, <1>5, OffStaysOff
  <1>7. ReplacedKeyIsOff'
    BY <1>3 DEF KeyIInv, KeysObeyed, ReplacedKeyIsOff, KeyTypeOK, KeyRow
  <1>8. Issued'
    BY <1>2, <1>3 DEF KeyIInv, KeyTypeOK, Issued
  <1> QED BY <1>5, <1>6, <1>7, <1>8 DEF KeyIInv, KeysObeyed

LEMMA RotationKeeps == ASSUME KeyIInv, NEW o \in Owners, CommitRotation(o) PROVE KeyIInv'
  <1> DEFINE old == rotating[o]
  <1>1. PICK k \in Unused : apiKey' = Replaced(old, k)
    BY DEF CommitRotation
  <1>2. /\ k \in ApiKeyIds /\ apiKey[k].state = "free"
        /\ old \in ApiKeyIds /\ apiKey[old].state # "free" /\ old # k
    BY <1>1 DEF CommitRotation, Unused, KeyIInv, KeyTypeOK, Issued
  <1>3. UNCHANGED <<caller, clock>> /\ rotating' = [rotating EXCEPT ![o] = Absent]
    BY DEF CommitRotation, Unlock
  <1> HIDE DEF old
  <1>4. /\ [apiKey[old] EXCEPT !.state = "off"] \in KeyRow
        /\ [state |-> "on", of |-> old, expires |-> 0] \in KeyRow
    BY <1>2 DEF KeyIInv, KeyTypeOK, KeyRow, States
  <1>5. apiKey' = [apiKey EXCEPT ![old] = [apiKey[old] EXCEPT !.state = "off"],
                                 ![k] = [state |-> "on", of |-> old, expires |-> 0]]
    BY <1>1, <1>2 DEF Replaced, KeyIInv, KeyTypeOK
  <1>6. KeyTypeOK'
    BY <1>2, <1>3, <1>4, <1>5 DEF KeyIInv, KeyTypeOK
  <1>7. /\ \A j \in ApiKeyIds \ {old, k} : apiKey'[j] = apiKey[j]
        /\ apiKey'[old].state = "off" /\ apiKey'[old].of = apiKey[old].of
        /\ apiKey'[k].state = "on" /\ apiKey'[k].of = old
    BY <1>2, <1>5 DEF KeyIInv, KeyTypeOK, KeyRow
  <1>8. LateCalls' /\ RevokedKeyBlocks'
    BY <1>2, <1>3, <1>6, <1>7, OffStaysOff
  <1>9. ReplacedKeyIsOff'
    BY <1>2, <1>6, <1>7 DEF KeyIInv, KeysObeyed, ReplacedKeyIsOff, KeyTypeOK, KeyRow
  <1>10. Issued'
    BY <1>2, <1>3, <1>7 DEF KeyIInv, KeyTypeOK, Issued
  <1> QED BY <1>6, <1>8, <1>9, <1>10 DEF KeyIInv, KeysObeyed

LEMMA KeyStepKeeps == ASSUME KeyIInv, [KeyNext]_keyVars PROVE KeyIInv'
  <1>1. CASE UNCHANGED keyVars
    BY <1>1 DEF keyVars, KeyIInv, KeyTypeOK, Issued, LateCalls, KeysObeyed, ReplacedKeyIsOff,
                RevokedKeyBlocks
  <1>2. CASE KeyTick
    BY <1>2 DEF KeyTick, KeyIInv, KeyTypeOK, Issued, LateCalls, KeysObeyed, ReplacedKeyIsOff,
                RevokedKeyBlocks
  <1>3. ASSUME NEW o \in Owners, LockKey(o)
        PROVE  KeyIInv'
    <2>1. PICK k \in ApiKeyIds \ Unused : rotating' = [rotating EXCEPT ![o] = k]
      BY <1>3 DEF LockKey
    <2>2. UNCHANGED <<apiKey, caller, clock>>
      BY <1>3 DEF LockKey
    <2> QED BY <2>1, <2>2 DEF KeyIInv, KeyTypeOK, Issued, LateCalls, KeysObeyed, ReplacedKeyIsOff,
                              RevokedKeyBlocks, Unused
  <1>4. ASSUME NEW o \in Owners, RollBackRotation(o)
        PROVE  KeyIInv'
    BY <1>4 DEF RollBackRotation, Unlock, KeyIInv, KeyTypeOK, Issued, LateCalls, KeysObeyed,
                ReplacedKeyIsOff, RevokedKeyBlocks
  <1> QED BY <1>1, <1>2, <1>3, <1>4, CreateKeeps, DisableKeeps, RotationKeeps, CallKeeps DEF KeyNext

(* A key that a rotation replaced or a revocation named is off for good,   *)
(* and a call that came after that found it off: rotateApiKey,             *)
(* disableApiKey and validateApiKey, with rotations rolled back.           *)
THEOREM KeyInvariant == KeySpec => []KeyIInv
  <1> QED BY KeyInitHolds, KeyStepKeeps, PTL DEF KeySpec

(* A key that was replaced is off and stays so, and a call that comes      *)
(* after its key was switched off is never let in, whatever owners do at   *)
(* once (rotateApiKey, disableApiKey, validateApiKey).                     *)
THEOREM KeysAreObeyed == KeySpec => []KeysObeyed
  <1>1. KeyIInv => KeysObeyed
    BY DEF KeyIInv
  <1> QED BY <1>1, KeyInvariant, PTL

-----------------------------------------------------------------------------
(* Routing: rules, prices, latencies and policies change between the steps *)
(* of a message, so what is proved of a choice is proved of the step that  *)
(* makes it.                                                               *)

Shipments ==
    [ pc : {"accepted", "dispatching", "failed"}, traffic : {"otp", "transactional"},
      rule : RuleIds \cup {Nothing}, provider : RouteProviders \cup {Nothing},
      charged : Prices \cup {0}, attempts : Nat ]

RouteIInv ==
    /\ rule \in [RuleIds -> Contents]
    /\ cost \in [RouteProviders -> Prices \cup {Nothing}]
    /\ latency \in [RouteProviders -> Nat] /\ failing \in [RouteProviders -> Nat]
    /\ shipment \in Shipments
    /\ shipment.pc = "accepted" => shipment.rule = Nothing /\ shipment.attempts = 0

LEMMA RouteInitHolds == RouteInit => RouteIInv
  BY DEF RouteInit, RouteIInv, Shipments

LEMMA SelectedType ==
    ASSUME NEW traffic, NEW prefer, NEW p, NEW r, NEW i \in SelectRoute(traffic, prefer, p, r)
    PROVE  /\ i # Nothing => i \in Candidates(traffic, p, r)
           /\ i = Nothing => Candidates(traffic, p, r) = {}
           /\ i # Nothing => \A j \in Candidates(traffic, p, r) :
                /\ Score(rule[i], traffic, prefer) <= Score(rule[j], traffic, prefer)
                /\ \/ NotAfter(rule[i], rule[j])
                   \/ \E k \in Candidates(traffic, p, r) :
                        ~(Score(rule[j], traffic, prefer) <= Score(rule[k], traffic, prefer))
  <1>1. Candidates(traffic, p, r) \subseteq RuleIds
    BY DEF Candidates, RulesFor
  <1> QED BY <1>1, ContentsAssumption DEF SelectRoute

LEMMA CandidateType ==
    ASSUME RouteIInv, NEW traffic, NEW p, NEW r, NEW i \in Candidates(traffic, p, r)
    PROVE  /\ i \in RuleIds /\ i # r /\ rule[i] \in Contents
           /\ rule[i].provider \in RouteProviders
  BY ContentsAssumption DEF Candidates, RulesFor, RouteIInv

LEMMA RetriedSays ==
    ASSUME RouteIInv, NEW error, NEW i \in Reroute(error), shipment' = Retried(i)
    PROVE  /\ shipment' \in Shipments
           /\ shipment'.pc = shipment.pc
           /\ shipment'.traffic = shipment.traffic
           /\ shipment'.attempts = shipment.attempts + 1
           /\ i = Nothing => shipment'.rule = shipment.rule /\ shipment'.provider = shipment.provider
           /\ i # Nothing => /\ shipment'.rule = i /\ shipment'.provider = rule[i].provider
                             /\ shipment'.charged = UnitCost(rule[i].provider)
  <1>1. CASE i = Nothing
    BY <1>1 DEF RouteIInv, Shipments, Retried
  <1>2. CASE i # Nothing
    <2>1. i \in RuleIds /\ rule[i].provider \in RouteProviders
      BY <1>2, SelectedType, CandidateType DEF Reroute
    <2>2. UnitCost(rule[i].provider) \in Prices \cup {0}
      BY <2>1 DEF UnitCost, RouteIInv
    <2> DEFINE p == rule[i].provider
               n == UnitCost(p)
               k == shipment.attempts + 1
    <2>3. /\ shipment' = [shipment EXCEPT !.attempts = k, !.rule = i, !.provider = p, !.charged = n]
          /\ shipment \in Shipments
          /\ i \in RuleIds /\ p \in RouteProviders /\ n \in Prices \cup {0} /\ k \in Nat
      BY <1>2, <2>1, <2>2 DEF Retried, RouteIInv, Shipments
    <2> HIDE DEF p, n, k
    <2>4. /\ shipment' \in Shipments /\ shipment'.pc = shipment.pc
          /\ shipment'.traffic = shipment.traffic /\ shipment'.attempts = k
          /\ shipment'.rule = i /\ shipment'.provider = p /\ shipment'.charged = n
      BY <2>3 DEF Shipments
    <2> QED BY <1>2, <2>4 DEF p, n, k
  <1> QED BY <1>1, <1>2

LEMMA RouteSays ==
    ASSUME RouteIInv, NEW i, i # Nothing,
           i \in SelectRoute(shipment.traffic, Preferred(shipment.traffic), Nothing, Nothing),
           shipment' = [shipment EXCEPT !.pc = "dispatching", !.rule = i,
                                        !.provider = rule[i].provider,
                                        !.charged = UnitCost(rule[i].provider), !.attempts = 1]
    PROVE  /\ shipment' \in Shipments
           /\ shipment'.pc = "dispatching" /\ shipment'.rule = i
           /\ shipment'.provider = rule[i].provider
           /\ shipment'.charged = UnitCost(rule[i].provider)
  <1>1. i \in RuleIds /\ rule[i].provider \in RouteProviders
    BY SelectedType, CandidateType
  <1>2. UnitCost(rule[i].provider) \in Prices \cup {0}
    BY <1>1 DEF UnitCost, RouteIInv
  <1> QED BY <1>1, <1>2 DEF RouteIInv, Shipments

LEMMA RouteStepKeeps == RouteIInv /\ [RouteNext]_routeVars => RouteIInv'
  <1> SUFFICES ASSUME RouteIInv, [RouteNext]_routeVars
               PROVE  RouteIInv'
    OBVIOUS
  <1>1. CASE Route
    BY <1>1, RouteSays DEF Route, Configured, Measured, RouteIInv
  <1>2. CASE Retry
    BY <1>2, RetriedSays DEF Retry, Configured, Measured, RouteIInv
  <1>3. CASE StopRetrying
    BY <1>3 DEF StopRetrying, Configured, Measured, RouteIInv, Shipments
  <1>4. CASE UpsertRoutingRule \/ UpsertPricingRule \/ UpsertRetryPolicy
    BY <1>4 DEF UpsertRoutingRule, UpsertPricingRule, UpsertRetryPolicy, Measured, RouteIInv
  <1>5. CASE Measure
    BY <1>5 DEF Measure, Configured, RouteIInv
  <1>6. CASE UNCHANGED routeVars
    BY <1>6 DEF routeVars, RouteIInv
  <1> QED BY <1>1, <1>2, <1>3, <1>4, <1>5, <1>6 DEF RouteNext

LEMMA RouteInvariant == RouteSpec => []RouteIInv
  BY RouteInitHolds, RouteStepKeeps, PTL DEF RouteSpec

-----------------------------------------------------------------------------
(* Of two rules with the same protocol the better one has the lower score,   *)
(* or the same and the earlier place.                                        *)
LEMMA BetterScoresLower ==
    ASSUME RouteIInv, NEW i \in RuleIds, NEW j \in RuleIds, NEW traffic, NEW prefer, Better(i, j)
    PROVE  /\ Score(rule[i], traffic, prefer) \in Int /\ Score(rule[j], traffic, prefer) \in Int
           /\ \/ Score(rule[i], traffic, prefer) < Score(rule[j], traffic, prefer)
              \/ /\ Score(rule[i], traffic, prefer) = Score(rule[j], traffic, prefer)
                 /\ ~NotAfter(rule[j], rule[i])
  <1> DEFINE a == rule[i]  b == rule[j]
             ha == HealthPenalty(a.provider)  hb == HealthPenalty(b.provider)
             la == latency[a.provider]        lb == latency[b.provider]
             ba == ProtocolBoost(a, traffic, prefer)
             bb == ProtocolBoost(b, traffic, prefer)
  <1>1. /\ a.provider \in RouteProviders /\ a.priority \in Int /\ a.weight \in Int /\ a.rank \in Int
        /\ b.provider \in RouteProviders /\ b.priority \in Int /\ b.weight \in Int /\ b.rank \in Int
        /\ a.order \in Int /\ b.order \in Int
    BY ContentsAssumption DEF RouteIInv
  <1>2. ha \in Int /\ hb \in Int /\ la \in Int /\ lb \in Int
    BY <1>1 DEF HealthPenalty, RouteIInv
  <1>3. ba \in Int /\ bb \in Int /\ ba = bb
    BY DEF ProtocolBoost, Better
  <1>4. /\ Costlier(i, j)[1] = a.priority - b.priority
        /\ Costlier(i, j)[2] = a.rank - b.rank
        /\ Costlier(i, j)[3] = b.weight - a.weight
        /\ Costlier(i, j)[4] = ha - hb
        /\ Costlier(i, j)[5] = la - lb
        /\ Costlier(i, j)[6] = a.order - b.order
    BY DEF Costlier
  <1>5. 1 \in 1..6 /\ 2 \in 1..6 /\ 3 \in 1..6 /\ 4 \in 1..6 /\ 5 \in 1..6 /\ 6 \in 1..6
        /\ \A n \in 1..6 : n = 1 \/ n = 2 \/ n = 3 \/ n = 4 \/ n = 5 \/ n = 6
    OBVIOUS
  <1>6. /\ a.priority - b.priority <= 0 /\ a.rank - b.rank <= 0 /\ b.weight - a.weight <= 0
        /\ ha - hb <= 0 /\ la - lb <= 0 /\ a.order - b.order <= 0
    BY <1>4, <1>5 DEF Better
  <1>7. \/ a.priority - b.priority < 0 \/ a.rank - b.rank < 0 \/ b.weight - a.weight < 0
        \/ ha - hb < 0 \/ la - lb < 0 \/ a.order - b.order < 0
    BY <1>4, <1>5 DEF Better
  <1>8. /\ Score(a, traffic, prefer) = 50 * (5 * a.priority + a.rank + ha - a.weight - ba) + la
        /\ Score(b, traffic, prefer) = 50 * (5 * b.priority + b.rank + hb - b.weight - bb) + lb
    BY DEF Score
  <1>9. NotAfter(b, a) <=> \/ b.priority < a.priority
                           \/ b.priority = a.priority /\ b.order <= a.order
    BY DEF NotAfter
  <1> HIDE DEF a, b, ha, hb, la, lb, ba, bb
  <1>10. Score(a, traffic, prefer) \in Int /\ Score(b, traffic, prefer) \in Int
    BY <1>1, <1>2, <1>3, <1>8
  <1>11. CASE \/ a.priority - b.priority < 0 \/ a.rank - b.rank < 0 \/ b.weight - a.weight < 0
              \/ ha - hb < 0 \/ la - lb < 0
    <2>1. Score(a, traffic, prefer) < Score(b, traffic, prefer)
      BY <1>1, <1>2, <1>3, <1>6, <1>8, <1>11
    <2> QED BY <1>10, <2>1 DEF a, b
  <1>12. CASE ~(\/ a.priority - b.priority < 0 \/ a.rank - b.rank < 0 \/ b.weight - a.weight < 0
                \/ ha - hb < 0 \/ la - lb < 0)
    <2>1. /\ a.priority = b.priority /\ a.rank = b.rank /\ b.weight = a.weight
          /\ ha = hb /\ la = lb /\ a.order < b.order
      BY <1>1, <1>2, <1>6, <1>7, <1>12
    <2>2. Score(a, traffic, prefer) = Score(b, traffic, prefer)
      BY <1>3, <1>8, <2>1
    <2>3. ~NotAfter(b, a)
      BY <1>1, <1>9, <2>1
    <2> QED BY <1>10, <2>2, <2>3 DEF a, b
  <1> QED BY <1>11, <1>12

(* Who chooses among the candidates chooses none that is worse than one it   *)
(* could have had.                                                           *)
LEMMA SelectedBest ==
    ASSUME RouteIInv, NEW traffic, NEW prefer, NEW p, NEW r,
           NEW i \in SelectRoute(traffic, prefer, p, r), i # Nothing,
           NEW j \in Candidates(traffic, p, r)
    PROVE  ~Better(j, i)
  <1>1. i \in RuleIds /\ j \in RuleIds
    BY SelectedType, CandidateType
  <1> SUFFICES ASSUME Better(j, i) PROVE FALSE
    OBVIOUS
  <1>2. /\ Score(rule[i], traffic, prefer) <= Score(rule[j], traffic, prefer)
        /\ Score(rule[i], traffic, prefer) \in Int /\ Score(rule[j], traffic, prefer) \in Int
    BY <1>1, SelectedType, BetterScoresLower
  <1>3. Score(rule[i], traffic, prefer) = Score(rule[j], traffic, prefer) /\ ~NotAfter(rule[i], rule[j])
    <2>1. \/ Score(rule[j], traffic, prefer) < Score(rule[i], traffic, prefer)
          \/ /\ Score(rule[j], traffic, prefer) = Score(rule[i], traffic, prefer)
             /\ ~NotAfter(rule[i], rule[j])
      BY <1>1, BetterScoresLower
    <2> QED BY <1>2, <2>1
  <1>4. PICK k \in Candidates(traffic, p, r) :
          ~(Score(rule[j], traffic, prefer) <= Score(rule[k], traffic, prefer))
    BY <1>3, SelectedType
  <1>5. Score(rule[i], traffic, prefer) <= Score(rule[k], traffic, prefer)
    BY <1>4, SelectedType
  <1> QED BY <1>3, <1>4, <1>5

(* Whatever the operators change between two steps, the step that routes a *)
(* message passes over no better rule of the same protocol, a retry leaves *)
(* the rule that failed whenever it can, and the row is charged what its   *)
(* carrier costs (selectRoute, handleDispatchResult).                      *)
THEOREM RoutedWellHolds == RouteSpec => RoutedWell
  <1> DEFINE NoBetter ==
               shipment'.rule # shipment.rule =>
                 ~\E i \in Candidates(shipment.traffic, Nothing, shipment.rule) :
                     /\ rule[i].provider # shipment.provider
                     /\ Better(i, shipment'.rule)
             MovesOn ==
               shipment'.attempts > shipment.attempts /\ shipment'.rule = shipment.rule =>
                 \A i \in RulesFor(shipment.traffic) :
                     \/ i = shipment.rule
                     \/ rule[i].provider = shipment.provider
                     \/ circuit[rule[i].provider] = "open"
             Pays ==
               shipment'.provider # shipment.provider =>
                 shipment'.charged = UnitCost(shipment'.provider)
  <1>1. RouteIInv /\ [RouteNext]_routeVars => [NoBetter /\ MovesOn /\ Pays]_routeVars
    <2> SUFFICES ASSUME RouteIInv, RouteNext
                 PROVE  NoBetter /\ MovesOn /\ Pays
      BY DEF NoBetter, MovesOn, Pays
    <2>1. CASE Route
      <3>1. PICK i \in SelectRoute(shipment.traffic, Preferred(shipment.traffic), Nothing, Nothing) :
               /\ i # Nothing
               /\ shipment' = [shipment EXCEPT !.pc = "dispatching", !.rule = i,
                                               !.provider = rule[i].provider,
                                               !.charged = UnitCost(rule[i].provider), !.attempts = 1]
        BY <2>1 DEF Route
      <3>2. /\ shipment'.rule = i /\ shipment'.provider = rule[i].provider
            /\ shipment'.charged = UnitCost(rule[i].provider)
        BY <3>1, RouteSays
      <3>3. shipment.rule = Nothing
        BY <2>1 DEF Route, RouteIInv
      <3>4. NoBetter
        BY <3>1, <3>2, <3>3, SelectedBest
      <3> QED BY <3>1, <3>2, <3>3, <3>4
    <2>2. CASE Retry
      <3>1. PICK error \in {"timeout", "throttle", "rejected"} :
               \E i \in Reroute(error) : shipment' = Retried(i)
        BY <2>2 DEF Retry
      <3>10. PICK i \in Reroute(error) : shipment' = Retried(i)
        BY <3>1
      <3> DEFINE p == IF ShouldExcludeCurrentProvider(error) THEN shipment.provider ELSE Nothing
      <3>2. i \in SelectRoute(shipment.traffic, Preferred(shipment.traffic), p, shipment.rule)
        BY <3>10 DEF Reroute
      <3>3. p = shipment.provider \/ p = Nothing
        OBVIOUS
      <3> HIDE DEF p
      <3>4. \A j \in RulesFor(shipment.traffic) : rule[j].provider \in RouteProviders
        BY ContentsAssumption DEF RulesFor, RouteIInv
      <3>5. \A j \in RulesFor(shipment.traffic) :
               \/ j \in Candidates(shipment.traffic, p, shipment.rule)
               \/ j = shipment.rule
               \/ rule[j].provider = shipment.provider
               \/ circuit[rule[j].provider] = "open"
        BY <3>3, <3>4, ContentsAssumption DEF Candidates
      <3>6. Candidates(shipment.traffic, Nothing, shipment.rule) \subseteq RulesFor(shipment.traffic)
            /\ \A j \in Candidates(shipment.traffic, Nothing, shipment.rule) :
                 j # shipment.rule /\ circuit[rule[j].provider] # "open"
        BY DEF Candidates
      <3>7. CASE i = Nothing
        BY <3>10, <3>2, <3>5, <3>7, SelectedType, RetriedSays
      <3>8. CASE i # Nothing
        <4>1. /\ shipment'.rule = i /\ shipment'.provider = rule[i].provider
              /\ shipment'.charged = UnitCost(rule[i].provider)
          BY <3>10, <3>8, RetriedSays
        <4>2. i # shipment.rule
          BY <3>2, <3>8, SelectedType, CandidateType
        <4>3. NoBetter
          BY <3>2, <3>5, <3>6, <3>8, <4>1, SelectedBest
        <4> QED BY <4>1, <4>2, <4>3
      <3> QED BY <3>7, <3>8
    <2>3. CASE StopRetrying
      BY <2>3 DEF StopRetrying, RouteIInv, Shipments
    <2>4. CASE UpsertRoutingRule \/ UpsertPricingRule \/ UpsertRetryPolicy \/ Measure
      BY <2>4 DEF UpsertRoutingRule, UpsertPricingRule, UpsertRetryPolicy, Measure, RouteIInv, Shipments
    <2> QED BY <2>1, <2>2, <2>3, <2>4 DEF RouteNext
  <1>2. RoutedWell <=> [][NoBetter]_routeVars /\ [][MovesOn]_routeVars /\ [][Pays]_routeVars
    BY DEF RoutedWell, NoBetterRouteLost, RetryMovesOn, PaysItsCarrier
  <1> HIDE DEF NoBetter, MovesOn, Pays
  <1> QED BY <1>1, <1>2, RouteInvariant, PTL DEF RouteSpec

(* What a policy names decides its rank: the more, the lower.                *)
LEMMA NarrowRanksLower ==
    ASSUME NEW c, NEW d, Scope(c) \subseteq Scope(d), Scope(c) # Scope(d)
    PROVE  ~(Rank(c) <= Rank(d))
  <1> DEFINE rt(x) == IF x.traffic = Nothing THEN 4 ELSE 0
             ro(x) == IF x.own THEN 0 ELSE 2
             rp(x) == IF x.provider = Nothing THEN 1 ELSE 0
  <1>1. \A x : /\ "traffic" \in Scope(x) <=> x.traffic # Nothing
               /\ "tenant" \in Scope(x) <=> x.own
               /\ "provider" \in Scope(x) <=> x.provider # Nothing
               /\ Scope(x) \subseteq {"traffic", "tenant", "provider"}
    BY DEF Scope
  <1>2. \A x : Rank(x) = rt(x) + ro(x) + rp(x)
    BY DEF Rank
  <1>3. /\ rt(c) = 0 => rt(d) = 0 
        /\ ro(c) = 0 => ro(d) = 0
        /\ rp(c) = 0 => rp(d) = 0
        /\ rt(c) # rt(d) \/ ro(c) # ro(d) \/ rp(c) # rp(d)
    BY <1>1
  <1>4. \A x : rt(x) \in {0, 4} /\ ro(x) \in {0, 2} /\ rp(x) \in {0, 1}
    OBVIOUS
  <1> HIDE DEF rt, ro, rp
  <1> QED BY <1>2, <1>3, <1>4

(* The retry policy that is picked is never more general than another one  *)
(* that applies (the ORDER BY of getRetryPolicy).                          *)
THEOREM SpecificPolicyHolds == RouteSpec => []SpecificPolicyWins
  <1>1. SpecificPolicyWins
    <2> SUFFICES ASSUME NEW p \in RouteProviders, NEW i \in PolicyIds,
                        Applies(i, p, shipment.traffic),
                        NEW c \in RetryPolicies(p, shipment.traffic),
                        Scope(c) # Scope(policy[i]), Scope(c) \subseteq Scope(policy[i])
                 PROVE  FALSE
      BY DEF SpecificPolicyWins
    <2>1. Rank(c) <= Rank(policy[i])
      BY DEF RetryPolicies
    <2> QED BY <2>1, NarrowRanksLower
  <1> QED BY <1>1, PTL
=============================================================================
