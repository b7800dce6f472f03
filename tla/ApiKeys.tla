------------------------------- MODULE ApiKeys -------------------------------
(***************************************************************************)
(* Keys of the API of one tenant: made, rotated and revoked by its owners, *)
(* several at a time, while calls that carry a key are let in or not.  A   *)
(* row that a transaction has locked waits for it, and a transaction may   *)
(* be rolled back to its beginning (its entry in the audit log fails, or   *)
(* its process ends).                                                      *)
(***************************************************************************)
EXTENDS Integers, FiniteSets

CONSTANTS
    ApiKeyIds, Owners, Callers,
    Absent,             \* no key
    Day, Horizon        \* validity a key may be given, and a bound on the clock

ASSUME KeyAssumption == Absent \notin ApiKeyIds /\ {Day, Horizon} \subseteq Nat

VARIABLES
    apiKey,     \* [ApiKeyIds -> the rows]: state, the key it replaces,
                \* the time it expires (0: never)
    locked,     \* [ApiKeyIds -> the owner whose transaction has the row, or Absent]
    rotating,   \* [Owners -> the key being rotated, or Absent]
    caller,     \* [Callers -> what each call has found]
    clock

keyVars == <<apiKey, locked, rotating, caller, clock>>

Unissued == [state |-> "free", of |-> Absent, expires |-> 0]
Waiting  == [pc |-> "none", key |-> Absent, late |-> FALSE, row |-> Unissued]

KeyInit ==
    /\ apiKey = [k \in ApiKeyIds |-> Unissued]
    /\ locked = [k \in ApiKeyIds |-> Absent]
    /\ rotating = [o \in Owners |-> Absent]
    /\ caller = [c \in Callers |-> Waiting]
    /\ clock = 0

Unused == {k \in ApiKeyIds : apiKey[k].state = "free"}

-----------------------------------------------------------------------------
(* The secret is made first, the row and the audit entry are one           *)
(* transaction.                                                            *)
CreateApiKey ==
    \E k \in Unused, life \in {0, Day} :
        /\ apiKey' = [apiKey EXCEPT ![k] =
              [state |-> "on", of |-> Absent,
               expires |-> IF life = 0 THEN 0 ELSE clock + life]]
        /\ UNCHANGED <<locked, rotating, caller, clock>>

(* rotateApiKey: SELECT ... FOR UPDATE, whatever the state of the key.     *)
LockKey(o) ==
    /\ rotating[o] = Absent
    /\ \E k \in ApiKeyIds \ Unused :
          /\ locked[k] = Absent
          /\ locked' = [locked EXCEPT ![k] = o]
          /\ rotating' = [rotating EXCEPT ![o] = k]
    /\ UNCHANGED <<apiKey, caller, clock>>

Unlock(o) ==
    /\ locked' = [locked EXCEPT ![rotating[o]] = Absent]
    /\ rotating' = [rotating EXCEPT ![o] = Absent]

(* The new key has no end, whatever the old one had.                       *)
Replaced(old, new) ==
    [apiKey EXCEPT ![old].state = "off",
                   ![new] = [state |-> "on", of |-> old, expires |-> 0]]

CommitRotation(o) ==
    /\ rotating[o] # Absent
    /\ \E k \in Unused : apiKey' = Replaced(rotating[o], k)
    /\ Unlock(o)
    /\ UNCHANGED <<caller, clock>>

RollBackRotation(o) ==
    /\ rotating[o] # Absent
    /\ Unlock(o)
    /\ UNCHANGED <<apiKey, caller, clock>>

(* disableApiKey waits for a rotation of the same key.                     *)
DisableApiKey ==
    /\ \E k \in ApiKeyIds \ Unused :
          /\ locked[k] = Absent
          /\ apiKey' = [apiKey EXCEPT ![k].state = "off"]
    /\ UNCHANGED <<locked, rotating, caller, clock>>

-----------------------------------------------------------------------------
(* A call arrives; late remembers that its key had been switched off.      *)
Arrive(c) ==
    /\ caller[c].pc = "none"
    /\ \E k \in ApiKeyIds \ Unused :
          caller' = [caller EXCEPT ![c] = [pc |-> "read", key |-> k, late |-> apiKey[k].state = "off",
                                           row |-> Unissued]]
    /\ UNCHANGED <<apiKey, locked, rotating, clock>>

(* validateApiKey: one SELECT, and everything else from what it found.     *)
ReadKey(c) ==
    /\ caller[c].pc = "read"
    /\ caller' = [caller EXCEPT ![c].pc = "check", ![c].row = apiKey[caller[c].key]]
    /\ UNCHANGED <<apiKey, locked, rotating, clock>>

(* A plausible slip: the state is not looked at.                           *)
ValidByDate(row) == row.expires = 0 \/ row.expires >= clock

Valid(row) == row.state = "on" /\ (row.expires = 0 \/ row.expires >= clock)

CheckKey(c) ==
    /\ caller[c].pc = "check"
    /\ caller' = [caller EXCEPT ![c].pc = IF Valid(caller[c].row) THEN "touch" ELSE "refused"]
    /\ UNCHANGED <<apiKey, locked, rotating, clock>>

(* last_used_at, which waits for a rotation too: then the call is let in.  *)
TouchKey(c) ==
    /\ caller[c].pc = "touch" /\ locked[caller[c].key] = Absent
    /\ caller' = [caller EXCEPT ![c].pc = "in"]
    /\ UNCHANGED <<apiKey, locked, rotating, clock>>

Answer(c) ==
    /\ caller[c].pc \in {"in", "refused"}
    /\ caller' = [caller EXCEPT ![c] = Waiting]
    /\ UNCHANGED <<apiKey, locked, rotating, clock>>

KeyTick ==
    /\ clock < Horizon
    /\ clock' = clock + 1
    /\ UNCHANGED <<apiKey, locked, rotating, caller>>

KeyNext ==
    \/ CreateApiKey \/ DisableApiKey \/ KeyTick
    \/ \E o \in Owners : LockKey(o) \/ CommitRotation(o) \/ RollBackRotation(o)
    \/ \E c \in Callers : Arrive(c) \/ ReadKey(c) \/ CheckKey(c) \/ TouchKey(c) \/ Answer(c)

KeySpec == KeyInit /\ [][KeyNext]_keyVars

-----------------------------------------------------------------------------
(* "Rotating an API key disables the current secret and issues a one-time  *)
(* replacement": wherever a key replaces another, the other one is off,    *)
(* whoever rotated, revoked or rolled back at the same time, and stays so. *)
ReplacedKeyIsOff ==
    \A k \in ApiKeyIds : apiKey[k].of # Absent => apiKey[apiKey[k].of].state = "off"

(* "Revoking an API key immediately blocks further API traffic for that    *)
(* secret": a call that arrives after the key was switched off is never    *)
(* let in.  (One that was being checked at that moment may be.)            *)
RevokedKeyBlocks == \A c \in Callers : caller[c].pc \in {"touch", "in"} => ~caller[c].late

(* Rotation and revocation mean what their pages say, whoever else is at   *)
(* it: the two above.                                                      *)
KeysObeyed == ReplacedKeyIsOff /\ RevokedKeyBlocks
=============================================================================
