------------------------------ MODULE Submission ------------------------------
(***************************************************************************)
(* What stands between a request to send a message and its row: quotas,    *)
(* the opt-out lists, the route, the sender's approval and the fraud rules *)
(* are looked at one after the other, each in a statement of its own, and  *)
(* then one transaction looks for an earlier message with the request's    *)
(* idempotency key or client message id, inserts the row and reserves the  *)
(* price.  Everything looked at may change before the row is there, and    *)
(* the answer may get lost after it is.                                    *)
(*                                                                         *)
(* What a quota, a route, the fraud rules or the wallet decide is left     *)
(* open here; modules RateLimit, RuleCache and Wallet have it.             *)
(***************************************************************************)
EXTENDS Integers, FiniteSets

CONSTANTS
    Requests,       \* requests of one tenant
    IdempotencyKeys, ClientIds,
    Unset,          \* a request without a key, or without a client message id
    Numbers,        \* destinations
    Carriers,       \* providers a sender id can be registered with
    MaxChanges      \* bound on midnights, and on changes of the lists and sender ids

ASSUME UnsetAssumption ==
    /\ Unset \notin IdempotencyKeys \cup ClientIds \cup Requests
    /\ "refused" \notin Requests

VARIABLES
    request,    \* what each request asks and how far it is
    message,    \* the row each request has inserted
    funds,      \* the request whose transaction has locked the wallet's row
    optOuts, suppressions,    \* numbers on the two lists
    sender,     \* status of the tenant's sender id with each carrier
    today,      \* CURRENT_DATE
    changes,    \* how many there were of the last four
    past        \* for the properties: what was so when a request came, or since

submitVars == <<request, message, funds, optOuts, suppressions, sender, today, changes, past>>

Book == <<optOuts, suppressions, sender, today, changes>>

-----------------------------------------------------------------------------
NoMessage == [key |-> "none"]

NoRequest == [pc |-> "none"]

Refused == "refused"

Coming == {r \in Requests : request[r] # NoRequest}

Is(r, pc) == request[r] # NoRequest /\ request[r].pc = pc

Proceed(r, pc) == request' = [request EXCEPT ![r].pc = pc]

(* An exception: the error goes out through the audit interceptor.         *)
Refuse(r) == request' = [request EXCEPT ![r].pc = "audit", ![r].found = Refused]

SubmitInit ==
    /\ request = [r \in Requests |-> NoRequest]
    /\ message = [r \in Requests |-> NoMessage]
    /\ funds = Unset
    /\ optOuts = {} /\ suppressions = {} /\ today = 0 /\ changes = 0
    /\ sender = [p \in Carriers |-> "none"]
    /\ past = [r \in Requests |-> [barred |-> FALSE, approved |-> {}, answered |-> {}]]

(* A request comes: submitMessage with an API key, submitControlPlane-     *)
(* Message without, which has neither quotas of its own nor scopes to miss.*)
Arrive(r) ==
    /\ request[r] = NoRequest
    /\ \E k \in IdempotencyKeys \cup {Unset}, x \in ClientIds \cup {Unset}, n \in Numbers :
         /\ request' = [request EXCEPT ![r] =
                [ pc |-> "quotas", key |-> k, client |-> x, number |-> n,
                  carrier |-> Unset, day |-> 0, found |-> Unset ]]
         /\ past' = [past EXCEPT ![r] =
                [ barred   |-> n \in optOuts \cup suppressions,
                  approved |-> {p \in Carriers : sender[p] = "approved"},
                  answered |-> {s \in Requests : Is(s, "answered")} ]]
    /\ UNCHANGED <<message, funds, Book>>

Unchanging == UNCHANGED <<message, funds, Book, past>>

(* Up to four buckets, one after the other (module RateLimit).             *)
ConsumeQuotas(r) ==
    /\ Is(r, "quotas")
    /\ Proceed(r, "destination") \/ Refuse(r)
    /\ Unchanging

(* A plausible slip: only what the recipient asked for is looked up.       *)
OptedOut(n) == n \in optOuts

Blocked(n) == n \in optOuts \cup suppressions

AssertNotOptedOut(r) ==
    /\ Is(r, "destination")
    /\ IF Blocked(request[r].number) THEN Refuse(r) ELSE Proceed(r, "route")
    /\ Unchanging

(* The template is resolved and a route selected, if there is one.         *)
SelectRoute(r) ==
    /\ Is(r, "route")
    /\ \/ \E p \in Carriers :
             request' = [request EXCEPT ![r].pc = "sender", ![r].carrier = p]
       \/ Refuse(r)
    /\ Unchanging

Approved(p) == sender[p] = "approved"

EnsureApproved(r) ==
    /\ Is(r, "sender")
    /\ IF Approved(request[r].carrier) THEN Proceed(r, "fraud") ELSE Refuse(r)
    /\ Unchanging

EnforceSubmission(r) ==
    /\ Is(r, "fraud")
    /\ Proceed(r, "begin") \/ Refuse(r)
    /\ Unchanging

-----------------------------------------------------------------------------
(* The transaction.  CURRENT_DATE is that of its beginning.                *)
BeginSubmission(r) ==
    /\ Is(r, "begin")
    /\ request' = [request EXCEPT ![r].pc = "look up", ![r].day = today]
    /\ Unchanging

Rows == {m \in Requests : message[m] # NoMessage}

(* A plausible slip: OR client_message_id is left out.                     *)
EarlierByKey(r) ==
    {m \in Rows : /\ message[m].committed /\ message[m].day = request[r].day
                  /\ request[r].key # Unset /\ message[m].key = request[r].key}

(* What the query can return, any row of it.                               *)
Earlier(r) ==
    {m \in Rows :
        /\ message[m].committed /\ message[m].day = request[r].day
        /\ \/ request[r].key # Unset /\ message[m].key = request[r].key
           \/ request[r].client # Unset /\ message[m].client = request[r].client}

LookUp(r) ==
    /\ Is(r, "look up")
    /\ IF Earlier(r) = {} THEN Proceed(r, "insert")
       ELSE \E m \in Earlier(r) :
              request' = [request EXCEPT ![r].pc = "audit", ![r].found = m]
    /\ Unchanging

(* The rows in the way of the unique index on the idempotency key.         *)
InTheWay(r) ==
    {m \in Rows : /\ request[r].key # Unset /\ message[m].key = request[r].key
                  /\ message[m].day = request[r].day}

(* The insertion waits for a transaction with the same key; if that one    *)
(* commits it fails.                                                       *)
Insert(r) ==
    /\ Is(r, "insert")
    /\ \A m \in InTheWay(r) : message[m].committed
    /\ IF InTheWay(r) # {}
       THEN Refuse(r) /\ UNCHANGED message
       ELSE /\ message' = [message EXCEPT ![r] =
                   [ key |-> request[r].key, client |-> request[r].client,
                     number |-> request[r].number, carrier |-> request[r].carrier,
                     day |-> request[r].day, committed |-> FALSE ]]
            /\ Proceed(r, "reserve")
    /\ UNCHANGED <<funds, Book, past>>

(* ROLLBACK, by the code or by a lost connection.                          *)
RollBack(r) ==
    /\ Refuse(r)
    /\ message' = [message EXCEPT ![r] = NoMessage]
    /\ funds' = IF funds = r THEN Unset ELSE funds
    /\ UNCHANGED <<Book, past>>

(* reserveWallet waits for the wallet's row and may find too little on it. *)
LockWallet(r) ==
    /\ Is(r, "reserve") /\ funds = Unset
    /\ funds' = r
    /\ Proceed(r, "commit")
    /\ UNCHANGED <<message, Book, past>>

CommitSubmission(r) ==
    /\ Is(r, "commit")
    /\ message' = [message EXCEPT ![r].committed = TRUE]
    /\ funds' = Unset
    /\ request' = [request EXCEPT ![r].pc = "audit", ![r].found = r]
    /\ UNCHANGED <<Book, past>>

FailSubmission(r) ==
    /\ Is(r, "look up") \/ Is(r, "insert") \/ Is(r, "reserve") \/ Is(r, "commit")
    /\ RollBack(r)

(* The interceptor records the outcome and passes it on; if it cannot      *)
(* record a success it reports an error, though the message is there.      *)
Intercept(r) ==
    /\ Is(r, "audit")
    /\ \/ Proceed(r, "answered")
       \/ request' = [request EXCEPT ![r].pc = "answered", ![r].found = Refused]
    /\ Unchanging

-----------------------------------------------------------------------------
Change ==
    /\ changes < MaxChanges /\ changes' = changes + 1
    /\ UNCHANGED <<message, funds>>

(* Adding a number twice changes nothing, and nothing takes one off.       *)
OptOut(n) ==
    /\ Change /\ optOuts' = optOuts \cup {n}
    /\ UNCHANGED <<request, suppressions, sender, today, past>>

Suppress(n) ==
    /\ Change /\ suppressions' = suppressions \cup {n}
    /\ UNCHANGED <<request, optOuts, sender, today, past>>

RegisterSender(p) ==
    /\ Change /\ sender[p] = "none"
    /\ sender' = [sender EXCEPT ![p] = "pending"]
    /\ UNCHANGED <<request, optOuts, suppressions, today, past>>

Approve(p) ==
    /\ Change /\ sender[p] # "none"
    /\ sender' = [sender EXCEPT ![p] = "approved"]
    /\ past' = [r \in Requests |->
                  IF r \in Coming THEN [past[r] EXCEPT !.approved = @ \cup {p}] ELSE past[r]]
    /\ UNCHANGED <<request, optOuts, suppressions, today>>

Reject(p) ==
    /\ Change /\ sender[p] # "none"
    /\ sender' = [sender EXCEPT ![p] = "rejected"]
    /\ UNCHANGED <<request, optOuts, suppressions, today, past>>

Midnight ==
    /\ Change /\ today' = today + 1
    /\ UNCHANGED <<request, optOuts, suppressions, sender, past>>

Screen(r) ==
    \/ ConsumeQuotas(r) \/ AssertNotOptedOut(r) \/ SelectRoute(r)
    \/ EnsureApproved(r) \/ EnforceSubmission(r)

Store(r) == BeginSubmission(r) \/ LookUp(r) \/ Insert(r) \/ LockWallet(r) \/ CommitSubmission(r)

Serve(r) == Screen(r) \/ Store(r) \/ Intercept(r)

SubmitNext ==
    \/ \E r \in Requests : Arrive(r) \/ Serve(r) \/ FailSubmission(r)
    \/ \E n \in Numbers : OptOut(n) \/ Suppress(n)
    \/ \E p \in Carriers : RegisterSender(p) \/ Approve(p) \/ Reject(p)
    \/ Midnight

SubmitSpec == SubmitInit /\ [][SubmitNext]_submitVars

-----------------------------------------------------------------------------
SameIds(r, s) == request[r].key = request[s].key /\ request[r].client = request[s].client

SharesId(r, s) ==
    \/ request[r].key # Unset /\ request[r].key = request[s].key
    \/ request[r].client # Unset /\ request[r].client = request[s].client

InTurn(r, s) == r \in past[s].answered \/ s \in past[r].answered

(* Two requests with the same identifiers, on one day, are never answered  *)
(* with two messages - at the same time if they have an idempotency key,   *)
(* one after the other if they only have a client message id, whether or   *)
(* not the first answer got through.  (That nothing else shares one of the *)
(* identifiers only has to be assumed: which of two rows the look-up       *)
(* returns is not determined.)                                             *)
Named(r) == {m \in Rows : message[m].committed /\ m \in {r, request[r].found}}

RepeatsAgree ==
    \A r, s \in Coming :
        /\ SharesId(r, s) /\ SameIds(r, s)
        /\ \A t \in Coming : SharesId(t, r) => SameIds(t, r)
        /\ request[r].day = request[s].day
        /\ request[r].key = Unset =>
              \A t, u \in Coming : t # u /\ SharesId(t, r) /\ SharesId(u, r) => InTurn(t, u)
        => Cardinality(Named(r) \cup Named(s)) <= 1

(* Nothing is sent to a number that was on one of the lists when the       *)
(* request came.                                                           *)
NoneToBlocked == \A r \in Rows : ~past[r].barred

(* A message goes out under a sender id that was approved with its own     *)
(* carrier at some time while it was being submitted.                      *)
SenderHeldApproval == \A r \in Rows : message[r].carrier \in past[r].approved

(* What is looked at before the row is written binds the row, although     *)
(* lists and approvals change in between (submitMessageWithContext).       *)
Screened == NoneToBlocked /\ SenderHeldApproval
=============================================================================
