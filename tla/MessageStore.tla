---------------------------- MODULE MessageStore ----------------------------
(***************************************************************************)
(* The two tables every message handler writes: messages (one row each)    *)
(* and transactions (the wallet ledger), with the only operations the      *)
(* backend has on them.  MessagesService.patchMessage and                  *)
(* transitionMessage are compare-and-set updates on <<status, version>>;   *)
(* applyWalletLedger posts one entry per idempotency key.  The arithmetic  *)
(* on the wallet's balances is in module Wallet; here a wallet that        *)
(* refuses a posting shows as an aborted transaction.                      *)
(***************************************************************************)
EXTENDS Integers, Sequences, FiniteSets

CONSTANTS
    Messages,    \* messages clients may submit
    Priced,      \* those whose price_minor is positive: only they are ledgered
    Providers,   \* carriers a route can choose
    NoProvider   \* provider_id of a row that does not exist yet

ASSUME PricedAssumption   == Priced \subseteq Messages
ASSUME ProviderAssumption == Providers # {} /\ NoProvider \notin Providers

VARIABLES
    row,      \* row[m]: the messages row of m
    ledger    \* entries of transactions: [message, op, reason]

storeVars == <<row, ledger>>

-----------------------------------------------------------------------------
Statuses == {"accepted", "routed", "submitting", "provider_accepted",
             "delivered", "failed"}

AllowedTransitions ==
    [ accepted          |-> {"routed"},
      routed            |-> {"submitting"},
      submitting        |-> {"provider_accepted", "failed"},
      provider_accepted |-> {"delivered", "failed"},
      delivered         |-> {},
      failed            |-> {} ]

BillingStates == {"pending", "reserved", "debited", "released"}

(* last_error_code, as far as anything reads it back: the trigger tells    *)
(* 'dlr_failed' from every other code.                                     *)
Errors == {"none", "dispatch", "dlr_failed"}

(* provider_message_id is the version of the attempt the carrier took;     *)
(* NoId when the carrier returned none.                                    *)
NoId == 0

Row == [ status   : Statuses,
         version  : Nat,
         attempt  : Nat,
         billing  : BillingStates,
         provider : Providers,
         pmid     : Nat,
         sent     : BOOLEAN,       \* sent_at IS NOT NULL
         error    : Errors ]

NoRow == [ status |-> "none", version |-> 0, attempt |-> 0,
           billing |-> "pending", provider |-> NoProvider, pmid |-> NoId,
           sent |-> FALSE, error |-> "none" ]

(* The keys are `<reason>:<submitDate>:<tenant>:<id>`; a release carries   *)
(* the path that made it as a suffix, so three releases of one message     *)
(* have three different keys and the ledger would accept all of them.      *)
LedgerEntries ==
    [message : Messages, op : {"reserve"}, reason : {"submit"}] \cup
    [message : Messages, op : {"debit"},   reason : {"ack"}]    \cup
    [message : Messages, op : {"release"}, reason : {"final", "fraud", "dlr"}]

-----------------------------------------------------------------------------
(* A plausible slip: an UPDATE without the status and version conditions.  *)
CasMatchesAlways(m, seen) == TRUE

(* The row the database holds is still the one the handler read.           *)
CasMatches(m, seen) ==
    row[m].status = seen.status /\ row[m].version = seen.version

CompareAndSet(m, seen, new) ==
    /\ CasMatches(m, seen)
    /\ row' = [row EXCEPT ![m] = [new EXCEPT !.version = row[m].version + 1]]

(* patchMessage: same status, other columns.                               *)
PatchMessage(m, seen, new) == CompareAndSet(m, seen, new)

(* A plausible slip: the transition forgets billing_state = 'debited'.     *)
MovedUndebited(r, next) ==
    [r EXCEPT !.status = next, !.sent = @ \/ next = "provider_accepted"]

(* The columns transitionMessage sets by itself for a target status.       *)
Moved(r, next) ==
    [r EXCEPT !.status  = next,
              !.billing = IF next = "provider_accepted" THEN "debited" ELSE @,
              !.sent    = @ \/ next = "provider_accepted"]

TransitionMessage(m, seen, next, new) ==
    /\ next \in AllowedTransitions[seen.status]
    /\ CompareAndSet(m, seen, Moved(new, next))

(* applyWalletLedger: nothing for a free message, nothing for a key that   *)
(* is already there, else one entry.                                       *)
Posting(m, op, reason) ==
    IF m \in Priced THEN {[message |-> m, op |-> op, reason |-> reason]} ELSE {}

ApplyWalletLedger(m, op, reason) == ledger' = ledger \cup Posting(m, op, reason)

-----------------------------------------------------------------------------
(* Trigger enforce_message_state_transition, on the images a row takes in  *)
(* one transaction.  state_changed_at = now() is the start of the          *)
(* transaction, so a second update of the row in the same transaction      *)
(* cannot move it forward.                                                 *)
LegalUpdate(old, new) ==
    /\ new.version = old.version + 1
    /\ \/ new.status = old.status
       \/ <<old.status, new.status>> \in
             { <<"accepted", "routed">>, <<"routed", "submitting">>,
               <<"submitting", "provider_accepted">>,
               <<"submitting", "failed">>,
               <<"provider_accepted", "delivered">> }
       \/ /\ old.status = "provider_accepted"
          /\ new.status = "failed"
          /\ new.error = "dlr_failed"

TriggerAccepts(images) ==
    /\ Len(images) <= 2
    /\ \A i \in 1..(Len(images) - 1) : LegalUpdate(images[i], images[i + 1])

StoreInit ==
    /\ row = [m \in Messages |-> NoRow]
    /\ ledger = {}
=============================================================================
