------------------------------- MODULE Wallet -------------------------------
(***************************************************************************)
(* The wallet of one tenant: MessagesService.applyWalletLedger inside the  *)
(* transactions that call it, which run concurrently in the API and in     *)
(* every worker.  A caller first takes the message's row (the INSERT, or   *)
(* the compare-and-set of transitionMessage), then looks its idempotency   *)
(* key up, then takes the wallet's row FOR UPDATE and reads it; the rows   *)
(* stay taken until the transaction ends.                                  *)
(*                                                                         *)
(* The balances, the credit limit and price_minor are BIGINT columns, and  *)
(* the driver, for which DatabaseService sets no type parser, delivers     *)
(* BIGINT as a string.  So `+` appends, `-` computes, `<` between two      *)
(* strings compares digit by digit, and `<` between a string and a number  *)
(* compares as numbers.  Only the price of a submission is a number, being *)
(* a product.                                                              *)
(***************************************************************************)
EXTENDS Integers, Sequences, FiniteSets, FiniteSetsExt

CONSTANTS
    ChargedMessages,
    Price,      \* price of each message, in minor units; 0 is not ledgered
    Funds,      \* available_balance_minor at the start
    Credit,     \* credit_limit_minor
    MaxBigint,  \* the largest value a column takes, 2^63 - 1 in the schema
    Txs         \* transactions that may be open at once

ASSUME PriceAssumption == Price \in [ChargedMessages -> Nat]
ASSUME FundsAssumption == Funds \in Nat /\ Credit \in Nat /\ MaxBigint \in Nat

VARIABLES
    wallet,    \* the wallets row: [available, reserved]
    entries,   \* the transactions table, in the order of commits
    billing,   \* billing_state of each message; "pending" before its INSERT
    tx         \* what each open transaction is doing

walletVars == <<wallet, entries, billing, tx>>

-----------------------------------------------------------------------------
(* The driver's arithmetic.                                                *)

Digits(n) ==
    IF n = 0 THEN 1 ELSE CHOOSE k \in 1..19 : 10^(k - 1) <= n /\ n < 10^k

(* a + b when a is a string: the digits of b behind those of a.            *)
Concat(a, b) ==
    IF a < 0 THEN a * 10^Digits(b) - b ELSE a * 10^Digits(b) + b

(* a < b when both are strings and b has no sign; '-' sorts before digits. *)
StringLess(a, b) ==
    IF a < 0 THEN TRUE
    ELSE IF Digits(a) < Digits(b) THEN a * 10^(Digits(b) - Digits(a)) <= b
    ELSE a < b * 10^(Digits(a) - Digits(b))

LedgerOps == {"reserve", "debit", "release"}

(* The check that throws, for each operation.                              *)
Insufficient(w, op, amount) ==
    IF op = "reserve" THEN Concat(w.available, Credit) < amount
                      ELSE StringLess(w.reserved, amount)

(* What the UPDATE writes.                                                 *)
Posted(w, op, amount) ==
    [ available |-> IF op = "reserve"      THEN w.available - amount
                    ELSE IF op = "release" THEN Concat(w.available, amount)
                    ELSE w.available,
      reserved  |-> IF op = "reserve" THEN Concat(w.reserved, amount)
                                      ELSE w.reserved - amount ]

Storable(w) == \A x \in {w.available, w.reserved} : -MaxBigint <= x /\ x <= MaxBigint

(* The balance an entry records before and after.                          *)
Shown(w, op) == IF op = "reserve" THEN w.available ELSE w.reserved

Entry(m, op, w) ==
    [ message |-> m, op |-> op, before |-> Shown(w, op),
      after |-> Shown(Posted(w, op, Price[m]), op) ]

-----------------------------------------------------------------------------
NoTx == [pc |-> "idle"]

(* billing_state before an operation, and after it.                        *)
From == [reserve |-> "pending",  debit |-> "reserved", release |-> "reserved"]
To   == [reserve |-> "reserved", debit |-> "debited",  release |-> "released"]

Opening == [available |-> Funds, reserved |-> 0]

WalletInit ==
    /\ wallet = Opening
    /\ entries = <<>>
    /\ billing = [m \in ChargedMessages |-> "pending"]
    /\ tx = [t \in Txs |-> NoTx]

EndTx(t) == tx' = [tx EXCEPT ![t] = NoTx]

(* No open transaction has updated the row of m.                           *)
RowFree(m) == \A t \in Txs : tx[t].pc # "idle" => tx[t].message # m

(* The caller's INSERT or compare-and-set succeeds.                        *)
Begin(t, m, op) ==
    /\ tx[t].pc = "idle" /\ RowFree(m)
    /\ billing[m] = From[op]
    /\ tx' = [tx EXCEPT ![t] = [pc |-> "key", message |-> m, op |-> op, read |-> wallet]]
    /\ UNCHANGED <<wallet, entries, billing>>

(* ledgerExists sees what is committed by now.                             *)
CheckKey(t) ==
    LET known == \E i \in 1..Len(entries) :
                    entries[i].message = tx[t].message /\ entries[i].op = tx[t].op
    IN
    /\ tx[t].pc = "key"
    /\ tx' = [tx EXCEPT ![t].pc =
                 IF Price[tx[t].message] = 0 \/ known THEN "commit" ELSE "lock"]
    /\ UNCHANGED <<wallet, entries, billing>>

(* A plausible slip: the SELECT without FOR UPDATE.                        *)
WalletFreeAlways == TRUE

WalletFree == \A t \in Txs : tx[t].pc # "post"

TakeWallet(t) ==
    /\ tx[t].pc = "lock" /\ WalletFree
    /\ tx' = [tx EXCEPT ![t].pc = "post", ![t].read = wallet]
    /\ UNCHANGED <<wallet, entries, billing>>

Overdrawn(t) == Insufficient(tx[t].read, tx[t].op, Price[tx[t].message])

(* UPDATE, INSERT and the caller's COMMIT.                                 *)
PostEntry(t) ==
    LET m == tx[t].message  op == tx[t].op
        new == Posted(tx[t].read, op, Price[m])
    IN
    /\ tx[t].pc = "post" /\ ~Overdrawn(t) /\ Storable(new)
    /\ wallet'  = new
    /\ entries' = Append(entries, Entry(m, op, tx[t].read))
    /\ billing' = [billing EXCEPT ![m] = To[op]]
    /\ EndTx(t)

CommitUnposted(t) ==
    /\ tx[t].pc = "commit"
    /\ billing' = [billing EXCEPT ![tx[t].message] = To[tx[t].op]]
    /\ EndTx(t)
    /\ UNCHANGED <<wallet, entries>>

(* An exception, a value out of the column's range or a lost connection:   *)
(* everything since BEGIN is rolled back.                                  *)
Abort(t) ==
    /\ tx[t].pc # "idle"
    /\ EndTx(t)
    /\ UNCHANGED <<wallet, entries, billing>>

WalletNext ==
    \E t \in Txs : \/ \E m \in ChargedMessages, op \in LedgerOps : Begin(t, m, op)
                   \/ CheckKey(t) \/ TakeWallet(t)
                   \/ PostEntry(t) \/ CommitUnposted(t) \/ Abort(t)

WalletSpec == WalletInit /\ [][WalletNext]_walletVars

-----------------------------------------------------------------------------
(* The wallet is what the ledger says: replaying the entries from the      *)
(* opening balance, one after another, gives the wallet, and every entry   *)
(* recorded the balances of its turn.  So concurrent transactions on one   *)
(* wallet never lose each other's update.                                  *)
Replay ==
    LET r[i \in 0..Len(entries)] ==
            IF i = 0 THEN Opening
            ELSE Posted(r[i - 1], entries[i].op, Price[entries[i].message])
    IN r

WalletReplays ==
    /\ wallet = Replay[Len(entries)]
    /\ \A i \in 1..Len(entries) :
          entries[i] = Entry(entries[i].message, entries[i].op, Replay[i - 1])

EntriesOf(m) == {i \in 1..Len(entries) : entries[i].message = m}

(* The entries of a message are one reservation and then at most one of a  *)
(* debit and a release, although transactions that want either of them run *)
(* at once and look their keys up before they take the wallet.             *)
SettledOnce ==
    \A m \in ChargedMessages : \A i, j \in EntriesOf(m) :
        /\ entries[i].op \in LedgerOps
        /\ (entries[i].op = "reserve") <=> (\A k \in EntriesOf(m) : i <= k)
        /\ entries[i].op # "reserve" /\ entries[j].op # "reserve" => i = j

(* The wallet and its ledger, under every interleaving of transactions:    *)
(* the two above (applyWalletLedger, its callers and uq_transactions_      *)
(* idempotency).                                                           *)
LedgerSound == WalletReplays /\ SettledOnce

SumOf(S) == MapThenSumSet(LAMBDA m : Price[m], S)

(* What the dashboard says of the reserved balance: the funds held for the *)
(* messages that are in flight.                                            *)
ReservedIsHeld ==
    wallet.reserved = SumOf({m \in ChargedMessages : billing[m] = "reserved"})
=============================================================================
