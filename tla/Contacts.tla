------------------------------- MODULE Contacts -------------------------------
(***************************************************************************)
(* Uploads of contact lists.  An upload is one transaction that goes       *)
(* through the rows of its file in their order, inserts each contact or    *)
(* merges it into the one that has the number, and adds it to a group.  A  *)
(* row once touched is locked until the transaction ends, so two uploads   *)
(* wait for each other, and may do so in a circle; PostgreSQL then breaks  *)
(* one off, and its request fails.                                         *)
(*                                                                         *)
(* A contact is the set of the sources whose fields it has: of the uploads *)
(* and the requests that created or changed it one by one.                 *)
(***************************************************************************)
EXTENDS Integers, Sequences, FiniteSets

CONSTANTS
    Uploads,
    File,           \* [Uploads -> Seq(...)]: the number in each line
    Phones,         \* numbers that can be normalised; anything else cannot
    Edits,          \* requests that create or update one contact
    Nobody          \* holds no lock

ASSUME ContactAssumption ==
    /\ \A u \in Uploads : DOMAIN File[u] = 1..Len(File[u]) /\ Len(File[u]) \in Nat
    /\ Uploads \cap Edits = {} /\ Nobody \notin Uploads

VARIABLES
    contacts,   \* what is committed: per number, the sources merged into it
    group,      \* committed members of the group that uploads go to
    upload,     \* how far each upload's transaction is
    work,       \* what it has written
    lock,       \* the upload that has locked the row of a number
    edited      \* the requests that are done

contactVars == <<contacts, group, upload, work, lock, edited>>

-----------------------------------------------------------------------------
NoRow == {}

(* parseCsvContent: a line counts if its number is one and did not come    *)
(* before; every other line becomes an error of the upload.                *)
ValidLines(u) ==
    {i \in DOMAIN File[u] : /\ File[u][i] \in Phones
                            /\ \A j \in 1..(i - 1) : File[u][j] # File[u][i]}

Remaining(u) == {i \in ValidLines(u) : i > upload[u].line}

NextLine(u) == CHOOSE i \in Remaining(u) : \A j \in Remaining(u) : i <= j

NextPhone(u) == File[u][NextLine(u)]

(* A plausible slip: SET metadata = EXCLUDED.metadata.                     *)
MergedOver(row, source) == {source}

Merged(row, source) == row \cup {source}

ContactInit ==
    /\ contacts = [n \in Phones |-> NoRow] /\ group = {}
    /\ upload = [u \in Uploads |-> [state |-> "new", line |-> 0, valid |-> 0]]
    /\ work = [u \in Uploads |-> [n \in Phones |-> NoRow]]
    /\ lock = [n \in Phones |-> Nobody]
    /\ edited = {}

Importing(u) == upload[u].state = "importing"

(* The file is parsed, the group found; the upload's own row and its       *)
(* errors are written, which is in nobody's way.                           *)
BeginImport(u) ==
    /\ upload[u].state = "new"
    /\ upload' = [upload EXCEPT ![u].state = "importing"]
    /\ UNCHANGED <<contacts, group, work, lock, edited>>

Waiting(u) == Importing(u) /\ Remaining(u) # {} /\ lock[NextPhone(u)] \notin {Nobody, u}

(* INSERT ... ON CONFLICT DO UPDATE, on what is committed by then.         *)
ImportRow(u) ==
    /\ Importing(u) /\ Remaining(u) # {} /\ ~Waiting(u)
    /\ LET n == NextPhone(u)
       IN /\ lock' = [lock EXCEPT ![n] = u]
          /\ work' = [work EXCEPT ![u][n] = Merged(contacts[n], u)]
    /\ upload' = [upload EXCEPT ![u].line = NextLine(u), ![u].valid = @ + 1]
    /\ UNCHANGED <<contacts, group, edited>>

Unlocked(u) == [n \in Phones |-> IF lock[n] = u THEN Nobody ELSE lock[n]]

Touched(u) == {n \in Phones : lock[n] = u}

CompleteImport(u) ==
    /\ Importing(u) /\ Remaining(u) = {}
    /\ contacts' = [n \in Phones |-> IF n \in Touched(u) THEN work[u][n] ELSE contacts[n]]
    /\ group' = group \cup Touched(u)
    /\ lock' = Unlocked(u)
    /\ upload' = [upload EXCEPT ![u].state = "completed"]
    /\ UNCHANGED <<work, edited>>

(* A plausible slip: the error path forgets ROLLBACK.                      *)
AbandonImport(u) ==
    /\ upload' = [upload EXCEPT ![u].state = "failed"]
    /\ UNCHANGED <<contacts, group, work, lock, edited>>

RollBackImport(u) ==
    /\ upload' = [upload EXCEPT ![u].state = "failed"]
    /\ work' = [work EXCEPT ![u] = [n \in Phones |-> NoRow]]
    /\ lock' = Unlocked(u)
    /\ UNCHANGED <<contacts, group, edited>>

FailImport(u) == Importing(u) /\ RollBackImport(u)

(* PostgreSQL finds uploads that wait for each other in a circle, and      *)
(* aborts one.                                                             *)
Circle(us) ==
    (\A u \in us : Waiting(u)) /\ {lock[NextPhone(u)] : u \in us} = us

BreakDeadlock(u) ==
    /\ \E us \in SUBSET Uploads : u \in us /\ Circle(us)
    /\ RollBackImport(u)

(* createContact and updateContact, one statement each.                    *)
EditContact(e, n) ==
    /\ e \notin edited /\ lock[n] = Nobody
    /\ contacts' = [contacts EXCEPT ![n] = Merged(@, e)]
    /\ edited' = edited \cup {e}
    /\ UNCHANGED <<group, upload, work, lock>>

ImportStep(u) == BeginImport(u) \/ ImportRow(u) \/ CompleteImport(u) \/ BreakDeadlock(u)

ContactNext ==
    \/ \E u \in Uploads : ImportStep(u) \/ FailImport(u)
    \/ \E e \in Edits, n \in Phones : EditContact(e, n)

(* A transaction goes on, and PostgreSQL looks for circles (deadlock_timeout).*)
ContactFairness == \A u \in Uploads : WF_contactVars(ImportStep(u))

ContactSpec == ContactInit /\ [][ContactNext]_contactVars /\ ContactFairness

-----------------------------------------------------------------------------
Completed == {u \in Uploads : upload[u].state = "completed"}

Lists(u, n) == \E i \in DOMAIN File[u] : File[u][i] = n

(* In whatever order uploads and requests come, wait and fail: a contact   *)
(* has the fields of every completed upload that lists it, and nothing of  *)
(* one that failed; the group has the numbers of the completed uploads;    *)
(* and an upload counts a number once.                                     *)
UploadsAddUp ==
    /\ \A n \in Phones : contacts[n] \ Edits = {u \in Completed : Lists(u, n)}
    /\ group = {n \in Phones : \E u \in Completed : Lists(u, n)}
    /\ \A e \in edited : \E n \in Phones : e \in contacts[n]
    /\ \A u \in Completed : upload[u].valid = Cardinality({n \in Phones : Lists(u, n)})

(* No upload waits for ever, not even for one that waits for it.           *)
EveryUploadEnds == <>[](\A u \in Uploads : ~Importing(u))
=============================================================================
