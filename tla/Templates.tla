------------------------------- MODULE Templates -------------------------------
(***************************************************************************)
(* A tenant's templates: one row per version.  An edit is two or three     *)
(* statements without a transaction: read the versions there are, make     *)
(* them inactive, insert the next one.  Nothing makes a version number or  *)
(* a name unique.  A message that names a template gets the active version *)
(* with the highest number, or the version it asks for.                    *)
(***************************************************************************)
EXTENDS Integers, FiniteSets

CONSTANTS
    Editors,        \* requests that edit a template
    Names,          \* names of templates
    MaxEdits        \* bound on edits

ASSUME EditAssumption == MaxEdits \in Nat

VARIABLES
    versions,   \* the rows of templates
    editor,     \* what each request has read, and how far it is
    edits,      \* edits begun: numbers rows, and the keys of new templates
    story       \* for the properties: how the rows came about

templateVars == <<versions, editor, edits, story>>

-----------------------------------------------------------------------------
Resting == [pc |-> "resting"]

ActiveChoices == {"yes", "no", "unset"}

Highest(rows) == {v \in rows : \A w \in rows : w.version <= v.version}

OfKey(k) == {v \in versions : v.key = k}

NamedRows(n) == {v \in versions : v.name = n}

(* resolveTemplate: what a reference without and one with a version finds. *)
Served(n) == Highest({v \in NamedRows(n) : v.active})

ServedAt(n, i) == {v \in NamedRows(n) : v.version = i}

TemplateInit ==
    /\ versions = {} /\ edits = 0
    /\ editor = [e \in Editors |-> Resting]
    /\ story = [ clean    |-> TRUE,     \* no edit overlapped another or stopped half way
                 together |-> {},       \* <<older, newer>>: edits at the same time
                 unasked  |-> {},       \* edits that insert an active row and retire none
                 backward |-> {},       \* updates of a row that was not the newest
                 names    |-> {},       \* <<key, name>> of every row there has been
                 promoted |-> [n \in Names |-> -1] ]     \* the last row inserted active

Begins(e, edit) ==
    /\ editor[e] = Resting
    /\ edits < MaxEdits /\ edits' = edits + 1
    /\ editor' = [editor EXCEPT ![e] = edit]
    /\ UNCHANGED versions

Alone == \A e \in Editors : editor[e] = Resting

EditTold(unasked, backward) ==
    [story EXCEPT !.clean    = @ /\ Alone,
                  !.together = @ \cup {<<editor[f].id, edits>> : f \in {f \in Editors : editor[f] # Resting}},
                  !.unasked  = IF unasked  THEN @ \cup {edits} ELSE @,
                  !.backward = IF backward THEN @ \cup {edits} ELSE @]

NextVersion(rows) == (CHOOSE v \in Highest(rows) : TRUE).version + 1

(* createTemplate reads one of the templates that have the name.           *)
ReadForCreate(e, n, choice) ==
    /\ \/ /\ NamedRows(n) = {}
          /\ Begins(e, [ id |-> edits, pc |-> IF choice = "yes" THEN "retire name" ELSE "insert",
                         key |-> edits, name |-> n, version |-> 1, active |-> choice # "no" ])
       \/ \E v \in NamedRows(n) :
            Begins(e, [ id |-> edits, pc |-> IF choice = "yes" THEN "retire name" ELSE "insert",
                        key |-> v.key, name |-> n, active |-> choice # "no",
                        version |-> NextVersion({w \in OfKey(v.key) : w.name = n}) ])
    /\ story' = EditTold(choice = "unset", FALSE)

(* A plausible slip: dto.isActive without its default.                     *)
RetiresIfAsked(choice) == choice = "yes"

Retires(choice) == choice # "no"

(* updateTemplate numbers from the row that is edited, and may rename it.  *)
ReadForUpdate(e, v, n, choice) ==
    /\ Begins(e, [ id |-> edits, pc |-> IF Retires(choice) THEN "retire key" ELSE "insert",
                   key |-> v.key, name |-> n, version |-> v.version + 1,
                   active |-> choice # "no" ])
    /\ story' = EditTold(FALSE, v \notin Highest(OfKey(v.key)))

RetireAll(rows) == (versions \ rows) \cup {[v EXCEPT !.active = FALSE] : v \in rows}

Retire(e) ==
    /\ \/ /\ editor[e].pc = "retire name"
          /\ versions' = RetireAll(NamedRows(editor[e].name))
       \/ /\ editor[e].pc = "retire key"
          /\ versions' = RetireAll(OfKey(editor[e].key))
    /\ editor' = [editor EXCEPT ![e].pc = "insert"]
    /\ UNCHANGED <<edits, story>>

InsertVersion(e) ==
    /\ editor[e].pc = "insert"
    /\ LET x == editor[e]
       IN /\ versions' = versions \cup
                {[id |-> x.id, key |-> x.key, name |-> x.name,
                  version |-> x.version, active |-> x.active]}
          /\ story' = [story EXCEPT !.names = @ \cup {<<x.key, x.name>>},
                                    !.promoted[x.name] = IF x.active THEN x.id ELSE @]
    /\ editor' = [editor EXCEPT ![e] = Resting]
    /\ UNCHANGED edits

(* The process dies, or a statement fails, between two of them.            *)
BreakOff(e) ==
    /\ editor[e] # Resting
    /\ editor' = [editor EXCEPT ![e] = Resting]
    /\ story' = [story EXCEPT !.clean = FALSE]
    /\ UNCHANGED <<versions, edits>>

DeleteTemplate(v) ==
    /\ versions' = versions \ {v}
    /\ UNCHANGED <<editor, edits, story>>

TemplateNext ==
    \/ \E e \in Editors :
         \/ \E n \in Names, choice \in ActiveChoices :
              \/ ReadForCreate(e, n, choice)
              \/ \E v \in versions : ReadForUpdate(e, v, n, choice)
         \/ Retire(e) \/ InsertVersion(e) \/ BreakOff(e)
    \/ \E v \in versions : DeleteTemplate(v)

TemplateSpec == TemplateInit /\ [][TemplateNext]_templateVars

-----------------------------------------------------------------------------
(* No name has ever been used by two templates, nor two names by one.      *)
Unmixed == \A a, b \in story.names : (a[1] = b[1]) = (a[2] = b[2])

(* If edits neither overlap nor stop half way, and no template is renamed, *)
(* a reference to a name gets the version that was made active last, for   *)
(* as long as that version is not deleted - whether it was made from the   *)
(* newest version or from an old one, and whatever number it has.          *)
ServesPromoted ==
    story.clean /\ Unmixed /\ Alone =>
        \A n \in Names : \A v \in versions :
            v.id = story.promoted[n] => Served(n) = {v}

(* If besides only the newest version of a template is edited, a name and  *)
(* a version stand for one row, in spite of deletions.                     *)
VersionNamesOne ==
    story.clean /\ Unmixed /\ story.backward = {} =>
        \A n \in Names, i \in 1..MaxEdits : Cardinality(ServedAt(n, i)) <= 1

(* Edits do overlap and stop half way.  Two rows of one template are then  *)
(* active together, or have one version number, only if the very edits     *)
(* that made them were under way at the same time, or the later of the two *)
(* retired nothing or was made from an old version: an edit that overlaps  *)
(* no other clears up what overlapping ones left.                          *)
ClashesOverlapped ==
    \A v, w \in versions : v.id < w.id /\ v.key = w.key /\ v.name = w.name =>
        \/ <<v.id, w.id>> \in story.together
        \/ /\ v.active /\ w.active => w.id \in story.unasked
           /\ v.version = w.version => w.id \in story.backward

(* A message that refers to a template by its name, or by name and         *)
(* version, gets the text its editors last made active, or the one that    *)
(* had that version; where it does not, two overlapping edits are to blame *)
(* (createTemplate, updateTemplate, resolveTemplate).                      *)
VersionsHold == ServesPromoted /\ VersionNamesOne /\ ClashesOverlapped
=============================================================================
