----------------------------- MODULE SavedViews -----------------------------
(* The saved views of one page, user and tenant, which the tabs of a browser *)
(* keep in localStorage (src/control-plane/lib/saved-views.ts and            *)
(* local-persistence.ts): a tab reads them when it shows the page and after  *)
(* each write of its own, and every change writes the whole list back.       *)
(*                                                                           *)
(* A view is its name (lower case), whether it is the default, and a number  *)
(* that stands for its id.  localStorage (external) refuses a setItem when   *)
(* the quota is spent.                                                       *)
EXTENDS Naturals

CONSTANTS
    ViewTabs,
    ViewNames,
    MaxViewSaves,      \* bound: writes of localStorage
    Missing,           \* no such key, or a tab that does not show the page
    Corrupt            \* what is not JSON

ASSUME ViewAssumption == ViewNames # {}

VARIABLES
    current,           \* the key of version 2: a set of views, or Missing
    legacy,            \* the key of version 1, well formed, corrupt or Missing
    views,             \* what each tab shows: a set of views, or Missing
    viewSaves,             \* writes so far; also the ids given
    had                \* the views of version 1 at the start (history)

viewVars == <<current, legacy, views, viewSaves, had>>

View(i, n, d) == [id |-> i, name |-> n, isDefault |-> d]

OldViews == {Missing, Corrupt, {View(0, CHOOSE n \in ViewNames : TRUE, TRUE)}}

ViewsInit ==
    /\ current = Missing
    /\ legacy \in OldViews /\ had = legacy
    /\ views = [t \in ViewTabs |-> Missing]
    /\ viewSaves = 0

Migratable == legacy \notin {Missing, Corrupt}

(* The new key is set before the old one goes: a refused setItem keeps it.   *)
RemovedFirst(written) ==
    legacy' = Missing /\ current' = IF written THEN legacy ELSE current

Migrate(written) ==
    IF written THEN current' = legacy /\ legacy' = Missing ELSE UNCHANGED <<current, legacy>>

(* loadVersionedLocalState when the page is shown: the current key, else the *)
(* old one migrated, else no views; JSON that does not parse is removed.     *)
Show(t) ==
    /\ views[t] = Missing
    /\ \/ /\ current # Missing
          /\ views' = [views EXCEPT ![t] = current]
          /\ UNCHANGED <<current, legacy>>
       \/ /\ current = Missing /\ ~Migratable
          /\ views' = [views EXCEPT ![t] = {}]
          /\ legacy' = Missing /\ UNCHANGED current
       \/ /\ current = Missing /\ Migratable
          /\ \E written \in BOOLEAN :
               /\ Migrate(written)
               /\ views' = [views EXCEPT ![t] = IF written THEN legacy ELSE Missing]
    /\ UNCHANGED <<viewSaves, had>>

Hide(t) ==
    /\ views[t] # Missing
    /\ views' = [views EXCEPT ![t] = Missing]
    /\ UNCHANGED <<current, legacy, viewSaves, had>>

(* persist: the whole list is written, and read again by this tab alone.  A  *)
(* refused setItem throws before anything changes.                           *)
Persist(t, list) ==
    /\ viewSaves < MaxViewSaves
    /\ \/ /\ viewSaves' = viewSaves + 1
          /\ current' = list
          /\ views' = [views EXCEPT ![t] = list]
          /\ UNCHANGED <<legacy, had>>
       \/ UNCHANGED viewVars

(* saveView: the other views lose the default when this one takes it.        *)
Base(list, setDefault) ==
    {IF setDefault THEN [v EXCEPT !.isDefault = FALSE] ELSE v : v \in list}

SameName(list, n) == {v \in list : v.name = n}

SaveView(t, n, setDefault) ==
    /\ views[t] # Missing
    /\ LET list == views[t]
           same == SameName(list, n)
       IN Persist(t, IF same = {}
                     THEN Base(list, setDefault) \union {View(viewSaves + 1, n, setDefault)}
                     ELSE Base(list \ same, setDefault) \union
                          {[v EXCEPT !.isDefault = setDefault \/ @] : v \in same})

RemoveView(t, i) ==
    /\ views[t] # Missing
    /\ Persist(t, {v \in views[t] : v.id # i})

(* setDefaultView, with the view's id or null. *)
SetDefaultView(t, i) ==
    /\ views[t] # Missing
    /\ Persist(t, {[v EXCEPT !.isDefault = (v.id = i)] : v \in views[t]})

ViewsNext == \E t \in ViewTabs :
    \/ Show(t) \/ Hide(t)
    \/ \E n \in ViewNames, d \in BOOLEAN : SaveView(t, n, d)
    \/ views[t] # Missing /\ \E v \in views[t] : RemoveView(t, v.id)
    \/ views[t] # Missing /\ \E i \in {v.id : v \in views[t]} \union {MaxViewSaves + 1} :
          SetDefaultView(t, i)

ViewsSpec == ViewsInit /\ [][ViewsNext]_viewVars
-----------------------------------------------------------------------------
(* Whatever the tabs write over each other, what is stored and what a tab    *)
(* shows never has two defaults, two views of one name or two of one id      *)
(* (saveView, setDefaultView).                                               *)
ViewsAreSound ==
    \A list \in ({current} \union {views[t] : t \in ViewTabs}) \ {Missing} :
        \A v, w \in list : v # w => ~(v.isDefault /\ w.isDefault) /\ v.name # w.name /\ v.id # w.id

(* The views of the old version are not lost by their migration, also when   *)
(* localStorage refuses the write (loadVersionedLocalState).                 *)
OldViewsSurvive == had \notin {Missing, Corrupt} /\ viewSaves = 0 => had \in {current, legacy}

(* Saved views survive other tabs and a full localStorage: the two above.    *)
ViewsKept == ViewsAreSound /\ OldViewsSurvive
=============================================================================
