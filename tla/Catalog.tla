------------------------------ MODULE Catalog -------------------------------
(***************************************************************************)
(* A business's menus.  A line of a menu is an item, or an addon that      *)
(* belongs to groups of items; each refers to a base item, shared by name. *)
(* A base item has a row per branch that says whether it is available.     *)
(* Lines are created and changed by one upsert, and deleted in bulk; a     *)
(* base item goes with the last line a deletion finds for it, and takes    *)
(* every line that refers to it along.                                     *)
(***************************************************************************)
EXTENDS Requests

CONSTANTS
    MenuItems,  \* ids of MenuItem rows
    Addons,     \* ids of MenuItemAddon rows
    BaseItems,  \* names of base items
    Outlets     \* branches

ASSUME CatalogAssumption == MenuItems \cap Addons = {} /\ None \notin BaseItems

VARIABLES
    line,       \* the base item of each menu item and addon, None without a row
    grouped,    \* addons in some item's group: <<addon, item>>
    base,       \* base items that exist
    outlets,    \* branches that exist
    stocked,    \* BaseItemAvailability rows: <<branch, base item>>
    out,        \* those of them that say it is not available
    late,       \* history: branches that opened after a base item was set up
    swept,      \* history: lines that went with a base item
    racing      \* history: lines written while a deletion was dropping their base item

CatalogVars == <<line, grouped, base, outlets, stocked, out, late, swept, racing>>

Lines == MenuItems \cup Addons
Grouped(a, groups) == \E i \in MenuItems : <<a, i>> \in groups

CatalogInit ==
    /\ line = [l \in Lines |-> None] /\ grouped = {}
    /\ base = {} /\ outlets = {} /\ stocked = {} /\ out = {}
    /\ late = {} /\ swept = {} /\ racing = {}

Dropping(b) == \E w \in Workers : Doing(w, "delete") /\ b \in work[w].orphans

-----------------------------------------------------------------------------
(* The rows that make base items available at branches.                    *)
Bootstrapped(names, branches) == branches \X names

(* A base item is looked up by name, or created and then made available at *)
(* every branch there is.                                                  *)
StockedAt(b) == IF b \in base THEN {} ELSE outlets

(* A line of UpdateMenusView's payload.                                    *)
UpsertReads(w, l, b) ==
    /\ Free(w)
    /\ Starts(w, [op |-> "upsert", line |-> l, new |-> line[l] = None, base |-> b, found |-> b \in base,
                  outlets |-> StockedAt(b)])
    /\ UNCHANGED CatalogVars

(* RegisterMenusPhase3View only creates lines, and makes the base items it *)
(* found available as well.                                                *)
RegisterReads(w, l, b) ==
    /\ Free(w)
    /\ line[l] = None
    /\ Starts(w, [op |-> "register", line |-> l, new |-> TRUE, base |-> b, found |-> b \in base,
                  outlets |-> outlets])
    /\ UNCHANGED CatalogVars

(* On every level of a menu the update of a row that is gone changes       *)
(* nothing.                                                                *)
LineWritten(j) == j.new \/ line[j.line] # None

(* A base item found that is gone by now violates the foreign key, and so  *)
(* does a branch or an addon's item: the transaction is undone.            *)
LineUndone(j, i) ==
    \/ j.found /\ j.base \notin base
    \/ ~(j.outlets \subseteq outlets)
    \/ j.new /\ j.line \in Addons /\ line[i] = None

(* A line and the base item it refers to; an addon joins a group of an     *)
(* item with its row.                                                      *)
LineSaved(j, i) ==
    LET made == Bootstrapped({j.base}, j.outlets) IN
    /\ line' = IF LineWritten(j) THEN [line EXCEPT ![j.line] = j.base] ELSE line
    /\ grouped' = IF j.new /\ j.line \in Addons THEN grouped \cup {<<j.line, i>>} ELSE grouped
    /\ base' = base \cup {j.base}
    /\ stocked' = stocked \cup made
    /\ late' = IF j.base \in base THEN late \ made
               ELSE late \cup Bootstrapped({j.base}, outlets \ j.outlets)
    /\ swept' = swept \ {j.line}
    /\ racing' = IF Dropping(j.base) THEN racing \cup {j.line} ELSE racing \ {j.line}
    /\ UNCHANGED <<out, outlets>>

UpsertCommits(w, i) ==
    LET j == work[w] IN
    /\ Doing(w, "upsert") /\ Ends(w)
    /\ j.new => line[j.line] = None
    /\ IF LineUndone(j, i) THEN UNCHANGED CatalogVars ELSE LineSaved(j, i)

RegisterCommits(w, i) ==
    LET j == work[w] IN
    /\ Doing(w, "register") /\ Ends(w)
    /\ line[j.line] = None
    /\ IF LineUndone(j, i) THEN UNCHANGED CatalogVars ELSE LineSaved(j, i)

-----------------------------------------------------------------------------
ReferredByItems(items) == {line[i] : i \in MenuItems \ items}

\* A bug: base items that only addons refer to count as unused.
ReferredWithoutAddons(items, addons, groups) == ReferredByItems(items)

(* The base items in use without those lines.                              *)
Referred(items, addons, groups) ==
    ReferredByItems(items) \cup {line[a] : a \in {x \in Addons \ addons : Grouped(x, groups)}}

(* BulkDeleteMenuView up to the request that deletes images from storage:  *)
(* the lines chosen, with their item's groups, and the base items that no  *)
(* remaining item or grouped addon refers to.                              *)
DeleteReads(w, chosen) ==
    LET items == chosen \cap MenuItems
        addons == chosen \cap Addons
        groups == {g \in grouped : g[1] \notin addons /\ g[2] \notin items}
        affected == {line[l] : l \in chosen}
                      \cup {line[g[1]] : g \in {h \in grouped : h[2] \in items}} IN
    /\ Free(w)
    /\ chosen # {} /\ \A l \in chosen : line[l] # None
    /\ \A v \in Workers : Doing(v, "delete") => work[v].chosen \cap chosen = {}
    /\ Starts(w, [op |-> "delete", chosen |-> chosen, orphans |-> affected \ Referred(items, addons, groups)])
    /\ UNCHANGED CatalogVars

(* The rest of its transaction; the base items' rows go by cascade.        *)
DeleteCommits(w) ==
    LET j == work[w]
        gone == {l \in Lines : line[l] # None /\ line[l] \in j.orphans} IN
    /\ Doing(w, "delete") /\ Ends(w)
    /\ line' = [l \in Lines |-> IF l \in j.chosen \cup gone THEN None ELSE line[l]]
    /\ grouped' = {g \in grouped : {g[1], g[2]} \cap (j.chosen \cup gone) = {}}
    /\ base' = base \ j.orphans
    /\ stocked' = {s \in stocked : s[2] \notin j.orphans}
    /\ out' = {s \in out : s[2] \notin j.orphans}
    /\ late' = {s \in late : s[2] \notin j.orphans}
    /\ swept' = swept \cup {l \in gone \ j.chosen : l \in MenuItems
                                \/ \E i \in MenuItems \ j.chosen : <<l, i>> \in grouped}
    /\ UNCHANGED <<outlets, racing>>

-----------------------------------------------------------------------------
(* AvaliabilityView: a base item without a row at the branch is skipped.   *)
Toggle(o, b, available) ==
    /\ <<o, b>> \in stocked
    /\ out' = IF available THEN out \ {<<o, b>>} ELSE out \cup {<<o, b>>}
    /\ UNCHANGED <<work, line, grouped, base, outlets, stocked, late, swept, racing>>

(* BranchCreateUpdateView.post and the branches phase 2 creates: no rows   *)
(* for the base items there are.                                           *)
OutletOpens(o) ==
    /\ o \notin outlets
    /\ outlets' = outlets \cup {o}
    /\ late' = late \cup {<<o, b>> : b \in base}
    /\ UNCHANGED <<work, line, grouped, base, stocked, out, swept, racing>>

OutletCloses(o) ==
    /\ o \in outlets
    /\ outlets' = outlets \ {o}
    /\ stocked' = {s \in stocked : s[1] # o}
    /\ out' = {s \in out : s[1] # o}
    /\ late' = {s \in late : s[1] # o}
    /\ UNCHANGED <<work, line, grouped, base, swept, racing>>

-----------------------------------------------------------------------------
LinesNext(lines, bases) ==
    \E w \in Workers :
        \/ \E l \in lines, b \in bases : UpsertReads(w, l, b) \/ RegisterReads(w, l, b)
        \/ \E i \in MenuItems : UpsertCommits(w, i) \/ RegisterCommits(w, i)
        \/ \E chosen \in SUBSET lines : DeleteReads(w, chosen)
        \/ DeleteCommits(w)
        \/ Dies(w) /\ UNCHANGED CatalogVars

OutletsNext ==
    \/ \E o \in Outlets, b \in BaseItems, available \in BOOLEAN : Toggle(o, b, available)
    \/ \E o \in Outlets : OutletOpens(o) \/ OutletCloses(o)

-----------------------------------------------------------------------------
CatalogType ==
    /\ base \subseteq BaseItems /\ outlets \subseteq Outlets
    /\ \A l \in Lines : line[l] # None => line[l] \in base
    /\ \A g \in grouped : g \in Addons \X MenuItems /\ line[g[1]] # None /\ line[g[2]] # None
    /\ stocked \subseteq outlets \X base /\ out \subseteq stocked
    /\ late \subseteq outlets \X base /\ swept \subseteq Lines /\ racing \subseteq Lines

(* Every base item has its row at every branch that was there when it was  *)
(* set up; and a line that no deletion named goes only when it was written *)
(* to a base item a deletion was just dropping                             *)
(* (menu/utils/upsert_helpers.py:_resolve_base_items,                      *)
(* menu/views/delete.py:_cleanup_orphaned_base_items).                     *)
CatalogKept ==
    /\ (outlets \X base) \ stocked \subseteq late
    /\ swept \subseteq racing
=============================================================================
