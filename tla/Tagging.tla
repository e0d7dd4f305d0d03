------------------------------ MODULE Tagging -------------------------------
(***************************************************************************)
(* The platform's tags, which administrators attach to the categories of   *)
(* businesses and collect in groups.  A decision replaces the whole set:   *)
(* the set that is there is read, what is missing from the decision is     *)
(* taken away and what is new is added, in a transaction that locks        *)
(* nothing.  A tag is looked up by its name without regard to case before  *)
(* it is created; the database compares slugs.                             *)
(***************************************************************************)
EXTENDS Requests

CONSTANTS
    TagIds,     \* ids of tags, none is used twice
    Spellings,  \* names a tag may be given
    Fold,       \* Fold[s]: the name s in lower case
    Slug,       \* Slug[s]: its slug
    Categories, \* categories of menus
    Groups      \* groups of tags

ASSUME TaggingAssumption ==
    /\ None \notin Spellings \cup Groups
    /\ \A s, r \in Spellings : Fold[s] = Fold[r] => Slug[s] = Slug[r]

VARIABLES
    spelled,    \* the name of each tag, None without a row
    used,       \* ids that were given away
    tagged,     \* the tags of each category
    grouping,   \* the group of each tag, None without one
    groups,     \* groups that exist
    decided     \* history: the decisions that made each category's tags what they are

TaggingVars == <<spelled, used, tagged, grouping, groups, decided>>

Tags == {t \in TagIds : spelled[t] # None}
InGroup(g) == {t \in Tags : grouping[t] = g}

TaggingInit ==
    /\ spelled = [t \in TagIds |-> None] /\ used = {}
    /\ tagged = [c \in Categories |-> {}] /\ decided = [c \in Categories |-> {{}}]
    /\ grouping = [t \in TagIds |-> None] /\ groups = {}

-----------------------------------------------------------------------------
(* GlobalTagCreateView, get_or_create.                                     *)
TagLooked(w, s) ==
    /\ Free(w)
    /\ \A t \in Tags : Fold[spelled[t]] # Fold[s]
    /\ Starts(w, [op |-> "tag", name |-> s])
    /\ UNCHANGED TaggingVars

\* A bug: tags have no slug, and names are unique as they are spelled.
TakenAsSpelled(s) == \E t \in Tags : spelled[t] = s
Taken(s) == \E t \in Tags : Slug[spelled[t]] = Slug[s]

(* A tag that is in the way by now is returned, if its name is the same.   *)
TagCreated(w, t) ==
    LET s == work[w].name IN
    /\ Doing(w, "tag") /\ Ends(w)
    /\ IF Taken(s) THEN UNCHANGED <<spelled, used>>
       ELSE t \notin used /\ used' = used \cup {t} /\ spelled' = [spelled EXCEPT ![t] = s]
    /\ UNCHANGED <<tagged, grouping, groups, decided>>

(* GlobalTagDeleteView; its categories lose it.                            *)
TagDeleted(t) ==
    /\ t \in Tags
    /\ spelled' = [spelled EXCEPT ![t] = None]
    /\ tagged' = [c \in Categories |-> tagged[c] \ {t}]
    /\ grouping' = [grouping EXCEPT ![t] = None]
    /\ UNCHANGED <<work, used, groups, decided>>

-----------------------------------------------------------------------------
Decides(v, c) == Doing(v, "decide") /\ work[v].category = c

(* CategoryTagsUpdateView: ids without a tag are left out.                 *)
DecisionReads(w, c, ids) ==
    LET others == {v \in Workers : Decides(v, c)}
        job == [op |-> "decide", category |-> c, decision |-> ids \cap Tags, was |-> tagged[c],
                alone |-> others = {}] IN
    /\ Free(w)
    /\ work' = [v \in Workers |-> IF v = w THEN job
                                  ELSE IF v \in others THEN [work[v] EXCEPT !.alone = FALSE] ELSE work[v]]
    /\ UNCHANGED TaggingVars

Replaced(now, was, decision) == (now \ (was \ decision)) \cup (decision \ was)

(* A tag to be added that is gone violates the foreign key.                *)
DecisionCommits(w) ==
    LET j == work[w]
        c == j.category IN
    /\ Doing(w, "decide") /\ Ends(w)
    /\ IF j.decision \ j.was \subseteq Tags
       THEN /\ tagged' = [tagged EXCEPT ![c] = Replaced(@, j.was, j.decision)]
            /\ decided' = [decided EXCEPT ![c] = (IF j.alone THEN {} ELSE @) \cup {j.decision}]
       ELSE UNCHANGED <<tagged, decided>>
    /\ UNCHANGED <<spelled, used, grouping, groups>>

-----------------------------------------------------------------------------
(* TagGroupSerializer.create and update.  A tag that is taken away from a  *)
(* group is only if it is still there, one that is added leaves its group. *)
GroupReads(w, g, ids) ==
    /\ Free(w)
    /\ groups' = groups \cup {g}
    /\ Starts(w, [op |-> "group", group |-> g, ids |-> ids \cap Tags, was |-> InGroup(g)])
    /\ UNCHANGED <<spelled, used, tagged, grouping, decided>>

GroupCommits(w) ==
    LET j == work[w]
        added == (j.ids \ j.was) \cap Tags
        removed == (j.was \ j.ids) \cap InGroup(j.group) IN
    /\ Doing(w, "group") /\ Ends(w)
    /\ grouping' = IF j.group \notin groups THEN grouping
                   ELSE [t \in TagIds |-> IF t \in added THEN j.group
                                          ELSE IF t \in removed THEN None ELSE grouping[t]]
    /\ UNCHANGED <<spelled, used, tagged, groups, decided>>

GroupDeleted(g) ==
    /\ g \in groups
    /\ groups' = groups \ {g}
    /\ grouping' = [t \in TagIds |-> IF t \in InGroup(g) THEN None ELSE grouping[t]]
    /\ UNCHANGED <<work, spelled, used, tagged, decided>>

-----------------------------------------------------------------------------
TagsNext(names) ==
    \/ \E w \in Workers, s \in names : TagLooked(w, s)
    \/ \E w \in Workers, t \in TagIds : TagCreated(w, t)
    \/ \E t \in TagIds : TagDeleted(t)
    \/ \E w \in Workers : Dies(w) /\ UNCHANGED TaggingVars

DecisionsNext ==
    \/ \E w \in Workers, c \in Categories, ids \in SUBSET TagIds : DecisionReads(w, c, ids)
    \/ \E w \in Workers : DecisionCommits(w)

GroupsNext ==
    \/ \E w \in Workers, g \in Groups, ids \in SUBSET TagIds : GroupReads(w, g, ids)
    \/ \E w \in Workers : GroupCommits(w)
    \/ \E g \in Groups : GroupDeleted(g)

-----------------------------------------------------------------------------
TaggingType ==
    /\ spelled \in [TagIds -> Spellings \cup {None}] /\ Tags \subseteq used
    /\ tagged \in [Categories -> SUBSET Tags]
    /\ groups \subseteq Groups
    /\ \A t \in TagIds : grouping[t] # None => t \in Tags /\ grouping[t] \in groups

(* Two administrators who create a tag at the same time do not make one    *)
(* twice; a category's tags are what was decided last, and decisions that  *)
(* overlapped leave no tag that none of them wanted and lose none that all *)
(* of them did (menu/views/tagging.py, menu/models/categories.py).         *)
TagsAsDecided ==
    /\ \A t, u \in Tags : Fold[spelled[t]] = Fold[spelled[u]] => t = u
    /\ \A c \in Categories :
          /\ tagged[c] \subseteq UNION decided[c]
          /\ \A t \in Tags : (\A d \in decided[c] : t \in d) => t \in tagged[c]
=============================================================================
