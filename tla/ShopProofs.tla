----------------------------- MODULE ShopProofs ------------------------------
(***************************************************************************)
(* Theorems about what a shop shows and sells, for any number of lines,    *)
(* tags, pictures, stores, branches, sales and workers: Catalog, Tagging,  *)
(* Pictures, Browsing and Checkout.  Every part steps as a whole: all its  *)
(* actions, all its inputs.                                                *)
(***************************************************************************)
EXTENDS Catalog, Tagging, Pictures, Browsing, Checkout, SumProofs, SequenceTheorems, TLAPS

\* The work of one worker changes.
LEMMA WorkStep ==
  ASSUME work = [v \in Workers |-> work[v]], NEW w \in Workers, NEW job,
         work' = [work EXCEPT ![w] = job]
  PROVE  /\ work' = [v \in Workers |-> work'[v]]
         /\ work'[w] = job /\ \A v \in Workers : v # w => work'[v] = work[v]
  OBVIOUS

-----------------------------------------------------------------------------
(* Catalog. *)
CatalogNext == LinesNext(Lines, BaseItems) \/ OutletsNext
CatalogSpec == RequestsInit /\ CatalogInit /\ [][CatalogNext]_<<work, CatalogVars>>

\* A line of the two upserts as its worker remembers it.
LineJob(j) ==
  j.line \in Lines /\ j.base \in BaseItems /\ j.outlets \subseteq Outlets

CatalogWork ==
  /\ work = [w \in Workers |-> work[w]]
  /\ \A w \in Workers : Doing(w, "upsert") \/ Doing(w, "register") => LineJob(work[w])

CatalogTypes == CatalogType /\ line = [l \in Lines |-> line[l]] /\ grouped \subseteq Addons \X MenuItems

\* A line a deletion leaves alone: an item, or an addon of such an item.
Spared(l, chosen) ==
  l \notin chosen /\ (l \in MenuItems \/ \E i \in MenuItems \ chosen : <<l, i>> \in grouped)

(* Why only racing lines are swept: no line a deletion spares refers to a  *)
(* base item the deletion drops, but for those written meanwhile.          *)
DropsOwn ==
  \A w \in Workers : Doing(w, "delete") =>
    \A l \in Lines : line[l] # None /\ line[l] \in work[w].orphans /\ Spared(l, work[w].chosen)
      => l \in racing

CatalogInv == CatalogWork /\ CatalogTypes /\ CatalogKept /\ DropsOwn

LEMMA CatalogWorkStep ==
  ASSUME CatalogWork, NEW w \in Workers, NEW job, work' = [work EXCEPT ![w] = job],
         job.op \in {"upsert", "register"} => LineJob(job)
  PROVE  /\ CatalogWork'
         /\ work'[w] = job /\ \A v \in Workers : v # w => work'[v] = work[v]
<1>1. /\ work' = [v \in Workers |-> work'[v]]
      /\ work'[w] = job /\ \A v \in Workers : v # w => work'[v] = work[v]
  BY WorkStep DEF CatalogWork
<1> QED BY <1>1 DEF CatalogWork, Doing, LineJob

\* A worker that stops or remembers a line.
LEMMA CatalogKeptBy ==
  ASSUME CatalogInv, UNCHANGED CatalogVars, NEW w \in Workers, NEW job,
         work' = [work EXCEPT ![w] = job], job.op # "delete",
         job.op \in {"upsert", "register"} => LineJob(job)
  PROVE  CatalogInv'
<1>1. /\ CatalogWork'
      /\ work'[w] = job /\ \A v \in Workers : v # w => work'[v] = work[v]
  BY CatalogWorkStep DEF CatalogInv
<1>2. DropsOwn'
  BY <1>1 DEF CatalogInv, DropsOwn, Doing, Spared, CatalogVars
<1>3. CatalogTypes' /\ CatalogKept'
  BY DEF CatalogInv, CatalogTypes, CatalogType, CatalogKept, CatalogVars
<1> QED BY <1>1, <1>2, <1>3 DEF CatalogInv

LEMMA LineReadKeeps ==
  ASSUME CatalogInv, NEW w \in Workers, NEW l \in Lines, NEW b \in BaseItems,
         UpsertReads(w, l, b) \/ RegisterReads(w, l, b)
  PROVE  CatalogInv'
<1>1. outlets \subseteq Outlets /\ StockedAt(b) \subseteq Outlets
  BY DEF CatalogInv, CatalogTypes, CatalogType, StockedAt
<1>2. PICK job : /\ work' = [work EXCEPT ![w] = job] /\ LineJob(job) /\ job.op # "delete"
  <2>1. CASE UpsertReads(w, l, b)
    <3> DEFINE job == [op |-> "upsert", line |-> l, new |-> line[l] = None, base |-> b,
                       found |-> b \in base, outlets |-> StockedAt(b)]
    <3>1. work' = [work EXCEPT ![w] = job] /\ LineJob(job) /\ job.op # "delete"
      BY <1>1, <2>1 DEF UpsertReads, Starts, LineJob
    <3> HIDE DEF job
    <3> QED BY <3>1
  <2>2. CASE RegisterReads(w, l, b)
    <3> DEFINE job == [op |-> "register", line |-> l, new |-> TRUE, base |-> b,
                       found |-> b \in base, outlets |-> outlets]
    <3>1. work' = [work EXCEPT ![w] = job] /\ LineJob(job) /\ job.op # "delete"
      BY <1>1, <2>2 DEF RegisterReads, Starts, LineJob
    <3> HIDE DEF job
    <3> QED BY <3>1
  <2> QED BY <2>1, <2>2
<1>4. UNCHANGED CatalogVars
  BY DEF UpsertReads, RegisterReads
<1> QED BY <1>2, <1>4, CatalogKeptBy

LEMMA CatalogDies ==
  ASSUME CatalogInv, NEW w \in Workers, work' = [work EXCEPT ![w] = Idle], UNCHANGED CatalogVars
  PROVE  CatalogInv'
<1>1. Idle.op \notin {"delete", "upsert", "register"}
  BY DEF Idle
<1> QED BY <1>1, CatalogKeptBy

LEMMA LineSavedKeeps ==
  ASSUME CatalogInv, NEW w \in Workers, NEW i \in MenuItems,
         work' = [work EXCEPT ![w] = Idle], LineJob(work[w]), work[w].op \in {"upsert", "register"},
         work[w].new => line[work[w].line] = None,
         ~LineUndone(work[w], i), LineSaved(work[w], i)
  PROVE  CatalogInv'
<1> DEFINE j == work[w]
           l == j.line
           b == j.base
           made == j.outlets \X {b}
<1>1. l \in Lines /\ b \in BaseItems /\ j.outlets \subseteq outlets
      /\ (j.new /\ l \in Addons => line[i] # None)
  BY DEF LineJob, LineUndone
<1>2. /\ line' = IF j.new \/ line[l] # None THEN [line EXCEPT ![l] = b] ELSE line
      /\ grouped' = IF j.new /\ l \in Addons THEN grouped \cup {<<l, i>>} ELSE grouped
      /\ base' = base \cup {b} /\ stocked' = stocked \cup made
      /\ late' = IF b \in base THEN late \ made ELSE late \cup ((outlets \ j.outlets) \X {b})
      /\ swept' = swept \ {l}
      /\ racing' = IF Dropping(b) THEN racing \cup {l} ELSE racing \ {l}
      /\ UNCHANGED <<out, outlets>>
  BY DEF LineSaved, LineWritten, Bootstrapped
<1>3. Idle.op \notin {"delete", "upsert", "register"}
  BY DEF Idle
<1>4. CatalogWork' /\ \A v \in Workers : v # w => work'[v] = work[v]
  BY <1>3, CatalogWorkStep DEF CatalogInv
<1>5. \A v \in Workers : Doing(v, "delete")' => Doing(v, "delete") /\ work'[v] = work[v]
  BY <1>3, <1>4, CatalogWorkStep DEF CatalogInv, Doing
<1>6. /\ line' = [k \in Lines |-> line'[k]] /\ \A k \in Lines : k # l => line'[k] = line[k]
      /\ line'[l] = IF j.new \/ line[l] # None THEN b ELSE None
  BY <1>1, <1>2 DEF CatalogInv, CatalogTypes
<1> HIDE DEF made, b, l, j
<1>7. CatalogKept'
  <2>1. swept' \subseteq racing'
    BY <1>2 DEF CatalogInv, CatalogKept
  <2>2. ASSUME NEW o \in outlets, NEW c \in base \cup {b}, <<o, c>> \notin stocked \cup made
        PROVE  <<o, c>> \in late'
    <3>1. CASE c \in base
      BY <1>2, <2>2, <3>1 DEF CatalogInv, CatalogKept
    <3>2. CASE c \notin base
      BY <1>2, <2>2, <3>2 DEF made
    <3> QED BY <3>1, <3>2
  <2> QED BY <1>2, <2>1, <2>2 DEF CatalogKept
<1>8. CatalogTypes'
  <2>1. \A k \in Lines : line'[k] # None => line'[k] \in base'
    BY <1>2, <1>6 DEF CatalogInv, CatalogTypes, CatalogType
  <2>2. grouped' \subseteq Addons \X MenuItems
    BY <1>2 DEF CatalogInv, CatalogTypes
  <2>3. stocked' \subseteq outlets' \X base' /\ out' \subseteq stocked'
    BY <1>1, <1>2 DEF CatalogInv, CatalogTypes, CatalogType, made
  <2>4. late' \subseteq outlets' \X base'
    BY <1>1, <1>2 DEF CatalogInv, CatalogTypes, CatalogType, made
  <2>5. base' \subseteq BaseItems /\ outlets' \subseteq Outlets /\ swept' \subseteq Lines /\ racing' \subseteq Lines
    BY <1>1, <1>2 DEF CatalogInv, CatalogTypes, CatalogType
  <2>6. ASSUME NEW a \in Addons, NEW k \in MenuItems, <<a, k>> \in grouped'
        PROVE  line'[a] # None /\ line'[k] # None
    <3>1. b # None /\ a \in Lines /\ k \in Lines /\ a # k
      BY <1>1, CatalogAssumption DEF Lines
    <3>2. CASE <<a, k>> \in grouped
      BY <1>6, <3>1, <3>2 DEF CatalogInv, CatalogTypes, CatalogType
    <3>3. CASE <<a, k>> \notin grouped
      <4>1. j.new /\ l \in Addons /\ a = l /\ k = i
        BY <1>2, <2>6, <3>3
      <4> QED BY <1>1, <1>6, <3>1, <4>1
    <3> QED BY <3>2, <3>3
  <2>7. \A g \in grouped' : g \in Addons \X MenuItems /\ line'[g[1]] # None /\ line'[g[2]] # None
    BY <2>2, <2>6
  <2> QED BY <1>6, <2>1, <2>2, <2>3, <2>4, <2>5, <2>7 DEF CatalogTypes, CatalogType
<1>9. DropsOwn'
  <2> SUFFICES ASSUME NEW v \in Workers, Doing(v, "delete")', NEW k \in Lines, line'[k] # None,
                      line'[k] \in work'[v].orphans, Spared(k, work[v].chosen)'
               PROVE  k \in racing'
    BY DEF DropsOwn, Spared
  <2>1. Doing(v, "delete") /\ work'[v] = work[v]
    BY <1>5
  <2>2. CASE k = l /\ line'[k] = b
    BY <1>2, <2>1, <2>2 DEF Dropping
  <2>3. CASE ~(k = l /\ line'[k] = b)
    <3>1. line'[k] = line[k] /\ k # l
      BY <1>6, <2>3
    <3>2. Spared(k, work[v].chosen)
      BY <1>2, <2>1, <3>1 DEF Spared
    <3>3. k \in racing
      BY <2>1, <3>1, <3>2 DEF CatalogInv, DropsOwn
    <3> QED BY <1>2, <3>1, <3>3
  <2> QED BY <2>2, <2>3
<1> QED BY <1>4, <1>7, <1>8, <1>9 DEF CatalogInv

LEMMA LineCommitsKeeps ==
  ASSUME CatalogInv, NEW w \in Workers, NEW i \in MenuItems, UpsertCommits(w, i) \/ RegisterCommits(w, i)
  PROVE  CatalogInv'
<1>1. /\ work' = [work EXCEPT ![w] = Idle] /\ work[w].op \in {"upsert", "register"}
      /\ work[w].new => line[work[w].line] = None
      /\ IF LineUndone(work[w], i) THEN UNCHANGED CatalogVars ELSE LineSaved(work[w], i)
  BY DEF UpsertCommits, RegisterCommits, Ends, Doing
<1>2. LineJob(work[w])
  BY <1>1 DEF CatalogInv, CatalogWork, Doing
<1>3. CASE LineUndone(work[w], i)
  BY <1>1, <1>3, CatalogDies
<1>4. CASE ~LineUndone(work[w], i)
  BY <1>1, <1>2, <1>4, LineSavedKeeps
<1> QED BY <1>3, <1>4

\* What a deletion is about to drop is referred to by no line it spares.
LEMMA DeleteReadsKeeps ==
  ASSUME CatalogInv, NEW w \in Workers, NEW chosen \in SUBSET Lines, DeleteReads(w, chosen)
  PROVE  CatalogInv'
<1> DEFINE items == chosen \cap MenuItems
           addons == chosen \cap Addons
           staying == {g \in grouped : g[1] \notin addons /\ g[2] \notin items}
           affected == {line[l] : l \in chosen} \cup {line[g[1]] : g \in {h \in grouped : h[2] \in items}}
           orphans == affected \ Referred(items, addons, staying)
           job == [op |-> "delete", chosen |-> chosen, orphans |-> orphans]
<1>1. work' = [work EXCEPT ![w] = job] /\ UNCHANGED CatalogVars
  BY DEF DeleteReads, Starts
<1>2. ASSUME NEW l \in Lines, line[l] # None, line[l] \in orphans
      PROVE  ~Spared(l, chosen)
  <2>1. l \in Lines /\ line[l] \notin Referred(items, addons, staying)
    BY <1>2
  <2>2. CASE l \in MenuItems
    BY <2>1, <2>2 DEF Referred, ReferredByItems, Spared
  <2>3. CASE l \notin MenuItems
    <3>1. l \in Addons
      BY <2>3 DEF Lines
    <3> SUFFICES ASSUME NEW i \in MenuItems \ chosen, <<l, i>> \in grouped, l \notin chosen PROVE FALSE
      BY <2>3 DEF Spared
    <3>2. <<l, i>> \in staying
      OBVIOUS
    <3>3. Grouped(l, staying)
      BY <3>2 DEF Grouped
    <3> QED BY <2>1, <3>1, <3>3 DEF Referred
  <2> QED BY <2>2, <2>3
<1>3. job.op = "delete" /\ job.chosen = chosen /\ job.orphans = orphans
  OBVIOUS
<1> HIDE DEF job, orphans
<1>4. CatalogWork' /\ work'[w] = job /\ \A v \in Workers : v # w => work'[v] = work[v]
  BY <1>1, <1>3, CatalogWorkStep DEF CatalogInv
<1>5. DropsOwn'
  BY <1>1, <1>2, <1>3, <1>4 DEF CatalogInv, DropsOwn, Doing, Spared, CatalogVars
<1>6. CatalogTypes' /\ CatalogKept'
  BY <1>1 DEF CatalogInv, CatalogTypes, CatalogType, CatalogKept, CatalogVars
<1> QED BY <1>4, <1>5, <1>6 DEF CatalogInv

LEMMA DeleteCommitsKeeps ==
  ASSUME CatalogInv, NEW w \in Workers, DeleteCommits(w)
  PROVE  CatalogInv'
<1> DEFINE chosen == work[w].chosen
           orphans == work[w].orphans
           gone == {l \in Lines : line[l] # None /\ line[l] \in orphans}
           all == chosen \cup gone
<1>1. /\ Doing(w, "delete") /\ work' = [work EXCEPT ![w] = Idle]
      /\ line' = [l \in Lines |-> IF l \in all THEN None ELSE line[l]]
      /\ grouped' = {g \in grouped : {g[1], g[2]} \cap all = {}}
      /\ base' = base \ orphans /\ stocked' = {s \in stocked : s[2] \notin orphans}
      /\ out' = {s \in out : s[2] \notin orphans} /\ late' = {s \in late : s[2] \notin orphans}
      /\ swept' = swept \cup {l \in gone \ chosen : l \in MenuItems
                                \/ \E i \in MenuItems \ chosen : <<l, i>> \in grouped}
      /\ UNCHANGED <<outlets, racing>>
  BY DEF DeleteCommits, Ends
<1>2. Idle.op \notin {"delete", "upsert", "register"}
  BY DEF Idle
<1>3. CatalogWork' /\ work'[w] = Idle /\ \A v \in Workers : v # w => work'[v] = work[v]
  BY <1>1, <1>2, CatalogWorkStep DEF CatalogInv
<1>4. \A l \in gone \ chosen : (l \in MenuItems \/ \E i \in MenuItems \ chosen : <<l, i>> \in grouped)
        => l \in racing
  BY <1>1 DEF CatalogInv, DropsOwn, Spared
<1>5. gone \subseteq Lines
  OBVIOUS
<1>6. \A l \in Lines : line'[l] # None => line'[l] = line[l] /\ line[l] \notin orphans
  BY <1>1
<1> HIDE DEF orphans, chosen, gone
<1>7. CatalogKept'
  BY <1>1, <1>4 DEF CatalogInv, CatalogKept, CatalogTypes, CatalogType
<1>8. CatalogTypes'
  <2>1. \A g \in grouped' : g \in Addons \X MenuItems /\ line'[g[1]] # None /\ line'[g[2]] # None
    BY <1>1 DEF CatalogInv, CatalogTypes, CatalogType, Lines
  <2>2. \A l \in Lines : line'[l] # None => line'[l] \in base'
    BY <1>1, <1>6 DEF CatalogInv, CatalogTypes, CatalogType
  <2>3. line' = [l \in Lines |-> line'[l]]
    BY <1>1
  <2>4. stocked' \subseteq outlets' \X base' /\ late' \subseteq outlets' \X base' /\ out' \subseteq stocked'
    BY <1>1 DEF CatalogInv, CatalogTypes, CatalogType
  <2>5. base' \subseteq BaseItems /\ outlets' \subseteq Outlets /\ swept' \subseteq Lines /\ racing' \subseteq Lines
    BY <1>1, <1>5 DEF CatalogInv, CatalogTypes, CatalogType
  <2>6. grouped' \subseteq Addons \X MenuItems
    BY <1>1 DEF CatalogInv, CatalogTypes
  <2> QED BY <2>1, <2>2, <2>3, <2>4, <2>5, <2>6 DEF CatalogTypes, CatalogType
<1>9. DropsOwn'
  BY <1>1, <1>2, <1>3, <1>6 DEF CatalogInv, DropsOwn, Doing, Spared
<1> QED BY <1>3, <1>7, <1>8, <1>9 DEF CatalogInv

\* What branches do touches no line.
LEMMA OutletsKeep ==
  ASSUME CatalogInv, UNCHANGED <<work, line, grouped, base, swept, racing>>, CatalogTypes',
         (outlets' \X base') \ stocked' \subseteq late'
  PROVE  CatalogInv'
  BY DEF CatalogInv, CatalogWork, CatalogKept, DropsOwn, Spared, Doing, LineJob

LEMMA OutletStepsKeep ==
  ASSUME CatalogInv, OutletsNext
  PROVE  CatalogInv'
<1>1. ASSUME NEW o \in Outlets, NEW b \in BaseItems, NEW available \in BOOLEAN, Toggle(o, b, available)
      PROVE  CatalogInv'
  <2>1. /\ <<o, b>> \in stocked /\ UNCHANGED <<work, line, grouped, base, outlets, stocked, late, swept, racing>>
        /\ out' = out \ {<<o, b>>} \/ out' = out \cup {<<o, b>>}
    BY <1>1 DEF Toggle
  <2> QED BY <2>1, OutletsKeep DEF CatalogInv, CatalogTypes, CatalogType, CatalogKept
<1>2. ASSUME NEW o \in Outlets, OutletOpens(o)
      PROVE  CatalogInv'
  <2>1. /\ outlets' = outlets \cup {o} /\ late' = late \cup {<<o, b>> : b \in base}
        /\ UNCHANGED <<work, line, grouped, base, stocked, out, swept, racing>>
    BY <1>2 DEF OutletOpens
  <2>2. (outlets' \X base') \ stocked' \subseteq late'
    BY <2>1 DEF CatalogInv, CatalogKept
  <2>3. CatalogTypes'
    BY <2>1 DEF CatalogInv, CatalogTypes, CatalogType
  <2> QED BY <2>1, <2>2, <2>3, OutletsKeep
<1>3. ASSUME NEW o \in Outlets, OutletCloses(o)
      PROVE  CatalogInv'
  <2>1. /\ outlets' = outlets \ {o} /\ stocked' = {s \in stocked : s[1] # o}
        /\ out' = {s \in out : s[1] # o} /\ late' = {s \in late : s[1] # o}
        /\ UNCHANGED <<work, line, grouped, base, swept, racing>>
    BY <1>3 DEF OutletCloses
  <2>2. (outlets' \X base') \ stocked' \subseteq late'
    BY <2>1 DEF CatalogInv, CatalogKept
  <2>3. CatalogTypes'
    BY <2>1 DEF CatalogInv, CatalogTypes, CatalogType
  <2> QED BY <2>1, <2>2, <2>3, OutletsKeep
<1> QED BY <1>1, <1>2, <1>3 DEF OutletsNext

LEMMA InitCatalog == RequestsInit /\ CatalogInit => CatalogInv
BY DEF RequestsInit, CatalogInit, CatalogInv, CatalogWork, CatalogTypes, CatalogType, CatalogKept,
       DropsOwn, Idle, Doing

LEMMA NextCatalog == CatalogInv /\ [CatalogNext]_<<work, CatalogVars>> => CatalogInv'
<1> SUFFICES ASSUME CatalogInv, [CatalogNext]_<<work, CatalogVars>> PROVE CatalogInv'
  OBVIOUS
<1>1. CASE LinesNext(Lines, BaseItems)
  BY <1>1, LineReadKeeps, LineCommitsKeeps, DeleteReadsKeeps, DeleteCommitsKeeps, CatalogDies
     DEF LinesNext, Dies, Ends
<1>2. CASE UNCHANGED <<work, CatalogVars>>
  BY <1>2 DEF CatalogInv, CatalogWork, CatalogTypes, CatalogType, CatalogKept, DropsOwn, Spared,
              Doing, LineJob, CatalogVars
<1> QED BY <1>1, <1>2, OutletStepsKeep DEF CatalogNext

(* Every base item has its row at every branch that was there when it was  *)
(* set up, and a deletion takes along only lines written meanwhile, however *)
(* menus are changed, deleted and registered at the same time              *)
(* (menu/utils/upsert_helpers.py, menu/views/delete.py).                   *)
THEOREM CatalogIsKept == CatalogSpec => []CatalogKept
<1>1. CatalogInv => CatalogKept
  BY DEF CatalogInv
<1> QED BY <1>1, InitCatalog, NextCatalog, PTL DEF CatalogSpec

-----------------------------------------------------------------------------
(* Tagging. *)
TaggingNext == TagsNext(Spellings) \/ DecisionsNext \/ GroupsNext
TaggingSpec == RequestsInit /\ TaggingInit /\ [][TaggingNext]_<<work, TaggingVars>>

\* A decision as its worker remembers it speaks of tags that exist or existed.
DecideJob(j) ==
  j \in [op : {"decide"}, category : Categories, decision : SUBSET used, was : SUBSET used,
         alone : BOOLEAN]

TaggingWork ==
  /\ work = [w \in Workers |-> work[w]]
  /\ \A w \in Workers : Doing(w, "tag") => work[w].name \in Spellings
  /\ \A w \in Workers : Doing(w, "decide") => DecideJob(work[w])
  /\ \A w \in Workers : Doing(w, "group") => work[w].group \in Groups

TaggingTypes ==
  /\ TaggingType /\ decided = [c \in Categories |-> decided[c]]
  /\ grouping = [t \in TagIds |-> grouping[t]]

\* Of tags that exist no two have one slug, so no two have one name.
SlugsOnce == \A t, u \in Tags : Slug[spelled[t]] = Slug[spelled[u]] => t = u

\* What was decided has no tag that is still to come.
DecidedBefore == \A c \in Categories : decided[c] # {} /\ decided[c] \subseteq SUBSET used

(* A decision that nobody overlapped finds the tags it read, but for those *)
(* that were deleted, and nobody else decides about its category.          *)
AloneIsAlone ==
  \A w \in Workers : Doing(w, "decide") /\ work[w].alone =>
    /\ tagged[work[w].category] = work[w].was \cap Tags
    /\ \A v \in Workers : Decides(v, work[w].category) => v = w

TaggingInv ==
  TaggingWork /\ TaggingTypes /\ SlugsOnce /\ DecidedBefore /\ AloneIsAlone /\ TagsAsDecided

\* The work of one worker that decides about nothing changes.
LEMMA TaggingWorkStep ==
  ASSUME TaggingInv, NEW w \in Workers, NEW job, work' = [work EXCEPT ![w] = job],
         job.op # "decide", job.op = "tag" => job.name \in Spellings,
         job.op = "group" => job.group \in Groups, used \subseteq used'
  PROVE  /\ TaggingWork'
         /\ work'[w] = job /\ \A v \in Workers : v # w => work'[v] = work[v]
<1>1. /\ work' = [v \in Workers |-> work'[v]]
      /\ work'[w] = job /\ \A v \in Workers : v # w => work'[v] = work[v]
  BY WorkStep DEF TaggingInv, TaggingWork
<1>2. \A v \in Workers : Doing(v, "decide")' => DecideJob(work[v])'
  BY <1>1 DEF TaggingInv, TaggingWork, DecideJob, Doing
<1> QED BY <1>1, <1>2 DEF TaggingInv, TaggingWork, Doing

LEMMA TaggingKeptBy ==
  ASSUME TaggingInv, NEW w \in Workers, NEW job, work' = [work EXCEPT ![w] = job],
         job.op # "decide", job.op = "tag" => job.name \in Spellings,
         job.op = "group" => job.group \in Groups,
         UNCHANGED <<spelled, used, tagged, decided>>, TaggingTypes'
  PROVE  TaggingInv'
<1>1. /\ TaggingWork'
      /\ work'[w] = job /\ \A v \in Workers : v # w => work'[v] = work[v]
  BY TaggingWorkStep
<1>2. AloneIsAlone'
  BY <1>1 DEF TaggingInv, AloneIsAlone, Doing, Decides, Tags
<1>3. SlugsOnce' /\ DecidedBefore' /\ TagsAsDecided'
  BY DEF TaggingInv, SlugsOnce, DecidedBefore, TagsAsDecided, Tags
<1> QED BY <1>1, <1>2, <1>3 DEF TaggingInv

LEMMA IdleWorks == Idle.op \notin {"tag", "decide", "group"}
  BY DEF Idle

LEMMA TagCreatedKeeps ==
  ASSUME TaggingInv, NEW w \in Workers, NEW t \in TagIds, TagCreated(w, t)
  PROVE  TaggingInv'
<1> DEFINE s == work[w].name
<1>1. /\ Doing(w, "tag") /\ work' = [work EXCEPT ![w] = Idle]
      /\ IF Taken(s) THEN UNCHANGED <<spelled, used>>
         ELSE t \notin used /\ used' = used \cup {t} /\ spelled' = [spelled EXCEPT ![t] = s]
      /\ UNCHANGED <<tagged, grouping, groups, decided>>
  BY DEF TagCreated, Ends
<1>2. CASE Taken(s)
  BY <1>1, <1>2, IdleWorks, TaggingKeptBy DEF TaggingInv, TaggingTypes, TaggingType, Tags
<1>3. CASE ~Taken(s)
  <2>1. s \in Spellings /\ s # None
    BY <1>1, TaggingAssumption DEF TaggingInv, TaggingWork
  <2>2. t \notin used /\ used' = used \cup {t} /\ spelled' = [spelled EXCEPT ![t] = s]
    BY <1>1, <1>3
  <2>3. spelled'[t] = s /\ \A u \in TagIds : u # t => spelled'[u] = spelled[u]
    BY <2>2 DEF TaggingInv, TaggingTypes, TaggingType
  <2>4. Tags' = Tags \cup {t} /\ t \notin Tags
    BY <2>1, <2>2, <2>3 DEF TaggingInv, TaggingTypes, TaggingType, Tags
  <2>5. /\ TaggingWork'
        /\ work'[w] = Idle /\ \A v \in Workers : v # w => work'[v] = work[v]
    BY <1>1, <2>2, IdleWorks, TaggingWorkStep
  <2>6. TaggingTypes'
    BY <1>1, <2>1, <2>2, <2>4 DEF TaggingInv, TaggingTypes, TaggingType
  <2>7. SlugsOnce'
    BY <1>3, <2>3, <2>4 DEF TaggingInv, SlugsOnce, Taken, Tags
  <2>8. DecidedBefore'
    BY <1>1, <2>2 DEF TaggingInv, DecidedBefore
  <2>9. AloneIsAlone'
    <3> SUFFICES ASSUME NEW v \in Workers, Doing(v, "decide")', work'[v].alone
                 PROVE  /\ tagged'[work'[v].category] = work'[v].was \cap Tags'
                        /\ \A x \in Workers : Decides(x, work[v].category)' => x = v
      BY DEF AloneIsAlone
    <3>1. v # w /\ work'[v] = work[v]
      BY <2>5, IdleWorks DEF Doing
    <3>2. Doing(v, "decide") /\ work[v].alone /\ work[v].was \subseteq used
      BY <3>1 DEF TaggingInv, TaggingWork, DecideJob, Doing
    <3>3. tagged[work[v].category] = work[v].was \cap Tags
      BY <3>2 DEF TaggingInv, AloneIsAlone
    <3>4. work[v].was \cap Tags' = work[v].was \cap Tags
      BY <2>2, <2>4, <3>2
    <3> QED BY <1>1, <2>5, <3>1, <3>2, <3>3, <3>4, IdleWorks DEF TaggingInv, AloneIsAlone, Doing, Decides
  <2>10. TagsAsDecided'
    <3>1. \A x, u \in Tags' : Fold[spelled'[x]] = Fold[spelled'[u]] => x = u
      BY <2>6, <2>7, TaggingAssumption DEF SlugsOnce, TaggingTypes, TaggingType, Tags
    <3>2. \A c \in Categories, x \in Tags' : (\A d \in decided'[c] : x \in d) => x \in tagged'[c]
      BY <1>1, <2>2, <2>4 DEF TaggingInv, DecidedBefore, TagsAsDecided
    <3> QED BY <1>1, <3>1, <3>2 DEF TaggingInv, TagsAsDecided
  <2> QED BY <2>5, <2>6, <2>7, <2>8, <2>9, <2>10 DEF TaggingInv
<1> QED BY <1>2, <1>3

LEMMA TagDeletedKeeps ==
  ASSUME TaggingInv, NEW t \in TagIds, TagDeleted(t)
  PROVE  TaggingInv'
<1>1. /\ t \in Tags /\ spelled' = [spelled EXCEPT ![t] = None]
      /\ tagged' = [c \in Categories |-> tagged[c] \ {t}]
      /\ grouping' = [grouping EXCEPT ![t] = None]
      /\ UNCHANGED <<work, used, groups, decided>>
  BY DEF TagDeleted
<1>2. Tags' = Tags \ {t} /\ \A u \in Tags' : spelled'[u] = spelled[u]
  BY <1>1 DEF TaggingInv, TaggingTypes, TaggingType, Tags
<1>3. TaggingWork'
  BY <1>1 DEF TaggingInv, TaggingWork, DecideJob, Doing
<1>4. TaggingTypes'
  <2>1. tagged' \in [Categories -> SUBSET Tags']
    BY <1>1, <1>2 DEF TaggingInv, TaggingTypes, TaggingType
  <2>2. \A u \in TagIds : grouping'[u] # None => u # t /\ grouping'[u] = grouping[u]
    BY <1>1 DEF TaggingInv, TaggingTypes, TaggingType
  <2>3. spelled' \in [TagIds -> Spellings \cup {None}]
    BY <1>1 DEF TaggingInv, TaggingTypes, TaggingType
  <2> QED BY <1>1, <1>2, <2>1, <2>2, <2>3 DEF TaggingInv, TaggingTypes, TaggingType
<1>5. SlugsOnce' /\ DecidedBefore'
  BY <1>1, <1>2 DEF TaggingInv, SlugsOnce, DecidedBefore
<1>6. AloneIsAlone'
  <2>1. \A v \in Workers : Doing(v, "decide") => work[v].category \in Categories
    BY DEF TaggingInv, TaggingWork, DecideJob
  <2> QED BY <1>1, <1>2, <2>1 DEF TaggingInv, AloneIsAlone, Doing, Decides
<1>7. TagsAsDecided'
  BY <1>1, <1>2 DEF TaggingInv, TagsAsDecided
<1> QED BY <1>3, <1>4, <1>5, <1>6, <1>7 DEF TaggingInv

LEMMA DecisionReadsKeeps ==
  ASSUME TaggingInv, NEW w \in Workers, NEW c \in Categories, NEW ids \in SUBSET TagIds,
         DecisionReads(w, c, ids)
  PROVE  TaggingInv'
<1> DEFINE others == {v \in Workers : Decides(v, c)}
           job == [op |-> "decide", category |-> c, decision |-> ids \cap Tags, was |-> tagged[c],
                   alone |-> others = {}]
<1>1. /\ Free(w) /\ UNCHANGED TaggingVars
      /\ work' = [v \in Workers |-> IF v = w THEN job
                                    ELSE IF v \in others THEN [work[v] EXCEPT !.alone = FALSE] ELSE work[v]]
  BY DEF DecisionReads
<1>2. Tags \subseteq used /\ tagged[c] = tagged[c] \cap Tags
  BY DEF TaggingInv, TaggingTypes, TaggingType
<1>3. /\ job \in [op : {"decide"}, category : Categories, decision : SUBSET used, was : SUBSET used,
                  alone : BOOLEAN]
      /\ job.op = "decide" /\ job.category = c /\ job.was = tagged[c] /\ job.alone = (others = {})
  BY <1>2
<1>4. w \notin others /\ ~Doing(w, "decide")
  BY <1>1 DEF Decides, Doing, Free, Idle
<1> HIDE DEF job
<1>5. \A v \in Workers : v \in others =>
         /\ DecideJob(work'[v])
         /\ work'[v].category = c /\ ~work'[v].alone /\ work'[v].op = "decide"
  BY <1>1, <1>4 DEF TaggingInv, TaggingWork, DecideJob, Decides
<1>6. /\ work' = [v \in Workers |-> work'[v]] /\ work'[w] = job
      /\ \A v \in Workers : v # w /\ v \notin others => work'[v] = work[v]
  BY <1>1
<1>7. TaggingWork'
  <2>1. UNCHANGED used
    BY <1>1 DEF TaggingVars
  <2>2. \A v \in Workers : Doing(v, "decide")' => DecideJob(work'[v])
    BY <1>3, <1>5, <1>6 DEF TaggingInv, TaggingWork, DecideJob, Doing
  <2>3. \A v \in Workers : Doing(v, "decide")' => DecideJob(work[v])'
    BY <2>1, <2>2 DEF DecideJob
  <2>4. \A v \in Workers : Doing(v, "tag")' => work'[v].name \in Spellings
    BY <1>3, <1>5, <1>6 DEF TaggingInv, TaggingWork, Doing
  <2>5. \A v \in Workers : Doing(v, "group")' => work'[v].group \in Groups
    BY <1>3, <1>5, <1>6 DEF TaggingInv, TaggingWork, Doing
  <2> QED BY <1>6, <2>3, <2>4, <2>5 DEF TaggingWork
<1>8. AloneIsAlone'
  <2> SUFFICES ASSUME NEW v \in Workers, work'[v].op = "decide", work'[v].alone
               PROVE  /\ tagged[work'[v].category] = work'[v].was \cap Tags
                      /\ \A x \in Workers : work'[x].op = "decide" /\ work'[x].category = work'[v].category
                           => x = v
    BY <1>1 DEF AloneIsAlone, Doing, Decides, TaggingVars, Tags
  <2>1. v \notin others
    BY <1>5
  <2>2. CASE v = w
    <3>1. others = {} /\ tagged[work'[v].category] = work'[v].was \cap Tags /\ work'[v].category = c
      BY <1>2, <1>3, <1>6, <2>2
    <3>2. \A x \in Workers : x # w => work'[x] = work[x] /\ ~(work[x].op = "decide" /\ work[x].category = c)
      BY <1>6, <3>1 DEF Decides, Doing
    <3> QED BY <2>2, <3>1, <3>2
  <2>3. CASE v # w
    <3>1. work'[v] = work[v] /\ work[v].category # c
      BY <1>6, <2>1, <2>3 DEF Decides, Doing
    <3>2. /\ tagged[work[v].category] = work[v].was \cap Tags
          /\ \A x \in Workers : Decides(x, work[v].category) => x = v
      BY <3>1 DEF TaggingInv, AloneIsAlone, Doing
    <3>3. \A x \in Workers : work'[x].category = work[v].category => x # w /\ x \notin others
      BY <1>3, <1>5, <1>6, <3>1
    <3> QED BY <1>6, <3>1, <3>2, <3>3 DEF Decides, Doing
  <2> QED BY <2>2, <2>3
<1>9. TaggingTypes' /\ SlugsOnce' /\ DecidedBefore' /\ TagsAsDecided'
  BY <1>1 DEF TaggingInv, TaggingTypes, TaggingType, SlugsOnce, DecidedBefore, TagsAsDecided, TaggingVars,
              Tags
<1> QED BY <1>7, <1>8, <1>9 DEF TaggingInv

LEMMA DecisionCommitsKeeps ==
  ASSUME TaggingInv, NEW w \in Workers, DecisionCommits(w)
  PROVE  TaggingInv'
<1> DEFINE j == work[w]
           c == j.category
<1>1. /\ Doing(w, "decide") /\ work' = [work EXCEPT ![w] = Idle]
      /\ IF j.decision \ j.was \subseteq Tags
         THEN /\ tagged' = [tagged EXCEPT ![c] = Replaced(@, j.was, j.decision)]
              /\ decided' = [decided EXCEPT ![c] = (IF j.alone THEN {} ELSE @) \cup {j.decision}]
         ELSE UNCHANGED <<tagged, decided>>
      /\ UNCHANGED <<spelled, used, grouping, groups>>
  BY DEF DecisionCommits, Ends
<1>2. CASE ~(j.decision \ j.was \subseteq Tags)
  <2>1. UNCHANGED <<spelled, used, tagged, decided, grouping, groups>>
    BY <1>1, <1>2
  <2>2. TaggingTypes'
    BY <2>1 DEF TaggingInv, TaggingTypes, TaggingType, Tags
  <2>3. work' = [work EXCEPT ![w] = Idle]
    BY <1>1
  <2> QED BY <2>1, <2>2, <2>3, IdleWorks, TaggingKeptBy
<1>3. CASE j.decision \ j.was \subseteq Tags
  <2>1. c \in Categories /\ j.decision \subseteq used /\ j.was \subseteq used
    BY <1>1 DEF TaggingInv, TaggingWork, DecideJob
  <2>2. /\ TaggingWork'
        /\ work'[w] = Idle /\ \A v \in Workers : v # w => work'[v] = work[v]
    BY <1>1, IdleWorks, TaggingWorkStep
  <2>3. /\ tagged' = [tagged EXCEPT ![c] = Replaced(tagged[c], j.was, j.decision)]
        /\ decided' = [decided EXCEPT ![c] = (IF j.alone THEN {} ELSE decided[c]) \cup {j.decision}]
        /\ Tags' = Tags
    BY <1>1, <1>3 DEF Tags
  <2>4. /\ tagged'[c] = (tagged[c] \ (j.was \ j.decision)) \cup (j.decision \ j.was)
        /\ decided'[c] = (IF j.alone THEN {} ELSE decided[c]) \cup {j.decision}
        /\ \A d \in Categories : d # c => tagged'[d] = tagged[d] /\ decided'[d] = decided[d]
    BY <2>1, <2>3 DEF TaggingInv, TaggingTypes, TaggingType, Replaced
  <2>5. tagged[c] \subseteq Tags /\ Tags \subseteq used
    BY <2>1 DEF TaggingInv, TaggingTypes, TaggingType
  <2>6. TaggingTypes'
    <3>1. tagged' \in [Categories -> SUBSET Tags']
      BY <1>3, <2>1, <2>3, <2>4, <2>5 DEF TaggingInv, TaggingTypes, TaggingType
    <3>2. decided' = [d \in Categories |-> decided'[d]]
      BY <2>3 DEF TaggingInv, TaggingTypes
    <3> QED BY <1>1, <2>3, <3>1, <3>2 DEF TaggingInv, TaggingTypes, TaggingType
  <2>7. SlugsOnce'
    BY <1>1, <2>3 DEF TaggingInv, SlugsOnce
  <2>8. DecidedBefore'
    BY <1>1, <2>1, <2>4 DEF TaggingInv, DecidedBefore
  <2>9. AloneIsAlone'
    <3> SUFFICES ASSUME NEW v \in Workers, work'[v].op = "decide", work'[v].alone
                 PROVE  /\ tagged'[work'[v].category] = work'[v].was \cap Tags'
                        /\ \A x \in Workers : work'[x].op = "decide" /\ work'[x].category = work'[v].category
                             => x = v
      BY DEF AloneIsAlone, Doing, Decides
    <3>1. v # w /\ work'[v] = work[v]
      BY <2>2, IdleWorks
    <3>2. /\ tagged[work[v].category] = work[v].was \cap Tags
          /\ \A x \in Workers : Decides(x, work[v].category) => x = v
      BY <3>1 DEF TaggingInv, AloneIsAlone, Doing
    <3>3. work[v].category # c /\ work[v].category \in Categories
      BY <1>1, <3>1, <3>2 DEF TaggingInv, TaggingWork, DecideJob, Doing, Decides
    <3>4. tagged'[work[v].category] = tagged[work[v].category]
      BY <2>4, <3>3
    <3> QED BY <2>2, <2>3, <3>1, <3>2, <3>4, IdleWorks DEF Doing, Decides
  <2>10. TagsAsDecided'
    <3>1. tagged'[c] \subseteq UNION decided'[c] /\ \A t \in Tags : (\A d \in decided'[c] : t \in d) => t \in tagged'[c]
      <4>1. CASE j.alone
        <5>1. tagged[c] = j.was \cap Tags
          BY <1>1, <4>1 DEF TaggingInv, AloneIsAlone
        <5>2. decided'[c] = {j.decision}
          BY <2>4, <4>1
        <5> QED BY <2>4, <5>1, <5>2
      <4>2. CASE ~j.alone
        <5>1. decided'[c] = decided[c] \cup {j.decision}
          BY <2>4, <4>2
        <5> QED BY <2>1, <2>4, <5>1 DEF TaggingInv, TagsAsDecided
      <4> QED BY <4>1, <4>2
    <3>2. \A t, u \in Tags' : Fold[spelled'[t]] = Fold[spelled'[u]] => t = u
      BY <1>1, <2>3 DEF TaggingInv, TagsAsDecided
    <3> QED BY <2>3, <2>4, <3>1, <3>2 DEF TaggingInv, TagsAsDecided
  <2> QED BY <2>2, <2>6, <2>7, <2>8, <2>9, <2>10 DEF TaggingInv
<1> QED BY <1>2, <1>3

LEMMA GroupStepsKeep ==
  ASSUME TaggingInv, GroupsNext
  PROVE  TaggingInv'
<1>1. ASSUME NEW w \in Workers, NEW g \in Groups, NEW ids \in SUBSET TagIds, GroupReads(w, g, ids)
      PROVE  TaggingInv'
  <2> DEFINE job == [op |-> "group", group |-> g, ids |-> ids \cap Tags, was |-> InGroup(g)]
  <2>1. /\ work' = [work EXCEPT ![w] = job] /\ groups' = groups \cup {g}
        /\ UNCHANGED <<spelled, used, tagged, grouping, decided>>
    BY <1>1 DEF GroupReads, Starts
  <2>2. job.op = "group" /\ job.group = g
    OBVIOUS
  <2> HIDE DEF job
  <2>3. TaggingTypes'
    BY <2>1 DEF TaggingInv, TaggingTypes, TaggingType, Tags
  <2> QED BY <2>1, <2>2, <2>3, TaggingKeptBy
<1>2. ASSUME NEW w \in Workers, GroupCommits(w)
      PROVE  TaggingInv'
  <2>1. PICK added \in SUBSET Tags, removed \in SUBSET Tags :
          /\ work' = [work EXCEPT ![w] = Idle] /\ UNCHANGED <<spelled, used, tagged, groups, decided>>
          /\ grouping' = IF work[w].group \notin groups THEN grouping
                         ELSE [t \in TagIds |-> IF t \in added THEN work[w].group
                                                ELSE IF t \in removed THEN None ELSE grouping[t]]
    <3> DEFINE a == (work[w].ids \ work[w].was) \cap Tags
               r == (work[w].was \ work[w].ids) \cap InGroup(work[w].group)
    <3>1. a \in SUBSET Tags /\ r \in SUBSET Tags
      BY DEF InGroup
    <3> QED BY <1>2, <3>1 DEF GroupCommits, Ends
  <2>2. TaggingTypes'
    BY <2>1 DEF TaggingInv, TaggingTypes, TaggingType, Tags
  <2> QED BY <2>1, <2>2, IdleWorks, TaggingKeptBy
<1>3. ASSUME NEW g \in Groups, GroupDeleted(g)
      PROVE  TaggingInv'
  <2>1. /\ groups' = groups \ {g} /\ UNCHANGED <<work, spelled, used, tagged, decided>>
        /\ grouping' = [t \in TagIds |-> IF t \in InGroup(g) THEN None ELSE grouping[t]]
    BY <1>3 DEF GroupDeleted
  <2>2. TaggingTypes'
    BY <2>1 DEF TaggingInv, TaggingTypes, TaggingType, InGroup, Tags
  <2> QED BY <2>1, <2>2 DEF TaggingInv, TaggingWork, DecideJob, TaggingTypes, SlugsOnce, DecidedBefore,
        AloneIsAlone, TagsAsDecided, Doing, Decides, Tags
<1> QED BY <1>1, <1>2, <1>3 DEF GroupsNext

LEMMA InitTagging == RequestsInit /\ TaggingInit => TaggingInv
<1> SUFFICES ASSUME RequestsInit, TaggingInit PROVE TaggingInv
  OBVIOUS
<1>1. Tags = {}
  BY DEF TaggingInit, Tags
<1>2. TaggingTypes /\ TaggingWork
  BY <1>1, IdleWorks DEF RequestsInit, TaggingInit, TaggingTypes, TaggingType, TaggingWork, Doing
<1>3. SlugsOnce /\ DecidedBefore /\ TagsAsDecided
  BY <1>1 DEF TaggingInit, SlugsOnce, DecidedBefore, TagsAsDecided
<1>4. AloneIsAlone
  BY IdleWorks DEF RequestsInit, AloneIsAlone, Doing
<1> QED BY <1>2, <1>3, <1>4 DEF TaggingInv

LEMMA NextTagging == TaggingInv /\ [TaggingNext]_<<work, TaggingVars>> => TaggingInv'
<1> SUFFICES ASSUME TaggingInv, [TaggingNext]_<<work, TaggingVars>> PROVE TaggingInv'
  OBVIOUS
<1>1. ASSUME NEW w \in Workers, NEW s \in Spellings, TagLooked(w, s)
      PROVE  TaggingInv'
  <2> DEFINE job == [op |-> "tag", name |-> s]
  <2>1. work' = [work EXCEPT ![w] = job] /\ UNCHANGED TaggingVars
    BY <1>1 DEF TagLooked, Starts
  <2>2. job.op = "tag" /\ job.name = s
    OBVIOUS
  <2> HIDE DEF job
  <2>3. TaggingTypes'
    BY <2>1 DEF TaggingInv, TaggingTypes, TaggingType, TaggingVars, Tags
  <2> QED BY <2>1, <2>2, <2>3, TaggingKeptBy DEF TaggingVars
<1>2. ASSUME NEW w \in Workers, Dies(w), UNCHANGED TaggingVars
      PROVE  TaggingInv'
  <2>1. TaggingTypes'
    BY <1>2 DEF TaggingInv, TaggingTypes, TaggingType, TaggingVars, Tags
  <2> QED BY <1>2, <2>1, IdleWorks, TaggingKeptBy DEF Dies, Ends, TaggingVars
<1>3. CASE UNCHANGED <<work, TaggingVars>>
  BY <1>3 DEF TaggingInv, TaggingWork, DecideJob, TaggingTypes, TaggingType, SlugsOnce, DecidedBefore,
      AloneIsAlone, TagsAsDecided, Doing, Decides, Tags, TaggingVars
<1> QED BY <1>1, <1>2, <1>3, TagCreatedKeeps, TagDeletedKeeps, DecisionReadsKeeps, DecisionCommitsKeeps,
      GroupStepsKeep DEF TaggingNext, TagsNext, DecisionsNext

(* No two tags have names that differ in case only, and a category has the *)
(* tags that were decided last, whoever creates, deletes and decides at    *)
(* the same time (menu/views/tagging.py, menu/models/categories.py).       *)
THEOREM TagsAreAsDecided == TaggingSpec => []TagsAsDecided
<1>1. TaggingInv => TagsAsDecided
  BY DEF TaggingInv
<1> QED BY <1>1, InitTagging, NextTagging, PTL DEF TaggingSpec

-----------------------------------------------------------------------------
(* Pictures. *)
PicturesSpec == RequestsInit /\ PicturesInit /\ [][PicturesNext]_<<work, PicturesVars>>

FrameJob(j) ==
  j \in [op : FrameJobs, frame : Frames, file : Files \cup {None}] /\ (j.op # "profile" => j.file \in Files)
PicturesWork ==
  /\ work = [w \in Workers |-> work[w]]
  /\ \A w \in Workers : work[w].op \in FrameJobs => FrameJob(work[w])

\* A handler has deleted, or has tried to, the file that picture f shows.
Purging(f) == \E w \in Workers : work[w].op \in {"purged", "removing"} /\ work[w].frame = f

OneWorksOn ==
  \A f \in Frames : \A v, w \in Workers : WorksOn(v, f) /\ WorksOn(w, f) => v = w

\* What a handler remembers is still on show.
FileIsShown == \A w \in Workers : work[w].op \in FrameJobs => picture[work[w].frame] = work[w].file

(* Why a deletion hits nobody else's picture: two pictures have one file   *)
(* only if one of them is about to lose it, or once failed to replace it.  *)
ShownOnce ==
  \A f, g \in Frames : f # g /\ picture[f] = picture[g] /\ picture[f] # None =>
    picture[f] \in freed \/ Purging(f) \/ Purging(g)

FilesStored == \A f \in Frames : picture[f] \in bucket \cup freed \cup {None} \/ Purging(f)

PicturesInv ==
  /\ PicturesWork /\ PicturesType
  /\ ~clashed => OneWorksOn /\ FileIsShown /\ ShownOnce /\ FilesStored

\* A picture gets a file that is not in the bucket while nobody else works on it.
LEMMA NewFileShown ==
  ASSUME PicturesInv, ~clashed, ~clashed', NEW f \in Frames, NEW n \in Files \ bucket,
         picture' = [picture EXCEPT ![f] = n], bucket' = bucket \cup {n}, freed' = freed,
         \A g \in Frames : g # f /\ Purging(g) => Purging(g)'
  PROVE  ShownOnce' /\ FilesStored'
<1>1. /\ picture'[f] = n /\ n # None /\ n \in bucket'
      /\ \A g \in Frames : g # f => picture'[g] = picture[g]
  BY PicturesAssumption DEF PicturesInv, PicturesType
<1>2. FilesStored'
  BY <1>1 DEF PicturesInv, FilesStored
<1>3. ASSUME NEW g \in Frames, g # f, picture'[g] = n
      PROVE  n \in freed' \/ Purging(g)'
  BY <1>1, <1>3 DEF PicturesInv, FilesStored
<1>4. ShownOnce'
  BY <1>1, <1>3 DEF PicturesInv, ShownOnce
<1> QED BY <1>2, <1>4

LEMMA PictureSetKeeps ==
  ASSUME PicturesInv, NEW f \in Frames, NEW n \in Files, PictureSet(f, n)
  PROVE  PicturesInv'
<1>1. /\ n \in Files \ bucket /\ bucket' = bucket \cup {n} /\ picture' = [picture EXCEPT ![f] = n]
      /\ clashed' = (clashed \/ \E w \in Workers : WorksOn(w, f)) /\ UNCHANGED <<work, freed>>
  BY DEF PictureSet, Uploads, FreeName, Shows, Clashes
<1>2. PicturesWork' /\ PicturesType'
  BY <1>1 DEF PicturesInv, PicturesWork, FrameJob, PicturesType
<1>3. ASSUME ~clashed'
      PROVE  OneWorksOn' /\ FileIsShown' /\ ShownOnce' /\ FilesStored'
  <2>1. ~clashed /\ \A w \in Workers : work[w].op \in FrameJobs => work[w].frame # f /\ work[w].frame \in Frames
    BY <1>1, <1>3 DEF WorksOn, PicturesInv, PicturesWork, FrameJob
  <2>2. FileIsShown'
    BY <1>1, <2>1 DEF PicturesInv, PicturesType, FileIsShown
  <2>3. ShownOnce' /\ FilesStored'
    BY <1>1, <1>3, <2>1, NewFileShown DEF Purging
  <2> QED BY <1>1, <2>1, <2>2, <2>3 DEF PicturesInv, OneWorksOn, WorksOn
<1> QED BY <1>2, <1>3 DEF PicturesInv

LEMMA PictureReadsKeeps ==
  ASSUME PicturesInv, NEW w \in Workers, NEW f \in Frames, NEW job \in {"replace", "remove", "profile"},
         PictureReads(w, f, job)
  PROVE  PicturesInv'
<1> DEFINE j == [op |-> job, frame |-> f, file |-> picture[f]]
<1>1. /\ Free(w) /\ work' = [work EXCEPT ![w] = j] /\ UNCHANGED <<picture, bucket, freed>>
      /\ job # "profile" => picture[f] # None
      /\ clashed' = (clashed \/ \E v \in Workers : WorksOn(v, f))
  BY DEF PictureReads, Starts, Clashes
<1>2. /\ j.op = job /\ j.frame = f /\ j.file = picture[f] /\ FrameJob(j)
      /\ job \in FrameJobs /\ job \notin {"purged", "removing"}
  BY <1>1 DEF FrameJob, FrameJobs, PicturesInv, PicturesType
<1> HIDE DEF j
<1>3. /\ work' = [v \in Workers |-> work'[v]]
      /\ work'[w] = j /\ \A v \in Workers : v # w => work'[v] = work[v]
  BY <1>1, WorkStep DEF PicturesInv, PicturesWork
<1>4. PicturesWork' /\ PicturesType'
  BY <1>1, <1>2, <1>3 DEF PicturesInv, PicturesWork, PicturesType, FrameJob
<1>5. work[w].op \notin {"purged", "removing"}
  BY <1>1 DEF Free, Idle
<1>6. \A g \in Frames : Purging(g)' <=> Purging(g)
  BY <1>2, <1>3, <1>5 DEF Purging
<1>7. ASSUME ~clashed'
      PROVE  OneWorksOn' /\ FileIsShown' /\ ShownOnce' /\ FilesStored'
  <2>1. ~clashed /\ \A v \in Workers : work[v].op \in FrameJobs => work[v].frame # f
    BY <1>1, <1>7 DEF WorksOn
  <2>2. OneWorksOn'
    BY <1>2, <1>3, <2>1 DEF PicturesInv, OneWorksOn, WorksOn
  <2>3. FileIsShown'
    BY <1>1, <1>2, <1>3, <2>1 DEF PicturesInv, FileIsShown
  <2>4. ShownOnce' /\ FilesStored'
    BY <1>1, <1>6, <2>1 DEF PicturesInv, ShownOnce, FilesStored
  <2> QED BY <2>2, <2>3, <2>4
<1> QED BY <1>4, <1>7 DEF PicturesInv

LEMMA OldFileGoesKeeps ==
  ASSUME PicturesInv, NEW w \in Workers, NEW deleted \in BOOLEAN, OldFileGoes(w, deleted)
  PROVE  PicturesInv'
<1> DEFINE j == work[w]
           next == [j EXCEPT !.op = IF j.op = "replace" THEN "purged" ELSE "removing"]
<1>1. /\ j.op \in {"replace", "remove"} /\ bucket' = (IF deleted THEN bucket \ {j.file} ELSE bucket)
      /\ work' = [work EXCEPT ![w] = next] /\ UNCHANGED <<picture, clashed, freed>>
  BY DEF OldFileGoes, Starts
<1>2. FrameJob(j)
  BY <1>1 DEF PicturesInv, PicturesWork, FrameJobs
<1>3. FrameJob(next) /\ next.frame = j.frame /\ next.file = j.file /\ next.op \in {"purged", "removing"}
  BY <1>1, <1>2 DEF FrameJob, FrameJobs
<1> HIDE DEF next
<1>4. /\ work' = [v \in Workers |-> work'[v]]
      /\ work'[w] = next /\ \A v \in Workers : v # w => work'[v] = work[v]
  BY <1>1, WorkStep DEF PicturesInv, PicturesWork
<1>5. PicturesWork' /\ PicturesType'
  <2>1. PicturesWork'
    BY <1>3, <1>4 DEF PicturesInv, PicturesWork, FrameJob
  <2> QED BY <1>1, <2>1 DEF PicturesInv, PicturesType
<1>6. \A g \in Frames : Purging(g)' <=> Purging(g) \/ g = j.frame
  BY <1>1, <1>3, <1>4 DEF Purging
<1>7. ASSUME ~clashed'
      PROVE  OneWorksOn' /\ FileIsShown' /\ ShownOnce' /\ FilesStored'
  <2>1. OneWorksOn' /\ FileIsShown' /\ ShownOnce'
    BY <1>1, <1>3, <1>4, <1>6, <1>7 DEF PicturesInv, OneWorksOn, FileIsShown, ShownOnce, WorksOn, FrameJobs
  <2>2. picture[j.frame] = j.file /\ j.frame \in Frames
    BY <1>1, <1>2, <1>7 DEF PicturesInv, FileIsShown, FrameJob, FrameJobs
  <2>3. ~Purging(j.frame)
    BY <1>1, <1>7 DEF PicturesInv, OneWorksOn, Purging, WorksOn, FrameJobs, FrameJob, PicturesWork
  <2>4. ASSUME NEW g \in Frames PROVE picture[g] \in bucket' \cup freed \cup {None} \/ Purging(g)'
    <3>1. CASE picture[g] = j.file /\ g # j.frame /\ picture[g] # None
      BY <1>1, <1>6, <1>7, <2>2, <2>3, <3>1 DEF PicturesInv, ShownOnce
    <3>2. CASE picture[g] # j.file
      BY <1>1, <1>6, <1>7, <3>2 DEF PicturesInv, FilesStored
    <3> QED BY <1>6, <3>1, <3>2
  <2> QED BY <1>1, <2>1, <2>4 DEF FilesStored
<1> QED BY <1>5, <1>7 DEF PicturesInv

\* A worker stops; its picture need not be protected any more.
LEMMA FrameWorkEnds ==
  ASSUME PicturesInv, NEW w \in Workers, work' = [work EXCEPT ![w] = Idle]
  PROVE  /\ PicturesWork'
         /\ \A g \in Frames : Purging(g) => Purging(g)' \/ (WorksOn(w, g) /\ work[w].op \in {"purged", "removing"})
         /\ \A g \in Frames : Purging(g)' => Purging(g)
         /\ ~clashed => OneWorksOn'
         /\ \A v \in Workers : work'[v].op \in FrameJobs => v # w /\ work'[v] = work[v]
<1>1. /\ work' = [v \in Workers |-> work'[v]]
      /\ work'[w] = Idle /\ \A v \in Workers : v # w => work'[v] = work[v]
  BY WorkStep DEF PicturesInv, PicturesWork
<1>2. Idle.op \notin FrameJobs /\ {"purged", "removing"} \subseteq FrameJobs
  BY DEF Idle, FrameJobs
<1>3. PicturesWork'
  BY <1>1, <1>2 DEF PicturesInv, PicturesWork, FrameJob
<1>4. ASSUME NEW g \in Frames
      PROVE  /\ Purging(g) => Purging(g)' \/ (WorksOn(w, g) /\ work[w].op \in {"purged", "removing"})
             /\ Purging(g)' => Purging(g)
  <2>1. ASSUME Purging(g), ~Purging(g)' PROVE WorksOn(w, g) /\ work[w].op \in {"purged", "removing"}
    <3>1. PICK v \in Workers : work[v].op \in {"purged", "removing"} /\ work[v].frame = g
      BY <2>1 DEF Purging
    <3>2. v = w
      BY <1>1, <2>1, <3>1 DEF Purging
    <3> QED BY <1>2, <3>1, <3>2 DEF WorksOn
  <2>2. Purging(g)' => Purging(g)
    BY <1>1, <1>2 DEF Purging
  <2> QED BY <2>1, <2>2
<1>5. ~clashed => OneWorksOn'
  BY <1>1, <1>2 DEF PicturesInv, OneWorksOn, WorksOn
<1> QED BY <1>1, <1>2, <1>3, <1>4, <1>5

\* The frame a worker works on is a picture, and nobody else's.
LEMMA FrameOfWork ==
  ASSUME PicturesInv, NEW w \in Workers, work[w].op \in FrameJobs
  PROVE  /\ work[w].frame \in Frames /\ work[w].file \in Files \cup {None}
         /\ work[w].op # "profile" => work[w].file \in Files
         /\ ~clashed => /\ picture[work[w].frame] = work[w].file
                        /\ \A v \in Workers : work[v].op \in FrameJobs /\ v # w
                             => work[v].frame # work[w].frame /\ work[v].frame \in Frames
  BY DEF PicturesInv, PicturesWork, FrameJob, FileIsShown, OneWorksOn, WorksOn

LEMMA NewFileSavedKeeps ==
  ASSUME PicturesInv, NEW w \in Workers, NEW n \in Files, NewFileSaved(w, n)
  PROVE  PicturesInv'
<1> DEFINE f == work[w].frame
           gone == f \in Carousels /\ picture[f] = None
<1>1. /\ work[w].op = "purged" /\ work' = [work EXCEPT ![w] = Idle]
      /\ n \in Files \ bucket /\ bucket' = bucket \cup {n} /\ UNCHANGED <<clashed, freed>>
      /\ IF gone THEN UNCHANGED picture ELSE picture' = [picture EXCEPT ![f] = n]
  BY DEF NewFileSaved, Doing, Ends, Uploads, FreeName, Shows
<1>2. work[w].op \in FrameJobs
  BY <1>1 DEF FrameJobs
<1>3. f \in Frames
  BY <1>2, FrameOfWork
<1>4. PicturesWork' /\ PicturesType'
  <2>1. PicturesWork'
    BY <1>1, FrameWorkEnds
  <2>2. picture' \in [Frames -> Files \cup {None}]
    BY <1>1, <1>3 DEF PicturesInv, PicturesType
  <2> QED BY <1>1, <2>1, <2>2 DEF PicturesInv, PicturesType
<1>5. ASSUME ~clashed'
      PROVE  OneWorksOn' /\ FileIsShown' /\ ShownOnce' /\ FilesStored'
  <2>1. ~clashed
    BY <1>1, <1>5
  <2>2. \A v \in Workers : work'[v].op \in FrameJobs =>
          work'[v] = work[v] /\ work[v].frame # f /\ work[v].frame \in Frames
    BY <1>1, <1>2, <2>1, FrameOfWork, FrameWorkEnds
  <2>3. \A g \in Frames : g # f /\ Purging(g) => Purging(g)'
    BY <1>1, FrameWorkEnds DEF WorksOn
  <2>4. OneWorksOn' /\ FileIsShown'
    <3>1. \A g \in Frames : g # f => picture'[g] = picture[g]
      BY <1>1 DEF PicturesInv, PicturesType
    <3>2. FileIsShown'
      BY <2>1, <2>2, <3>1 DEF PicturesInv, FileIsShown
    <3> QED BY <1>1, <2>1, <3>2, FrameWorkEnds
  <2>5. CASE gone
    <3>1. \A g \in Frames : picture[g] # None => (Purging(g) => Purging(g)')
      BY <2>3, <2>5
    <3> QED BY <1>1, <2>1, <2>4, <2>5, <3>1 DEF PicturesInv, ShownOnce, FilesStored
  <2>6. CASE ~gone
    BY <1>1, <1>3, <1>5, <2>1, <2>3, <2>4, <2>6, NewFileShown
  <2> QED BY <2>5, <2>6
<1> QED BY <1>4, <1>5 DEF PicturesInv

LEMMA CarouselRemovedKeeps ==
  ASSUME PicturesInv, NEW w \in Workers, CarouselRemoved(w)
  PROVE  PicturesInv'
<1> DEFINE f == work[w].frame
<1>1. /\ work[w].op = "removing" /\ work' = [work EXCEPT ![w] = Idle]
      /\ picture' = [picture EXCEPT ![f] = None] /\ UNCHANGED <<bucket, clashed, freed>>
  BY DEF CarouselRemoved, Doing, Ends, Shows
<1>2. work[w].op \in FrameJobs
  BY <1>1 DEF FrameJobs
<1>3. f \in Frames
  BY <1>2, FrameOfWork
<1>4. PicturesWork' /\ PicturesType'
  BY <1>1, <1>3, FrameWorkEnds DEF PicturesInv, PicturesType
<1>5. ASSUME ~clashed'
      PROVE  OneWorksOn' /\ FileIsShown' /\ ShownOnce' /\ FilesStored'
  <2>1. ~clashed
    BY <1>1, <1>5
  <2>2. \A v \in Workers : work'[v].op \in FrameJobs =>
          work'[v] = work[v] /\ work[v].frame # f /\ work[v].frame \in Frames
    BY <1>1, <1>2, <2>1, FrameOfWork, FrameWorkEnds
  <2>3. \A g \in Frames : g # f /\ Purging(g) => Purging(g)'
    BY <1>1, FrameWorkEnds DEF WorksOn
  <2>4. picture'[f] = None /\ \A g \in Frames : g # f => picture'[g] = picture[g]
    BY <1>1, <1>3 DEF PicturesInv, PicturesType
  <2>5. FileIsShown'
    BY <2>1, <2>2, <2>4 DEF PicturesInv, FileIsShown
  <2>6. ShownOnce' /\ FilesStored'
    BY <1>1, <2>1, <2>3, <2>4 DEF PicturesInv, ShownOnce, FilesStored
  <2> QED BY <1>1, <2>1, <2>5, <2>6, FrameWorkEnds
<1> QED BY <1>4, <1>5 DEF PicturesInv

LEMMA ProfileSavedKeeps ==
  ASSUME PicturesInv, NEW w \in Workers, ProfileSaved(w)
  PROVE  PicturesInv'
<1> DEFINE f == work[w].frame
<1>1. /\ work[w].op = "profile" /\ work' = [work EXCEPT ![w] = Idle]
      /\ picture' = [picture EXCEPT ![f] = work[w].file] /\ UNCHANGED <<bucket, clashed, freed>>
  BY DEF ProfileSaved, Doing, Ends, Shows
<1>2. work[w].op \in FrameJobs
  BY <1>1 DEF FrameJobs
<1>3. f \in Frames /\ work[w].file \in Files \cup {None}
  BY <1>2, FrameOfWork
<1>4. PicturesWork' /\ PicturesType'
  BY <1>1, <1>3, FrameWorkEnds DEF PicturesInv, PicturesType
<1>5. ASSUME ~clashed'
      PROVE  OneWorksOn' /\ FileIsShown' /\ ShownOnce' /\ FilesStored'
  <2>1. ~clashed /\ picture' = picture
    BY <1>1, <1>2, <1>5, FrameOfWork DEF PicturesInv, PicturesType
  <2>2. \A g \in Frames : Purging(g) => Purging(g)'
    BY <1>1, FrameWorkEnds
  <2> QED BY <1>1, <2>1, <2>2, FrameWorkEnds DEF PicturesInv, FileIsShown, ShownOnce, FilesStored
<1> QED BY <1>4, <1>5 DEF PicturesInv

LEMMA PictureDiesKeeps ==
  ASSUME PicturesInv, NEW w \in Workers, PictureDies(w)
  PROVE  PicturesInv'
<1>1. /\ work' = [work EXCEPT ![w] = Idle] /\ UNCHANGED <<picture, bucket, clashed>>
      /\ freed' = (IF work[w].op \in {"purged", "removing"} THEN freed \cup {work[w].file} ELSE freed)
  BY DEF PictureDies, Dies, Ends
<1>2. work[w].op \in {"purged", "removing"} => work[w].op \in FrameJobs
  BY DEF FrameJobs
<1>3. CASE ~clashed
  <2>1. ~clashed
    BY <1>3
  <2>2. \A g \in Frames : Purging(g) => Purging(g)' \/ picture[g] \in freed'
    <3> SUFFICES ASSUME NEW g \in Frames, Purging(g)
                 PROVE  Purging(g)' \/ picture[g] \in freed'
      OBVIOUS
    <3>1. Purging(g)' \/ (WorksOn(w, g) /\ work[w].op \in {"purged", "removing"})
      BY <1>1, FrameWorkEnds
    <3>2. CASE WorksOn(w, g) /\ work[w].op \in {"purged", "removing"}
      <4>1. work[w].frame = g /\ freed' = freed \cup {work[w].file}
        BY <1>1, <3>2 DEF WorksOn
      <4>2. picture[g] = work[w].file
        BY <1>2, <2>1, <3>2, <4>1, FrameOfWork
      <4> QED BY <4>1, <4>2
    <3> QED BY <3>1, <3>2
  <2>3. work[w].op \in {"purged", "removing"} => work[w].file = picture[work[w].frame] /\ work[w].frame \in Frames
    BY <1>2, <2>1, FrameOfWork
  <2>4. PicturesWork' /\ OneWorksOn' /\ FileIsShown'
    BY <1>1, <2>1, FrameWorkEnds DEF PicturesInv, FileIsShown
  <2>5. PicturesType'
    BY <1>1, <1>2, FrameOfWork DEF PicturesInv, PicturesType
  <2>6. ShownOnce' /\ FilesStored'
    BY <1>1, <2>1, <2>2 DEF PicturesInv, ShownOnce, FilesStored
  <2> QED BY <2>4, <2>5, <2>6 DEF PicturesInv
<1>4. CASE clashed
  <2>1. PicturesWork'
    BY <1>1, FrameWorkEnds
  <2>2. work[w].op \in {"purged", "removing"} => work[w].file \in Files
    BY <1>2, FrameOfWork
  <2>3. PicturesType'
    BY <1>1, <2>2 DEF PicturesInv, PicturesType
  <2> QED BY <1>1, <1>4, <2>1, <2>3 DEF PicturesInv
<1> QED BY <1>3, <1>4

LEMMA InitPictures == RequestsInit /\ PicturesInit => PicturesInv
<1>1. Idle.op \notin FrameJobs
  BY DEF Idle, FrameJobs
<1> QED BY <1>1 DEF RequestsInit, PicturesInit, PicturesInv, PicturesWork, PicturesType, OneWorksOn,
      FileIsShown, ShownOnce, FilesStored, WorksOn

LEMMA NextPictures == PicturesInv /\ [PicturesNext]_<<work, PicturesVars>> => PicturesInv'
<1>1. PicturesInv /\ UNCHANGED <<work, PicturesVars>> => PicturesInv'
  BY DEF PicturesInv, PicturesWork, FrameJob, PicturesType, OneWorksOn, FileIsShown, ShownOnce, FilesStored,
         WorksOn, Purging, PicturesVars
<1> QED BY <1>1, PictureSetKeeps, PictureReadsKeeps, OldFileGoesKeeps, NewFileSavedKeeps, CarouselRemovedKeeps,
      ProfileSavedKeeps, PictureDiesKeeps DEF PicturesNext

(* A picture on show is in the bucket unless it is being changed, or was   *)
(* once half replaced, and so for every business: no handler deletes or    *)
(* takes the file of another one (image/mixin.py, image/services.py).      *)
THEOREM PicturesAreStored == PicturesSpec => []PictureStored
<1>1. PicturesInv => PictureStored
  BY DEF PicturesInv, FilesStored, PictureStored, Purging
<1> QED BY <1>1, InitPictures, NextPictures, PTL DEF PicturesSpec

-----------------------------------------------------------------------------
(* Browsing. *)
BrowsingNext == \E w \in Workers : PagesNext(w) \/ ViewingNext(w)
BrowsingSpec == RequestsInit /\ BrowsingInit /\ [][BrowsingNext]_<<work, BrowsingVars>>

PageKinds == {"search", "home", "results", "picks", "featured", "adverts"}

PageJob(j) ==
  j \in [op : PageKinds, first : SUBSET Stores, rest : SUBSET Stores, steady : SUBSET Stores]

(* What a page between its queries has, with the stores that are near: one *)
(* that waits for its second query has no more in steady than this one     *)
(* will find, and leaves room for it; the others are as ListedOnce says.   *)
PageFits(j, here) ==
  /\ j.op \in {"search", "home"} => j.steady \subseteq here
  /\ j.op \in {"results", "picks"} => j.first \cap j.rest = {}
  /\ j.op = "results" => j.steady \subseteq j.first \cup j.rest
  /\ j.op = "picks" => Cardinality(j.first \cup j.rest) = HomeSlots \/ j.steady \subseteq j.first \cup j.rest

NoPage(j) == j.op \notin PageKinds /\ "steady" \notin DOMAIN j

BrowsingInv ==
  /\ work = [w \in Workers |-> work[w]]
  /\ near \subseteq Stores /\ paying \subseteq Stores
  /\ \A w \in Workers : NoPage(work[w]) \/ (PageJob(work[w]) /\ PageFits(work[w], near))

LEMMA BrowsingWorkStep ==
  ASSUME BrowsingInv, NEW w \in Workers, NEW job, work' = [work EXCEPT ![w] = job],
         NoPage(job) \/ (PageJob(job) /\ PageFits(job, near)), UNCHANGED <<near, paying>>
  PROVE  BrowsingInv'
<1>1. /\ work' = [v \in Workers |-> work'[v]]
      /\ work'[w] = job /\ \A v \in Workers : v # w => work'[v] = work[v]
  BY WorkStep DEF BrowsingInv
<1> QED BY <1>1 DEF BrowsingInv, NoPage, PageJob, PageFits

\* A page after its first query, whatever this one found.
LEMMA PageStarts ==
  ASSUME BrowsingInv, NEW w \in Workers, NEW kind \in {"search", "home", "featured", "adverts"},
         NEW first \in SUBSET Stores, Starts(w, Page(kind, first)), UNCHANGED BrowsingVars
  PROVE  BrowsingInv'
<1> DEFINE job == Page(kind, first)
<1>1. PageJob(job) /\ PageFits(job, near)
  BY DEF BrowsingInv, Page, PageJob, PageKinds, PageFits
<1>2. work' = [work EXCEPT ![w] = job] /\ UNCHANGED <<near, paying>>
  BY DEF Starts, BrowsingVars
<1> HIDE DEF job
<1> QED BY <1>1, <1>2, BrowsingWorkStep

LEMMA FirstQueryKeeps ==
  ASSUME BrowsingInv, NEW w \in Workers, NEW kind \in {"search", "home"}, FirstQuery(w, kind)
  PROVE  BrowsingInv'
<1>1. PICK first \in AtMost(TopSlots, near \cap paying) : Starts(w, Page(kind, first))
  BY DEF FirstQuery
<1>2. first \in SUBSET Stores
  BY <1>1 DEF AtMost, BrowsingInv
<1> QED BY <1>1, <1>2, PageStarts DEF FirstQuery

LEMMA OnlyQueryKeeps ==
  ASSUME BrowsingInv, NEW w \in Workers, NEW kind \in {"featured", "adverts"}, NEW n,
         NEW stores \in SUBSET Stores, OnlyQuery(w, kind, n, stores)
  PROVE  BrowsingInv'
<1>1. PICK first \in AtMost(n, stores) : Starts(w, Page(kind, first))
  BY DEF OnlyQuery
<1>2. first \in SUBSET Stores
  BY <1>1 DEF AtMost
<1> QED BY <1>1, <1>2, PageStarts DEF OnlyQuery

LEMMA SearchGoesOnKeeps ==
  ASSUME BrowsingInv, NEW w \in Workers, SearchGoesOn(w)
  PROVE  BrowsingInv'
<1> DEFINE j == work[w]
           job == [j EXCEPT !.op = "results", !.rest = near \ j.first]
<1>1. j.op = "search" /\ work' = [work EXCEPT ![w] = job] /\ UNCHANGED <<near, paying>>
  BY DEF SearchGoesOn, Doing, Starts, Others, BrowsingVars
<1>2. PageJob(j) /\ PageFits(j, near)
  BY <1>1 DEF BrowsingInv, NoPage, PageKinds
<1>3. /\ PageJob(job) /\ job.op = "results" /\ job.first = j.first /\ job.rest = near \ j.first
      /\ job.steady = j.steady
  BY <1>2 DEF BrowsingInv, PageJob, PageKinds
<1>4. PageFits(job, near)
  BY <1>1, <1>2, <1>3 DEF PageFits
<1> HIDE DEF job
<1> QED BY <1>1, <1>3, <1>4, BrowsingWorkStep

\* The best of the others fill the section, or are all there are.
LEMMA SectionFilled ==
  ASSUME NEW first \in SUBSET Stores, NEW others \in SUBSET Stores, first \cap others = {},
         NEW rest \in AtMost(HomeSlots - Cardinality(first), others)
  PROVE  Cardinality(first \cup rest) = HomeSlots \/ rest = others
<1>1. /\ rest \subseteq others
      /\ Cardinality(rest) = Fewer(HomeSlots - Cardinality(first), Cardinality(others))
  BY DEF AtMost
<1>2. IsFiniteSet(first) /\ IsFiniteSet(others) /\ IsFiniteSet(rest)
  BY <1>1, BrowsingAssumption, FS_Subset
<1>3. Cardinality(first) \in Nat /\ Cardinality(others) \in Nat /\ Cardinality(rest) \in Nat
  BY <1>2, FS_CardinalityType
<1>4. CASE Cardinality(rest) = Cardinality(others)
  BY <1>1, <1>2, <1>4, FS_Subset
<1>5. CASE Cardinality(rest) = HomeSlots - Cardinality(first)
  <2>1. first \cap rest = {}
    BY <1>1
  <2>2. Cardinality(first \cup rest) = Cardinality(first) + Cardinality(rest) - Cardinality(first \cap rest)
    BY <1>2, FS_Union
  <2>3. Cardinality(first \cap rest) = 0
    BY <2>1, FS_EmptySet
  <2> QED BY <1>3, <1>5, <2>2, <2>3, BrowsingAssumption
<1> QED BY <1>1, <1>4, <1>5 DEF Fewer

LEMMA TopPickGoesOnKeeps ==
  ASSUME BrowsingInv, NEW w \in Workers, TopPickGoesOn(w)
  PROVE  BrowsingInv'
<1> DEFINE j == work[w]
           others == near \ j.first
<1>1. /\ j.op = "home" /\ UNCHANGED <<near, paying>>
      /\ \E rest \in AtMost(HomeSlots - Cardinality(j.first), others) :
            work' = [work EXCEPT ![w] = [j EXCEPT !.op = "picks", !.rest = rest]]
  BY DEF TopPickGoesOn, Doing, Starts, Others, BrowsingVars
<1>2. PICK rest \in AtMost(HomeSlots - Cardinality(j.first), others) :
            work' = [work EXCEPT ![w] = [j EXCEPT !.op = "picks", !.rest = rest]]
  BY <1>1
<1> DEFINE job == [j EXCEPT !.op = "picks", !.rest = rest]
<1>3. PageJob(j) /\ PageFits(j, near)
  BY <1>1 DEF BrowsingInv, NoPage, PageKinds
<1>4. rest \subseteq others /\ others \subseteq Stores /\ j.first \subseteq Stores
  BY <1>3 DEF AtMost, BrowsingInv, PageJob
<1>5. PageJob(job) /\ job.op = "picks" /\ job.first = j.first /\ job.rest = rest /\ job.steady = j.steady
  BY <1>3, <1>4 DEF PageJob, PageKinds
<1>6. Cardinality(j.first \cup rest) = HomeSlots \/ rest = others
  BY <1>4, SectionFilled
<1>7. PageFits(job, near)
  BY <1>1, <1>3, <1>4, <1>5, <1>6 DEF PageFits
<1>8. work' = [work EXCEPT ![w] = job]
  BY <1>2
<1> HIDE DEF job
<1> QED BY <1>1, <1>5, <1>7, <1>8, BrowsingWorkStep

LEMMA StoreClosesKeeps ==
  ASSUME BrowsingInv, NEW b \in Stores, StoreCloses(b)
  PROVE  BrowsingInv'
<1>1. /\ near' = near \ {b} /\ UNCHANGED paying
      /\ work' = [w \in Workers |-> NoLonger(work[w], b)]
  BY DEF StoreCloses
<1>2. ASSUME NEW w \in Workers
      PROVE  NoPage(work'[w]) \/ (PageJob(work'[w]) /\ PageFits(work'[w], near'))
  <2> DEFINE j == work[w]
  <2>1. CASE NoPage(j)
    BY <1>1, <2>1 DEF NoLonger, NoPage
  <2>2. CASE PageJob(j) /\ PageFits(j, near)
    <3> DEFINE job == [j EXCEPT !.steady = @ \ {b}]
    <3>1. work'[w] = job
      BY <1>1, <2>2 DEF NoLonger, PageJob
    <3>2. PageJob(job) /\ job.op = j.op /\ job.first = j.first /\ job.rest = j.rest /\ job.steady = j.steady \ {b}
      BY <2>2 DEF PageJob
    <3> HIDE DEF job
    <3>3. PageFits(job, near')
      BY <1>1, <2>2, <3>2 DEF PageFits
    <3> QED BY <3>1, <3>2, <3>3
  <2> QED BY <2>1, <2>2 DEF BrowsingInv
<1> QED BY <1>1, <1>2 DEF BrowsingInv, NoPage, PageJob, PageFits

LEMMA StoresKeep ==
  ASSUME BrowsingInv, NEW b \in Stores, StoreOpens(b) \/ StoreSubscribes(b)
  PROVE  BrowsingInv'
<1>1. near \subseteq near' /\ near' \subseteq Stores /\ paying' \subseteq Stores /\ UNCHANGED work
  BY DEF StoreOpens, StoreSubscribes, BrowsingInv
<1>2. \A w \in Workers : PageFits(work[w], near) => PageFits(work[w], near')
  BY <1>1 DEF PageFits
<1> QED BY <1>1, <1>2 DEF BrowsingInv, NoPage, PageJob, PageFits

LEMMA ViewingKeeps ==
  ASSUME BrowsingInv, NEW w \in Workers, ViewingNext(w)
  PROVE  BrowsingInv'
<1>1. ASSUME NEW s \in Sessions, NEW b \in Stores, DetailReads(w, s, b)
      PROVE  BrowsingInv'
  <2> DEFINE job == [op |-> "detail", session |-> s, store |-> b, viewed |-> viewed[s]]
  <2>1. work' = [work EXCEPT ![w] = job] /\ UNCHANGED <<near, paying>>
    BY <1>1 DEF DetailReads, Starts, BrowsingVars
  <2>2. NoPage(job)
    BY DEF NoPage, PageKinds
  <2> HIDE DEF job
  <2> QED BY <2>1, <2>2, BrowsingWorkStep
<1>2. CASE DetailAnswers(w)
  BY <1>2, BrowsingWorkStep DEF DetailAnswers, Ends, NoPage, PageKinds, Idle
<1> QED BY <1>1, <1>2 DEF ViewingNext

LEMMA InitBrowsing == RequestsInit /\ BrowsingInit => BrowsingInv
  BY DEF RequestsInit, BrowsingInit, BrowsingInv, NoPage, PageKinds, Idle

LEMMA NextBrowsing == BrowsingInv /\ [BrowsingNext]_<<work, BrowsingVars>> => BrowsingInv'
<1> SUFFICES ASSUME BrowsingInv, [BrowsingNext]_<<work, BrowsingVars>> PROVE BrowsingInv'
  OBVIOUS
<1>1. ASSUME NEW w \in Workers, PagesNext(w)
      PROVE  BrowsingInv'
  <2>1. NoPage(Idle)
    BY DEF NoPage, PageKinds, Idle
  <2>2. CASE SearchAnswered(w) \/ HomeAnswered(w)
    BY <2>1, <2>2, BrowsingWorkStep DEF SearchAnswered, HomeAnswered, Answers, Ends, BrowsingVars
  <2>3. CASE FeaturedStarts(w) \/ AdvertStarts(w)
    BY <2>3, OnlyQueryKeeps DEF FeaturedStarts, AdvertStarts, BrowsingInv
  <2>4. CASE SearchStarts(w) \/ TopPickStarts(w)
    BY <2>4, FirstQueryKeeps DEF SearchStarts, TopPickStarts
  <2> QED BY <1>1, <2>2, <2>3, <2>4, SearchGoesOnKeeps, TopPickGoesOnKeeps, StoreClosesKeeps, StoresKeep
        DEF PagesNext
<1>2. CASE UNCHANGED <<work, BrowsingVars>>
  BY <1>2 DEF BrowsingInv, BrowsingVars, NoPage, PageJob, PageFits
<1> QED BY <1>1, <1>2, ViewingKeeps DEF BrowsingNext

(* No store is on a page twice, and none that was near all the time is     *)
(* missing without the page being full, for any number of places and       *)
(* whatever happens between the queries (menu/views/main.py).              *)
THEOREM StoresAreListedOnce == BrowsingSpec => []ListedOnce
<1>1. BrowsingInv => ListedOnce
  BY DEF BrowsingInv, ListedOnce, PageFits, NoPage, PageKinds
<1> QED BY <1>1, InitBrowsing, NextBrowsing, PTL DEF BrowsingSpec

-----------------------------------------------------------------------------
(* Checkout.  Businesses are Browsing's stores. *)
CheckoutNext == OrderingNext \/ DiscountsNext(Stores) \/ SellingNext
CheckoutSpec == RequestsInit /\ CheckoutInit /\ [][CheckoutNext]_<<work, CheckoutVars>>

KeyRows == [payload : Charges, reply : Nat \cup {None}]
Mine(k) == {s \in sales : s.key = k}
\* Workers about to create a sale for key k.
SellingFor(k) == {w \in Workers : Doing(w, "sell") /\ work[w].key = k}

(* A worker that is to create a sale has the amount the key was first used *)
(* with, one that is to answer has a sale of the key.                      *)
SaleWork ==
  /\ work = [w \in Workers |-> work[w]]
  /\ \A w \in Workers : Doing(w, "sell") =>
        /\ work[w].key \in SaleKeys /\ keyRow[work[w].key] # None
        /\ work[w].amount = keyRow[work[w].key].payload
  /\ \A w \in Workers : Doing(w, "answer") =>
        /\ work[w].key \in SaleKeys /\ work[w].sale \in Nat
        /\ \E s \in Mine(work[w].key) : s.id = work[w].sale

SaleTypes ==
  /\ keyRow \in [SaleKeys -> KeyRows \cup {None}] /\ again \in [SaleKeys -> Nat]
  /\ IsFiniteSet(sales)

\* Sales made and sales still to be made do not exceed what was let through.
SalesCounted ==
  \A k \in SaleKeys : Cardinality(Mine(k)) + Cardinality(SellingFor(k)) <= 1 + again[k]

CheckoutInv == SaleWork /\ SaleTypes /\ SalesCounted /\ KeySellsOnce

LEMMA SalesFinite ==
  ASSUME IsFiniteSet(sales), NEW k
  PROVE  /\ IsFiniteSet(Mine(k)) /\ IsFiniteSet(SellingFor(k))
         /\ Cardinality(Mine(k)) \in Nat /\ Cardinality(SellingFor(k)) \in Nat
<1>1. Mine(k) \subseteq sales /\ SellingFor(k) \subseteq Workers
  BY DEF Mine, SellingFor
<1> QED BY <1>1, RequestsAssumption, FS_Subset, FS_CardinalityType

\* Steps that neither sell nor answer for a key.
LEMMA OtherStepsKeep ==
  ASSUME CheckoutInv, UNCHANGED <<keyRow, again>>, IsFiniteSet(sales'),
         \A k \in SaleKeys : {s \in sales' : s.key = k} = {s \in sales : s.key = k},
         work' = [v \in Workers |-> work'[v]],
         \A v \in Workers : work'[v] = work[v] \/ work'[v].op \notin {"sell", "answer"}
  PROVE  CheckoutInv'
<1>1. \A k \in SaleKeys : Mine(k)' = Mine(k)
  BY DEF Mine
<1>2. SaleWork'
  BY <1>1 DEF CheckoutInv, SaleWork, Doing
<1>3. SalesCounted'
  <2> SUFFICES ASSUME NEW k \in SaleKeys
               PROVE  Cardinality(Mine(k)') + Cardinality(SellingFor(k)') <= 1 + again'[k]
    BY DEF SalesCounted
  <2>1. SellingFor(k)' \subseteq SellingFor(k)
    BY DEF SellingFor, Doing
  <2>2. IsFiniteSet(SellingFor(k)) /\ Cardinality(Mine(k)) \in Nat /\ Cardinality(SellingFor(k)) \in Nat
    BY SalesFinite DEF CheckoutInv, SaleTypes
  <2>3. Cardinality(SellingFor(k)') <= Cardinality(SellingFor(k)) /\ Cardinality(SellingFor(k)') \in Nat
    BY <2>1, <2>2, FS_Subset, FS_CardinalityType
  <2> QED BY <1>1, <2>2, <2>3 DEF CheckoutInv, SalesCounted, SaleTypes
<1>4. KeySellsOnce'
  BY DEF CheckoutInv, KeySellsOnce
<1> QED BY <1>2, <1>3, <1>4 DEF CheckoutInv, SaleTypes

LEMMA SaleBeginsKeeps ==
  ASSUME CheckoutInv, NEW w \in Workers, NEW k \in SaleKeys, NEW amount \in Charges, SaleBegins(w, k, amount)
  PROVE  CheckoutInv'
<1> DEFINE row == keyRow[k]
           new == [payload |-> amount, reply |-> None]
           job == [op |-> "sell", key |-> k, amount |-> amount]
<1>1. /\ Free(w) /\ (row # None => row.payload = amount /\ row.reply = None)
      /\ keyRow' = (IF row = None THEN [keyRow EXCEPT ![k] = new] ELSE keyRow)
      /\ again' = (IF row # None /\ row.reply = None THEN [again EXCEPT ![k] = again[k] + 1] ELSE again)
      /\ work' = [work EXCEPT ![w] = job] /\ sales' = sales
  BY DEF SaleBegins, MayProceed, Starts
<1>2. job.op = "sell" /\ job.key = k /\ job.amount = amount
  OBVIOUS
<1>3. new \in KeyRows /\ new # None /\ new.payload = amount /\ new.reply = None
  BY CheckoutAssumption DEF KeyRows
<1> HIDE DEF job, new
<1>4. /\ work' = [v \in Workers |-> work'[v]]
      /\ work'[w] = job /\ \A v \in Workers : v # w => work'[v] = work[v]
  BY <1>1, WorkStep DEF CheckoutInv, SaleWork
<1>5. /\ keyRow'[k] # None /\ keyRow'[k].payload = amount /\ keyRow'[k].reply = None
      /\ \A l \in SaleKeys : l # k => keyRow'[l] = keyRow[l]
      /\ \A l \in SaleKeys : keyRow[l] # None => keyRow'[l] = keyRow[l]
      /\ keyRow' \in [SaleKeys -> KeyRows \cup {None}]
  BY <1>1, <1>3 DEF CheckoutInv, SaleTypes
<1>6. /\ again' \in [SaleKeys -> Nat] /\ again'[k] = IF row = None THEN again[k] ELSE again[k] + 1
      /\ \A l \in SaleKeys : l # k => again'[l] = again[l]
  BY <1>1 DEF CheckoutInv, SaleTypes
<1>7. \A l : Mine(l)' = Mine(l)
  BY <1>1 DEF Mine
<1>8. SaleWork'
  BY <1>2, <1>4, <1>5, <1>7 DEF CheckoutInv, SaleWork, Doing
<1>9. ~Doing(w, "sell") /\ ~Doing(w, "answer")
  BY <1>1 DEF Doing, Free, Idle
<1>10. SalesCounted'
  <2> SUFFICES ASSUME NEW l \in SaleKeys
               PROVE  Cardinality(Mine(l)') + Cardinality(SellingFor(l)') <= 1 + again'[l]
    BY DEF SalesCounted
  <2>1. /\ IsFiniteSet(SellingFor(l)) /\ Cardinality(SellingFor(l)) \in Nat /\ Cardinality(Mine(l)) \in Nat
        /\ again[l] \in Nat /\ Cardinality(Mine(l)) + Cardinality(SellingFor(l)) <= 1 + again[l]
    BY SalesFinite DEF CheckoutInv, SaleTypes, SalesCounted
  <2>2. CASE l # k
    <3>1. SellingFor(l)' = SellingFor(l)
      BY <1>2, <1>4, <1>9, <2>2 DEF SellingFor, Doing
    <3> QED BY <1>6, <1>7, <2>1, <2>2, <3>1
  <2>3. CASE l = k
    <3>1. SellingFor(k)' = SellingFor(k) \cup {w} /\ w \notin SellingFor(k)
      BY <1>2, <1>4, <1>9 DEF SellingFor, Doing
    <3>2. Cardinality(SellingFor(k)') = Cardinality(SellingFor(k)) + 1
      BY <2>1, <2>3, <3>1, FS_AddElement
    <3>3. row = None => Cardinality(Mine(k)) = 0 /\ Cardinality(SellingFor(k)) = 0
      <4>1. row = None => Mine(k) = {} /\ SellingFor(k) = {}
        <5>1. Mine(k) # {} => row # None
          BY DEF CheckoutInv, KeySellsOnce, Mine
        <5>2. SellingFor(k) # {} => row # None
          BY DEF CheckoutInv, SaleWork, SellingFor
        <5> QED BY <5>1, <5>2
      <4> QED BY <4>1, FS_EmptySet
    <3> QED BY <1>6, <1>7, <2>1, <2>3, <3>2, <3>3
  <2> QED BY <2>2, <2>3
<1>11. KeySellsOnce'
  <2> SUFFICES ASSUME NEW l \in SaleKeys
               PROVE  /\ Cardinality(Mine(l)) <= 1 + again'[l]
                      /\ Mine(l) # {} => keyRow'[l] # None
                      /\ keyRow'[l] # None =>
                           /\ \A s \in Mine(l) : s.total = keyRow'[l].payload
                           /\ keyRow'[l].reply # None => \E s \in Mine(l) : s.id = keyRow'[l].reply
    BY <1>1 DEF KeySellsOnce, Mine
  <2>1. /\ Cardinality(Mine(l)) <= 1 + again[l]
        /\ Mine(l) # {} => keyRow[l] # None
        /\ keyRow[l] # None =>
             /\ \A s \in Mine(l) : s.total = keyRow[l].payload
             /\ keyRow[l].reply # None => \E s \in Mine(l) : s.id = keyRow[l].reply
    BY DEF CheckoutInv, KeySellsOnce, Mine
  <2>2. Cardinality(Mine(l)) \in Nat /\ again[l] \in Nat /\ again'[l] \in Nat /\ again[l] <= again'[l]
    BY <1>6, SalesFinite DEF CheckoutInv, SaleTypes
  <2> QED BY <1>5, <2>1, <2>2
<1> QED BY <1>1, <1>5, <1>6, <1>8, <1>10, <1>11 DEF CheckoutInv, SaleTypes

LEMMA SaleCreatesKeeps ==
  ASSUME CheckoutInv, NEW w \in Workers, NEW referred \in BOOLEAN, SaleCreates(w, referred)
  PROVE  CheckoutInv'
<1> DEFINE j == work[w]
           sale == [id |-> NextSale, order |-> None, key |-> j.key, total |-> j.amount,
                    split |-> PercentSplit(j.amount, referred)]
           job == [op |-> "answer", key |-> j.key, sale |-> NextSale]
<1>1. /\ j.op = "sell" /\ sales' = sales \cup {sale} /\ work' = [work EXCEPT ![w] = job]
      /\ UNCHANGED <<keyRow, again>>
  BY DEF SaleCreates, Doing, Sold, Starts
<1>2. /\ job.op = "answer" /\ job.key = j.key /\ job.sale = NextSale
      /\ sale.key = j.key /\ sale.id = NextSale /\ sale.total = j.amount
  OBVIOUS
<1> HIDE DEF job, sale
<1>3. j.key \in SaleKeys /\ keyRow[j.key] # None /\ j.amount = keyRow[j.key].payload
  BY <1>1 DEF CheckoutInv, SaleWork, Doing
<1>4. /\ work' = [v \in Workers |-> work'[v]]
      /\ work'[w] = job /\ \A v \in Workers : v # w => work'[v] = work[v]
  BY <1>1, WorkStep DEF CheckoutInv, SaleWork
<1>5. NextSale \in Nat /\ IsFiniteSet(sales')
  BY <1>1, FS_CardinalityType, FS_AddElement DEF NextSale, CheckoutInv, SaleTypes
<1>6. \A l \in SaleKeys : Mine(l)' = IF l = j.key THEN Mine(l) \cup {sale} ELSE Mine(l)
  BY <1>1, <1>2 DEF Mine
<1>7. SaleWork'
  <2>1. \A v \in Workers : Doing(v, "sell")' =>
        /\ work'[v].key \in SaleKeys /\ keyRow'[work'[v].key] # None
        /\ work'[v].amount = keyRow'[work'[v].key].payload
    BY <1>1, <1>2, <1>4 DEF CheckoutInv, SaleWork, Doing
  <2>2. \A v \in Workers : Doing(v, "answer")' =>
        /\ work'[v].key \in SaleKeys /\ work'[v].sale \in Nat
        /\ \E s \in Mine(work[v].key)' : s.id = work'[v].sale
    <3> SUFFICES ASSUME NEW v \in Workers, work'[v].op = "answer"
                 PROVE  /\ work'[v].key \in SaleKeys /\ work'[v].sale \in Nat
                        /\ \E s \in Mine(work[v].key)' : s.id = work'[v].sale
      BY DEF Doing
    <3>1. CASE v = w
      BY <1>2, <1>3, <1>4, <1>5, <1>6, <3>1 DEF Mine
    <3>2. CASE v # w
      BY <1>4, <1>6, <3>2 DEF CheckoutInv, SaleWork, Doing, Mine
    <3> QED BY <3>1, <3>2
  <2> QED BY <1>4, <2>1, <2>2 DEF SaleWork
<1>8. SalesCounted' /\ \A l \in SaleKeys : Cardinality(Mine(l)') <= 1 + again'[l]
  <2> SUFFICES ASSUME NEW l \in SaleKeys
               PROVE  /\ Cardinality(Mine(l)') + Cardinality(SellingFor(l)') <= 1 + again'[l]
                      /\ Cardinality(Mine(l)') <= 1 + again'[l]
    BY DEF SalesCounted
  <2>1. /\ IsFiniteSet(SellingFor(l)) /\ IsFiniteSet(Mine(l)) /\ again[l] \in Nat
        /\ Cardinality(SellingFor(l)) \in Nat /\ Cardinality(Mine(l)) \in Nat
        /\ Cardinality(Mine(l)) + Cardinality(SellingFor(l)) <= 1 + again[l]
    BY SalesFinite DEF CheckoutInv, SaleTypes, SalesCounted
  <2>2. CASE l # j.key
    <3>1. SellingFor(l)' = SellingFor(l)
      BY <1>1, <1>2, <1>4, <2>2 DEF SellingFor, Doing
    <3> QED BY <1>1, <1>6, <2>1, <2>2, <3>1
  <2>3. CASE l = j.key
    <3>1. SellingFor(l)' = SellingFor(l) \ {w} /\ w \in SellingFor(l)
      BY <1>1, <1>2, <1>4, <2>3 DEF SellingFor, Doing
    <3>2. Cardinality(SellingFor(l)') = Cardinality(SellingFor(l)) - 1
      BY <2>1, <3>1, FS_RemoveElement
    <3>3. Cardinality(Mine(l)') \in Nat /\ Cardinality(Mine(l)') <= Cardinality(Mine(l)) + 1
      <4>1. Mine(l)' = Mine(l) \cup {sale}
        BY <1>6, <2>3
      <4>2. Cardinality(Mine(l) \cup {sale}) \in {Cardinality(Mine(l)), Cardinality(Mine(l)) + 1}
        BY <2>1, FS_AddElement
      <4> QED BY <2>1, <4>1, <4>2
    <3>4. Cardinality(SellingFor(l)) >= 1
      BY <2>1, <3>1, FS_EmptySet
    <3> QED BY <1>1, <2>1, <3>2, <3>3, <3>4
  <2> QED BY <2>2, <2>3
<1>9. KeySellsOnce'
  <2> SUFFICES ASSUME NEW l \in SaleKeys
               PROVE  /\ Cardinality(Mine(l)') <= 1 + again'[l]
                      /\ Mine(l)' # {} => keyRow'[l] # None
                      /\ keyRow'[l] # None =>
                           /\ \A s \in Mine(l)' : s.total = keyRow'[l].payload
                           /\ keyRow'[l].reply # None => \E s \in Mine(l)' : s.id = keyRow'[l].reply
    BY DEF KeySellsOnce, Mine
  <2>1. /\ Mine(l) # {} => keyRow[l] # None
        /\ keyRow[l] # None =>
             /\ \A s \in Mine(l) : s.total = keyRow[l].payload
             /\ keyRow[l].reply # None => \E s \in Mine(l) : s.id = keyRow[l].reply
    BY DEF CheckoutInv, KeySellsOnce, Mine
  <2> QED BY <1>1, <1>2, <1>3, <1>6, <1>8, <2>1
<1> QED BY <1>1, <1>5, <1>7, <1>8, <1>9 DEF CheckoutInv, SaleTypes

LEMMA SaleAnswersKeeps ==
  ASSUME CheckoutInv, NEW w \in Workers, SaleAnswers(w)
  PROVE  CheckoutInv'
<1> DEFINE j == work[w]
<1>1. /\ j.op = "answer" /\ keyRow' = [keyRow EXCEPT ![j.key].reply = j.sale]
      /\ work' = [work EXCEPT ![w] = Idle] /\ UNCHANGED <<sales, again>>
  BY DEF SaleAnswers, Doing, Ends
<1>2. j.key \in SaleKeys /\ j.sale \in Nat /\ \E s \in Mine(j.key) : s.id = j.sale
  BY <1>1 DEF CheckoutInv, SaleWork, Doing
<1>3. keyRow[j.key] # None /\ keyRow[j.key] \in KeyRows
  <2>1. keyRow[j.key] # None
    BY <1>2 DEF CheckoutInv, KeySellsOnce, Mine
  <2> QED BY <1>2, <2>1 DEF CheckoutInv, SaleTypes
<1>4. /\ keyRow' = [keyRow EXCEPT ![j.key] = [keyRow[j.key] EXCEPT !.reply = j.sale]]
      /\ [keyRow[j.key] EXCEPT !.reply = j.sale] \in KeyRows
  BY <1>1, <1>2, <1>3 DEF KeyRows
<1>5. /\ keyRow' \in [SaleKeys -> KeyRows \cup {None}]
      /\ \A l \in SaleKeys : l # j.key => keyRow'[l] = keyRow[l]
      /\ keyRow'[j.key] \in KeyRows /\ keyRow'[j.key] # None
      /\ keyRow'[j.key].payload = keyRow[j.key].payload /\ keyRow'[j.key].reply = j.sale
  BY <1>2, <1>3, <1>4, CheckoutAssumption DEF CheckoutInv, SaleTypes, KeyRows
<1>6. /\ work' = [v \in Workers |-> work'[v]]
      /\ work'[w] = Idle /\ \A v \in Workers : v # w => work'[v] = work[v]
  BY <1>1, WorkStep DEF CheckoutInv, SaleWork
<1>7. Idle.op \notin {"sell", "answer"}
  BY DEF Idle
<1>8. SaleWork'
  <2>1. \A v \in Workers : work'[v].op \in {"sell", "answer"} => work'[v] = work[v]
    BY <1>6, <1>7
  <2>2. \A l \in SaleKeys : keyRow[l] # None => keyRow'[l] # None /\ keyRow'[l].payload = keyRow[l].payload
    BY <1>5
  <2>3. \A l : Mine(l)' = Mine(l)
    BY <1>1 DEF Mine
  <2>4. \A v \in Workers : Doing(v, "sell")' =>
        /\ work'[v].key \in SaleKeys /\ keyRow'[work'[v].key] # None
        /\ work'[v].amount = keyRow'[work'[v].key].payload
    BY <2>1, <2>2 DEF CheckoutInv, SaleWork, Doing
  <2>5. \A v \in Workers : Doing(v, "answer")' =>
        /\ work'[v].key \in SaleKeys /\ work'[v].sale \in Nat
        /\ \E s \in Mine(work[v].key)' : s.id = work'[v].sale
    <3> SUFFICES ASSUME NEW v \in Workers, work'[v].op = "answer"
                 PROVE  /\ work'[v].key \in SaleKeys /\ work'[v].sale \in Nat
                        /\ \E s \in Mine(work[v].key)' : s.id = work'[v].sale
      BY DEF Doing
    <3>1. work'[v] = work[v] /\ Doing(v, "answer")
      BY <2>1 DEF Doing
    <3>2. /\ work[v].key \in SaleKeys /\ work[v].sale \in Nat
          /\ \E s \in Mine(work[v].key) : s.id = work[v].sale
      BY <3>1 DEF CheckoutInv, SaleWork
    <3>3. sales' = sales
      BY <1>1
    <3> QED BY <3>1, <3>2, <3>3 DEF Mine
  <2> QED BY <1>6, <2>4, <2>5 DEF SaleWork
<1>9. \A l \in SaleKeys : SellingFor(l)' = SellingFor(l) /\ Mine(l)' = Mine(l)
  BY <1>1, <1>6, <1>7 DEF SellingFor, Doing, Mine
<1>10. SalesCounted'
  BY <1>1, <1>9 DEF CheckoutInv, SalesCounted
<1>11. KeySellsOnce'
  <2> SUFFICES ASSUME NEW l \in SaleKeys
               PROVE  /\ Cardinality(Mine(l)) <= 1 + again[l]
                      /\ Mine(l) # {} => keyRow'[l] # None
                      /\ keyRow'[l] # None =>
                           /\ \A s \in Mine(l) : s.total = keyRow'[l].payload
                           /\ keyRow'[l].reply # None => \E s \in Mine(l) : s.id = keyRow'[l].reply
    BY <1>1 DEF KeySellsOnce, Mine
  <2>1. /\ Cardinality(Mine(l)) <= 1 + again[l]
        /\ Mine(l) # {} => keyRow[l] # None
        /\ keyRow[l] # None =>
             /\ \A s \in Mine(l) : s.total = keyRow[l].payload
             /\ keyRow[l].reply # None => \E s \in Mine(l) : s.id = keyRow[l].reply
    BY DEF CheckoutInv, KeySellsOnce, Mine
  <2> QED BY <1>2, <1>3, <1>5, <2>1
<1> QED BY <1>1, <1>5, <1>8, <1>10, <1>11 DEF CheckoutInv, SaleTypes

\* Orders, prices, coupons and workers that stop.
LEMMA CheckoutOthersKeep ==
  ASSUME CheckoutInv, OrderingNext \/ DiscountsNext(Stores)
  PROVE  CheckoutInv'
<1> DEFINE Still == UNCHANGED <<keyRow, again>> /\ sales' = sales
<1>1. \A w \in Workers : \A job : work' = [work EXCEPT ![w] = job] /\ job.op \notin {"sell", "answer"} =>
        /\ work' = [v \in Workers |-> work'[v]]
        /\ \A v \in Workers : work'[v] = work[v] \/ work'[v].op \notin {"sell", "answer"}
  BY DEF CheckoutInv, SaleWork
<1>2. ASSUME NEW w \in Workers, NEW job, work' = [work EXCEPT ![w] = job], job.op \notin {"sell", "answer"}, Still
      PROVE  CheckoutInv'
  BY <1>1, <1>2, OtherStepsKeep DEF CheckoutInv, SaleTypes
<1>3. ASSUME UNCHANGED work, Still
      PROVE  CheckoutInv'
  BY <1>3, OtherStepsKeep DEF CheckoutInv, SaleTypes, SaleWork
<1>4. Idle.op \notin {"sell", "answer"}
  BY DEF Idle
<1>5. ASSUME NEW i \in Dishes, NEW price \in Prices, Reprice(i, price)
      PROVE  CheckoutInv'
  BY <1>3, <1>5 DEF Reprice
<1>6. ASSUME NEW b \in Places, NEW i \in Dishes, NEW price \in Prices \cup {None}, Respecial(b, i, price)
      PROVE  CheckoutInv'
  BY <1>3, <1>6 DEF Respecial
<1>7. ASSUME NEW b \in Places, NEW to, PlaceSwitches(b, to)
      PROVE  CheckoutInv'
  BY <1>3, <1>7 DEF PlaceSwitches
<1>8. ASSUME NEW w \in Workers, NEW b \in Places, NEW i \in Dishes, NEW q \in Quantities,
             NEW d \in Distances \cup {None}, OrderReads(w, b, i, q, d)
      PROVE  CheckoutInv'
  <2> DEFINE job == [op |-> "order", subtotal |-> PriceAt(b, i) * q, distance |-> d]
  <2>1. work' = [work EXCEPT ![w] = job] /\ Still /\ job.op = "order"
    BY <1>8 DEF OrderReads, Starts, CheckoutVars
  <2> HIDE DEF job
  <2> QED BY <1>2, <2>1
<1>9. ASSUME NEW w \in Workers, OrderCreates(w) \/ CheckoutDies(w) \/ CouponUndone(w)
      PROVE  CheckoutInv'
  BY <1>2, <1>4, <1>9 DEF OrderCreates, CheckoutDies, CouponUndone, Dies, Ends, CheckoutVars
<1>10. ASSUME NEW w \in Workers, NEW c \in Offers, NEW basket \in Baskets, NEW business \in Stores,
              NEW d \in Distances \cup {None}, CouponTried(w, c, basket, business, d)
      PROVE  CheckoutInv'
  <2> DEFINE job == [op |-> "redeeming", coupon |-> c, basket |-> basket, distance |-> d,
                     totals |-> Totals(ItemsTotal(c, basket), DeliveryFor(c, d, None))]
  <2>1. work' = [work EXCEPT ![w] = job] /\ Still /\ job.op = "redeeming"
    BY <1>10 DEF CouponTried, Starts, CheckoutVars
  <2> HIDE DEF job
  <2> QED BY <1>2, <2>1
<1>11. ASSUME NEW o \in orders, OrderCharged(o)
       PROVE  CheckoutInv'
  <2>1. PICK sale : sales' = sales \cup {sale} /\ sale.key = None /\ UNCHANGED <<work, keyRow, again>>
    <3> DEFINE charged == [id |-> NextSale, order |-> o.id, key |-> None, total |-> Max({o.totals.grand, MinCharge}),
                           split |-> OrderSplit(Max({o.totals.grand, MinCharge}), o.totals)]
    <3>1. sales' = sales \cup {charged} /\ charged.key = None /\ UNCHANGED <<work, keyRow, again>>
      BY <1>11 DEF OrderCharged, Sold
    <3> QED BY <3>1
  <2>2. \A k \in SaleKeys : {s \in sales' : s.key = k} = {s \in sales : s.key = k}
    BY <2>1, CheckoutAssumption
  <2>3. IsFiniteSet(sales')
    BY <2>1, FS_AddElement DEF CheckoutInv, SaleTypes
  <2> QED BY <2>1, <2>2, <2>3, OtherStepsKeep DEF CheckoutInv, SaleWork
<1> QED BY <1>5, <1>6, <1>7, <1>8, <1>9, <1>10, <1>11 DEF OrderingNext, DiscountsNext

LEMMA CheckoutInvInit == RequestsInit /\ CheckoutInit => CheckoutInv
<1> SUFFICES ASSUME RequestsInit, CheckoutInit PROVE CheckoutInv
  OBVIOUS
<1>1. SaleTypes /\ SaleWork
  BY FS_EmptySet DEF RequestsInit, CheckoutInit, SaleTypes, SaleWork, Doing, Idle
<1>2. \A k \in SaleKeys : Mine(k) = {} /\ SellingFor(k) = {}
  BY DEF RequestsInit, CheckoutInit, Mine, SellingFor, Doing, Idle
<1>3. SalesCounted /\ KeySellsOnce
  BY <1>2, FS_EmptySet DEF CheckoutInit, SalesCounted, KeySellsOnce, Mine
<1> QED BY <1>1, <1>3 DEF CheckoutInv

LEMMA CheckoutInvNext == CheckoutInv /\ [CheckoutNext]_<<work, CheckoutVars>> => CheckoutInv'
<1> SUFFICES ASSUME CheckoutInv, [CheckoutNext]_<<work, CheckoutVars>> PROVE CheckoutInv'
  OBVIOUS
<1>1. ASSUME UNCHANGED <<work, CheckoutVars>> PROVE CheckoutInv'
  BY <1>1, OtherStepsKeep DEF CheckoutInv, SaleTypes, SaleWork, CheckoutVars
<1>2. ASSUME NEW w \in Workers, CheckoutDies(w) PROVE CheckoutInv'
  BY <1>2, CheckoutOthersKeep DEF OrderingNext
<1> QED BY <1>1, <1>2, SaleBeginsKeeps, SaleCreatesKeeps, SaleAnswersKeeps, CheckoutOthersKeep
      DEF CheckoutNext, SellingNext

(* However often a client retries, at whatever moment, a key makes one     *)
(* sale and one more for each request that went on while it had no answer, *)
(* and all of them charge the amount it was first used with                *)
(* (payments/idempotency.py).                                              *)
THEOREM AKeySellsOnce == CheckoutSpec => []KeySellsOnce
<1>1. CheckoutInv => KeySellsOnce
  BY DEF CheckoutInv
<1> QED BY <1>1, CheckoutInvInit, CheckoutInvNext, PTL DEF CheckoutSpec

-----------------------------------------------------------------------------
(* Checkout: the shares of a sale.                                         *)
LEMMA StoredNear ==
  ASSUME NEW x \in Nat
  PROVE  Stored(x) \in Nat /\ 100 * Stored(x) - x \in -50 .. 50
<1> DEFINE whole == x \div 100
           rest == x % 100
<1>1. whole \in Nat /\ rest \in 0 .. 99 /\ x = 100 * whole + rest
  OBVIOUS
<1>2. Stored(x) = IF rest > 50 \/ (rest = 50 /\ whole % 2 = 1) THEN whole + 1 ELSE whole
  BY DEF Stored
<1> HIDE DEF whole, rest
<1> QED BY <1>1, <1>2

LEMMA StoredMonotone ==
  ASSUME NEW x \in Nat, NEW y \in Nat, x <= y
  PROVE  Stored(x) <= Stored(y)
<1> DEFINE wx == x \div 100
           rx == x % 100
           wy == y \div 100
           ry == y % 100
<1>1. /\ wx \in Nat /\ rx \in 0 .. 99 /\ x = 100 * wx + rx
      /\ wy \in Nat /\ ry \in 0 .. 99 /\ y = 100 * wy + ry
  OBVIOUS
<1>2. /\ Stored(x) = IF rx > 50 \/ (rx = 50 /\ wx % 2 = 1) THEN wx + 1 ELSE wx
      /\ Stored(y) = IF ry > 50 \/ (ry = 50 /\ wy % 2 = 1) THEN wy + 1 ELSE wy
  BY DEF Stored
<1> HIDE DEF wx, rx, wy, ry
<1>3. wx < wy \/ (wx = wy /\ rx <= ry)
  BY <1>1
<1>4. CASE wx < wy
  BY <1>1, <1>2, <1>4
<1>5. CASE wx = wy /\ rx <= ry
  <2>1. (rx > 50 => ry > 50) /\ (rx = 50 => ry >= 50)
    BY <1>1, <1>5
  <2> QED BY <1>1, <1>2, <1>5, <2>1
<1> QED BY <1>3, <1>4, <1>5

\* Rounding half to even takes nothing from whole kobo as long as there is a
\* commission, however small.
LEMMA StoredWhole ==
  ASSUME NEW n \in Nat, NEW fee \in Nat, NEW more \in Nat, more > 0 \/ n = 0
  PROVE  n + Stored(fee) <= Stored(100 * n + fee + more)
<1> DEFINE y == 100 * n + fee + more
           wx == fee \div 100
           rx == fee % 100
           wy == y \div 100
           ry == y % 100
<1>1. CASE n = 0
  <2>1. Stored(fee) <= Stored(y) /\ Stored(fee) \in Nat
    <3>1. y \in Nat /\ fee <= y
      BY <1>1
    <3> HIDE DEF y
    <3> QED BY <3>1, StoredMonotone, StoredNear
  <2> QED BY <1>1, <2>1
<1>2. CASE more > 0
  <2>1. y \in Nat
    OBVIOUS
  <2>2. y = 100 * n + fee + more
    OBVIOUS
  <2>3. wx \in Nat /\ rx \in 0 .. 99 /\ fee = 100 * wx + rx
    OBVIOUS
  <2> HIDE DEF y
  <2>4. wy \in Nat /\ ry \in 0 .. 99 /\ y = 100 * wy + ry
    BY <2>1
  <2>5. /\ Stored(fee) = IF rx > 50 \/ (rx = 50 /\ wx % 2 = 1) THEN wx + 1 ELSE wx
        /\ Stored(y) = IF ry > 50 \/ (ry = 50 /\ wy % 2 = 1) THEN wy + 1 ELSE wy
    BY DEF Stored
  <2> HIDE DEF wx, rx, wy, ry
  <2>6. n + wx < wy \/ (n + wx = wy /\ rx < ry)
    BY <1>2, <2>1, <2>2, <2>3, <2>4
  <2>7. n + Stored(fee) <= Stored(y)
    <3>1. Stored(fee) \in {wx, wx + 1} /\ (Stored(fee) = wx + 1 => rx >= 50)
      BY <2>3, <2>5
    <3>2. Stored(y) \in {wy, wy + 1} /\ (ry > 50 => Stored(y) = wy + 1)
      BY <2>4, <2>5
    <3> QED BY <2>3, <2>4, <2>6, <3>1, <3>2
  <2> QED BY <2>7 DEF y
<1> QED BY <1>1, <1>2

LEMMA TimesMonotone ==
  ASSUME NEW x \in Nat, NEW y \in Nat, NEW n \in Nat, x <= y
  PROVE  n * x \in Nat /\ n * y \in Nat /\ n * x <= n * y /\ x * n <= y * n /\ x * n \in Nat
<1> DEFINE d == y - x
<1>1. d \in Nat /\ y = x + d
  OBVIOUS
<1> HIDE DEF d
<1>2. n * d \in Nat /\ n * x \in Nat /\ n * y = n * x + n * d
  BY <1>1
<1>3. n * x = x * n /\ n * y = y * n
  OBVIOUS
<1> QED BY <1>2, <1>3

LEMMA PartsAddUp ==
  ASSUME NEW t \in Nat, NEW p \in Nat, NEW q \in Nat, NEW r \in Nat, p + q + r <= 100
  PROVE  /\ (t * p) \div 100 \in Nat /\ (t * q) \div 100 \in Nat /\ (t * r) \div 100 \in Nat
         /\ (t * p) \div 100 + (t * q) \div 100 + (t * r) \div 100 <= t
<1>1. t * p \in Nat /\ t * q \in Nat /\ t * r \in Nat /\ t * p + t * q + t * r <= t * 100
  <2> DEFINE s == p + q + r
  <2>1. s \in Nat /\ s <= 100 /\ 100 \in Nat
    OBVIOUS
  <2>2. t * s = t * p + t * q + t * r
    OBVIOUS
  <2> HIDE DEF s
  <2>3. t * s <= t * 100
    BY <2>1, TimesMonotone
  <2>4. t * p \in Nat /\ t * q \in Nat /\ t * r \in Nat
    BY TimesMonotone
  <2> QED BY <2>2, <2>3, <2>4
<1> DEFINE a == t * p
           b == t * q
           c == t * r
<1>2. a \in Nat /\ b \in Nat /\ c \in Nat /\ a + b + c <= 100 * t
  BY <1>1
<1> HIDE DEF a, b, c
<1>3. a \div 100 \in Nat /\ b \div 100 \in Nat /\ c \div 100 \in Nat
  BY <1>2
<1>4. 100 * (a \div 100) <= a /\ 100 * (b \div 100) <= b /\ 100 * (c \div 100) <= c
  BY <1>2
<1>5. a \div 100 + b \div 100 + c \div 100 <= t
  BY <1>2, <1>3, <1>4
<1> QED BY <1>3, <1>5 DEF a, b, c

\* The shares of a charge split by percentages make it up.
LEMMA PercentSplitAddsUp ==
  ASSUME NEW total \in Nat, NEW referred \in BOOLEAN
  PROVE  LET split == PercentSplit(total, referred) IN
         /\ split.platform + split.driver + split.business + split.referral = total
         /\ split.platform >= 0
<1> DEFINE d == (total * Percents.driver) \div 100
           b == (total * Percents.business) \div 100
           r == (total * Percents.referral) \div 100
           s == IF referred THEN r ELSE 0
<1>1. d \in Nat /\ b \in Nat /\ r \in Nat /\ d + b + r <= total
  <2>1. /\ Percents.driver \in Nat /\ Percents.business \in Nat /\ Percents.referral \in Nat
        /\ Percents.driver + Percents.business + Percents.referral <= 100
    BY CheckoutAssumption
  <2>2. d \in Nat /\ b \in Nat /\ r \in Nat /\ d + b + r <= total
    BY <2>1, PartsAddUp
  <2> QED BY <2>2
<1>2. PercentSplit(total, referred) =
        [platform |-> total - d - b - s, driver |-> d, business |-> b, referral |-> s]
  BY DEF PercentSplit
<1> HIDE DEF d, b, r
<1>3. s \in Nat /\ s <= r
  BY <1>1
<1> HIDE DEF s
<1> QED BY <1>1, <1>2, <1>3

LEMMA TwoFinite == ASSUME NEW x, NEW y PROVE IsFiniteSet({x, y})
<1> DEFINE one == {} \cup {x}
<1>1. IsFiniteSet(one)
  BY FS_EmptySet, FS_AddElement
<1>2. {x, y} = one \cup {y}
  OBVIOUS
<1> HIDE DEF one
<1>3. IsFiniteSet(one \cup {y})
  BY <1>1, FS_AddElement
<1> QED BY <1>2, <1>3

LEMMA FeeType ==
  ASSUME NEW distance \in Distances \cup {None}
  PROVE  Fee(distance) \in Nat /\ Fee(None) = 0
<1>1. Fee(None) = 0
  BY DEF Fee
<1>2. CASE distance # None
  <2>1. IsFiniteSet({distance, MinFee}) /\ {distance, MinFee} \subseteq Int
    <3>1. {distance, MinFee} \subseteq Int
      BY <1>2, CheckoutAssumption
    <3> QED BY <3>1, TwoFinite
  <2>2. Max({distance, MinFee}) \in {distance, MinFee}
    BY <2>1, MaxIsThere
  <2> QED BY <1>1, <1>2, <2>2, CheckoutAssumption DEF Fee
<1> QED BY <1>1, <1>2

\* A greater total is stored no smaller, and holds its delivery.
LEMMA TotalsGrow ==
  ASSUME NEW less \in Nat, NEW more \in Nat, less <= more,
         NEW dist \in Distances \cup {None}, NEW full \in Distances \cup {None}, dist \in {full, None}
  PROVE  /\ Totals(less, dist).delivery <= Totals(less, dist).grand
         /\ Totals(less, dist).grand <= Totals(more, full).grand
<1> DEFINE a == 100 * less + Fee(dist) + Commission * less
           b == 100 * more + Fee(full) + Commission * more
<1>1. Fee(dist) \in Nat /\ Fee(full) \in Nat /\ Fee(dist) <= Fee(full)
  BY FeeType
<1>2. Commission \in Nat /\ Commission * less \in Nat /\ Commission * more \in Nat /\ Commission * less <= Commission * more
  BY TimesMonotone, CheckoutAssumption
<1>3. a \in Nat /\ b \in Nat /\ Fee(dist) <= a /\ a <= b
  BY <1>1, <1>2
<1>4. /\ Totals(less, dist).delivery = Stored(Fee(dist)) /\ Totals(less, dist).grand = Stored(a)
      /\ Totals(more, full).grand = Stored(b)
  BY DEF Totals
<1> HIDE DEF a, b
<1> QED BY <1>1, <1>3, <1>4, StoredMonotone

\* The charge of an order leaves the platform its commission, to the kobo.
LEMMA OrderSplitAddsUp ==
  ASSUME NEW items \in Nat, items >= MinSubtotal, NEW distance \in Distances \cup {None}
  PROVE  LET order == Totals(items, distance)
             total == Max({order.grand, MinCharge})
             split == OrderSplit(total, order) IN
         /\ total \in Nat /\ order.items = items
         /\ split.platform + split.driver + split.business + split.referral = total
         /\ split.platform >= 0
         /\ split.business = order.items /\ split.driver = order.delivery
         /\ 100 * split.platform - Commission * order.items \in -100 .. 100
<1> DEFINE order == Totals(items, distance)
           fee == Fee(distance)
           more == Commission * items
           grand == Stored(100 * items + fee + more)
           delivery == Stored(fee)
           total == Max({grand, MinCharge})
<1>1. fee \in Nat
  BY FeeType
<1>2. more \in Nat /\ (more > 0 \/ items = 0)
  <2>1. Commission \in Nat /\ 1 \in Nat /\ 1 <= Commission
    BY CheckoutAssumption
  <2>2. items * 1 <= items * Commission /\ more \in Nat /\ more = items * Commission
    BY <2>1, TimesMonotone
  <2> HIDE DEF more
  <2> QED BY <2>1, <2>2
<1>3. order = [items |-> items, delivery |-> delivery, grand |-> grand]
  BY DEF Totals
<1> HIDE DEF fee, more
<1> DEFINE x == 100 * items + fee + more
<1>4. x \in Nat /\ x >= 100 * items /\ x = 100 * items + fee + more
  BY <1>1, <1>2
<1> HIDE DEF x
<1>5. grand \in Nat /\ 100 * grand - x \in -50 .. 50
  <2>1. grand = Stored(x)
    BY DEF x
  <2> QED BY <1>4, <2>1, StoredNear
<1>6. delivery \in Nat /\ 100 * delivery - fee \in -50 .. 50
  BY <1>1, StoredNear
<1>7. items + delivery <= grand
  BY <1>1, <1>2, StoredWhole
<1> HIDE DEF order, grand, delivery
<1>8. total = grand
  <2>1. MinCharge \in Nat /\ MinCharge <= grand
    BY <1>6, <1>5, <1>7, CheckoutAssumption
  <2>2. total \in {grand, MinCharge} /\ \A y \in {grand, MinCharge} : y <= total
    <3> DEFINE both == {grand, MinCharge}
    <3>1. IsFiniteSet(both) /\ both \subseteq Int /\ both # {}
      <4>1. IsFiniteSet(both)
        BY Zenon, TwoFinite
      <4>2. both \subseteq Int /\ both # {}
        BY <1>5, <2>1
      <4> QED BY <4>1, <4>2
    <3> HIDE DEF both
    <3>2. Max(both) \in both /\ \A y \in both : y <= Max(both)
      BY <3>1, MaxIsThere
    <3> QED BY <3>2 DEF both
  <2> HIDE DEF total
  <2> QED BY <1>5, <2>1, <2>2
<1>9. OrderSplit(total, order) =
        [platform |-> grand - items - delivery, driver |-> delivery, business |-> items, referral |-> 0]
  BY <1>3, <1>8 DEF OrderSplit
<1>10. Commission * order.items = more /\ order.items = items /\ order.delivery = delivery
  BY <1>3 DEF more
<1>11. 100 * (grand - items - delivery) - more \in -100 .. 100
  BY <1>1, <1>2, <1>4, <1>5, <1>6
<1> HIDE DEF total
<1> USE DEF order, grand, delivery, total, fee, more
<1> QED BY <1>3, <1>5, <1>6, <1>7, <1>8, <1>9, <1>10, <1>11

-----------------------------------------------------------------------------
(* Checkout: what a coupon takes off.                                      *)
LEMMA BasketLines ==
  ASSUME NEW basket \in Baskets
  PROVE  /\ basket \in Seq(Range(basket)) /\ IsFiniteSet(DOMAIN basket) /\ DOMAIN basket = 1 .. Len(basket) /\ Len(basket) \in Nat
         /\ \A i \in DOMAIN basket : /\ basket[i].price \in Nat /\ basket[i].extra \in Nat
                                     /\ basket[i].quantity \in Nat
<1>1. PICK S : basket \in Seq(S)
  BY CheckoutAssumption
<1>2. Len(basket) \in Nat /\ DOMAIN basket = 1 .. Len(basket)
  BY <1>1
<1>3. basket \in Seq(Range(basket))
  BY <1>1, <1>2, SeqDef DEF Range
<1>4. IsFiniteSet(DOMAIN basket)
  BY <1>2, FS_Interval
<1>5. \A i \in DOMAIN basket : {basket[i].price, basket[i].extra, basket[i].quantity} \subseteq Nat
  BY CheckoutAssumption
<1> QED BY <1>2, <1>3, <1>4, <1>5

\* Units of a dish, in a basket or in the lines before one.
LEMMA UnitsType ==
  ASSUME NEW lines, IsFiniteSet(DOMAIN lines), \A i \in DOMAIN lines : lines[i].quantity \in Nat, NEW dish
  PROVE  Units(lines, dish) \in Nat
<1> DEFINE f == [i \in LinesWith(lines, dish) |-> lines[i].quantity]
           S == LinesWith(lines, dish)
<1>1. S \subseteq DOMAIN lines
  BY DEF LinesWith, LinesOf
<1>2. IsFiniteSet(S) /\ DOMAIN f = S /\ \A i \in S : f[i] \in Nat
  BY <1>1, FS_Subset
<1>3. Units(lines, dish) = SumFunctionOnSet(f, S)
  BY <1>2 DEF Units, SumFunction
<1> HIDE DEF f, S
<1> QED BY <1>2, <1>3, SumNat

LEMMA UnitsBefore ==
  ASSUME NEW basket \in Baskets, NEW i \in DOMAIN basket, NEW dish
  PROVE  Units(SubSeq(basket, 1, i - 1), dish) \in Nat
<1> DEFINE lines == SubSeq(basket, 1, i - 1)
<1>1. i \in 1 .. Len(basket) /\ Len(basket) \in Nat /\ \A x \in 1 .. i - 1 : basket[x] \in Range(basket) /\ basket[x].quantity \in Nat
  <2>1. i \in 1 .. Len(basket) /\ Len(basket) \in Nat /\ DOMAIN basket = 1 .. Len(basket)
    BY BasketLines
  <2>2. \A x \in 1 .. i - 1 : x \in DOMAIN basket
    BY <2>1
  <2>3. \A x \in DOMAIN basket : basket[x] \in Range(basket) /\ basket[x].quantity \in Nat
    BY BasketLines DEF Range
  <2> QED BY <2>1, <2>2, <2>3
<1>2. i \in Int /\ i - 1 \in Int /\ 1 \in Int
  BY <1>1
<1>3. /\ lines \in Seq(Range(basket)) /\ Len(lines) = (IF 1 <= i - 1 THEN i - 1 - 1 + 1 ELSE 0)
      /\ \A x \in 1 .. i - 1 - 1 + 1 : lines[x] = basket[1 + x - 1]
  BY <1>1, <1>2, SubSeqProperties
<1>4. Len(lines) = i - 1 /\ DOMAIN lines = 1 .. i - 1 /\ i - 1 \in Nat
  <2>1. Len(lines) = i - 1
    BY <1>1, <1>3
  <2>2. DOMAIN lines = 1 .. Len(lines)
    BY <1>3
  <2> QED BY <1>1, <2>1, <2>2
<1>5. \A x \in DOMAIN lines : lines[x].quantity \in Nat
  <2>1. \A x \in 1 .. i - 1 : lines[x] = basket[x]
    BY <1>1, <1>3
  <2> QED BY <1>1, <1>4, <2>1
<1>6. IsFiniteSet(DOMAIN lines)
  BY <1>1, <1>4, FS_Interval
<1> HIDE DEF lines
<1>7. Units(lines, dish) \in Nat
  BY <1>5, <1>6, UnitsType
<1> QED BY <1>7 DEF lines

LEMMA MinIsThere ==
  ASSUME NEW x \in Int, NEW y \in Int
  PROVE  Min({x, y}) \in {x, y} /\ Min({x, y}) <= x /\ Min({x, y}) <= y
<1>1. \E m \in {x, y} : \A z \in {x, y} : m <= z
  BY x <= y \/ y <= x
<1>2. Min({x, y}) \in {x, y} /\ \A z \in {x, y} : Min({x, y}) <= z
  BY <1>1 DEF Min
<1> QED BY <1>2

LEMMA MaxOfPair ==
  ASSUME NEW x \in Int, NEW y \in Int
  PROVE  Max({x, y}) \in {x, y} /\ x <= Max({x, y}) /\ y <= Max({x, y})
<1>1. \E m \in {x, y} : \A z \in {x, y} : m >= z
  BY x <= y \/ y <= x
<1>2. Max({x, y}) \in {x, y} /\ \A z \in {x, y} : Max({x, y}) >= z
  BY <1>1 DEF Max
<1> QED BY <1>2

\* A coupon takes nothing dearer than all of it off a unit.
LEMMA OffUnitWithin ==
  ASSUME NEW c \in Offers, c.unit = "percent" => c.value <= 100, NEW price \in Nat
  PROVE  OffUnit(c, price) \in 0 .. price
<1>1. c.value \in Nat
  BY CheckoutAssumption
<1>2. CASE c.unit = "percent"
  <2> DEFINE part == price * c.value
  <2>1. part \in Nat /\ part <= 100 * price
    BY <1>1, <1>2, TimesMonotone
  <2>2. OffUnit(c, price) = part \div 100
    BY <1>2 DEF OffUnit
  <2> HIDE DEF part
  <2> QED BY <2>1, <2>2
<1>3. CASE c.unit # "percent"
  <2>1. OffUnit(c, price) = Min({price, c.value})
    BY <1>3 DEF OffUnit
  <2>2. price \in Int /\ c.value \in Int
    BY <1>1
  <2>3. /\ Min({price, c.value}) \in {price, c.value}
        /\ Min({price, c.value}) <= price /\ Min({price, c.value}) <= c.value
    BY Zenon, <2>2, MinIsThere
  <2> QED BY <1>1, <2>1, <2>3
<1> QED BY <1>2, <1>3

LEMMA FreeHereWithin ==
  ASSUME NEW c \in Offers, c.kind = "BxGy", NEW basket \in Baskets, NEW i \in DOMAIN basket
  PROVE  FreeHere(c, basket, i) \in 0 .. basket[i].quantity
<1> DEFINE bought == Units(basket, c.buy)
           before == Units(SubSeq(basket, 1, i - 1), c.get)
           free == FreeItems(c, bought)
           left == Min({basket[i].quantity, free - before})
<1>1. c.every \in Nat /\ c.every > 0 /\ c.free \in Nat
  BY CheckoutAssumption
<1>2. bought \in Nat
  BY BasketLines, UnitsType
<1>3. before \in Nat
  BY UnitsBefore
<1>4. free \in Int
  <2> HIDE DEF bought
  <2>1. bought \div c.every \in Int
    BY <1>1, <1>2
  <2> QED BY <1>1, <2>1 DEF FreeItems
<1>5. basket[i].quantity \in Nat
  BY BasketLines
<1> HIDE DEF bought, before, free
<1>6. left \in Int /\ left <= basket[i].quantity
  <2>1. free - before \in Int /\ basket[i].quantity \in Int
    BY <1>3, <1>4, <1>5
  <2>2. left \in {basket[i].quantity, free - before} /\ left <= basket[i].quantity
    BY Zenon, <2>1, MinIsThere
  <2> QED BY <2>1, <2>2
<1>7. FreeHere(c, basket, i) = Max({0, left})
  BY DEF FreeHere, bought, before, free
<1> HIDE DEF left
<1>8. Max({0, left}) \in {0, left} /\ 0 <= Max({0, left})
  <2>1. 0 \in Int
    OBVIOUS
  <2> QED BY Zenon, <1>6, <2>1, MaxOfPair
<1> QED BY <1>5, <1>6, <1>7, <1>8

LEMMA DiscountWithin ==
  ASSUME NEW c \in Offers, c.unit = "percent" => c.value <= 100, NEW basket \in Baskets, NEW i \in DOMAIN basket
  PROVE  LineTotal(basket[i]) \in Nat /\ Discount(c, basket, i) \in 0 .. LineTotal(basket[i])
<1> DEFINE row == basket[i]
           off == OffUnit(c, row.price)
           here == FreeHere(c, basket, i)
           cost == row.price + row.extra
<1>1. row.price \in Nat /\ row.extra \in Nat /\ row.quantity \in Nat
  BY BasketLines
<1>2. off \in 0 .. row.price
  BY <1>1, OffUnitWithin
<1>3. c.kind = "BxGy" => here \in 0 .. row.quantity
  BY FreeHereWithin
<1>4. LineTotal(row) = cost * row.quantity
  BY DEF LineTotal
<1>5. \/ Discount(c, basket, i) = off * row.quantity
      \/ c.kind = "BxGy" /\ Discount(c, basket, i) = row.price * here
      \/ Discount(c, basket, i) = 0
  BY DEF Discount
<1> HIDE DEF off, here
<1>6. cost \in Nat /\ row.price <= cost /\ off \in Nat /\ off <= cost
  BY <1>1, <1>2
<1> HIDE DEF cost
<1>7. cost * row.quantity \in Nat
  BY <1>1, <1>6, TimesMonotone
<1>8. off * row.quantity \in Nat /\ off * row.quantity <= cost * row.quantity
  BY <1>1, <1>6, TimesMonotone
<1>9. c.kind = "BxGy" => row.price * here \in Nat /\ row.price * here <= cost * row.quantity
  <2> SUFFICES ASSUME c.kind = "BxGy" PROVE row.price * here \in Nat /\ row.price * here <= cost * row.quantity
    OBVIOUS
  <2>1. here \in Nat /\ here <= row.quantity
    BY <1>1, <1>3
  <2>2. row.price * here \in Nat /\ row.price * here <= row.price * row.quantity /\ row.price * row.quantity \in Nat
    BY <1>1, <2>1, TimesMonotone
  <2>3. row.price * row.quantity <= cost * row.quantity
    BY <1>1, <1>6, TimesMonotone
  <2> QED BY <1>7, <2>2, <2>3
<1> DEFINE all == cost * row.quantity
           some == off * row.quantity
           gift == row.price * here
<1> HIDE DEF all, some, gift, row
<1>10. LineTotal(basket[i]) = all
  BY <1>4 DEF all, row
<1>11. Discount(c, basket, i) \in 0 .. all
  <2>1. /\ all \in Nat /\ some \in Nat /\ some <= all
        /\ c.kind = "BxGy" => gift \in Nat /\ gift <= all
    BY <1>7, <1>8, <1>9 DEF all, some, gift
  <2>2. Discount(c, basket, i) = some \/ (c.kind = "BxGy" /\ Discount(c, basket, i) = gift) \/ Discount(c, basket, i) = 0
    BY <1>5 DEF some, gift
  <2> QED BY <2>1, <2>2
<1> QED BY <1>7, <1>10, <1>11 DEF all

\* A coupon takes no more off a basket than it costs.
LEMMA ItemsWithin ==
  ASSUME NEW c \in Offers, c.unit = "percent" => c.value <= 100, NEW basket \in Baskets
  PROVE  Subtotal(basket) \in Nat /\ ItemsTotal(c, basket) \in 0 .. Subtotal(basket)
<1> DEFINE S == DOMAIN basket
           costs == [i \in DOMAIN basket |-> LineTotal(basket[i])]
           offs == [i \in DOMAIN basket |-> Discount(c, basket, i)]
<1>1. IsFiniteSet(S) /\ DOMAIN costs = S /\ DOMAIN offs = S
  BY BasketLines
<1>2. \A i \in S : LineTotal(basket[i]) \in Nat /\ Discount(c, basket, i) \in 0 .. LineTotal(basket[i])
  BY DiscountWithin
<1>3. \A i \in S : costs[i] \in Nat /\ offs[i] \in Nat /\ offs[i] <= costs[i]
  BY <1>2
<1>4. /\ Subtotal(basket) = SumFunctionOnSet(costs, S)
      /\ ItemsTotal(c, basket) = SumFunctionOnSet(costs, S) - SumFunctionOnSet(offs, S)
  BY <1>1 DEF Subtotal, ItemsTotal, SumFunction
<1> HIDE DEF S, costs, offs
<1>5. SumFunctionOnSet(costs, S) \in Nat /\ SumFunctionOnSet(offs, S) \in Nat
  BY <1>1, <1>3, SumNat
<1>6. SumFunctionOnSet(offs, S) <= SumFunctionOnSet(costs, S)
  <2>1. \A i \in S : offs[i] \in Int /\ costs[i] \in Int /\ offs[i] <= costs[i]
    BY <1>3
  <2> QED BY <1>1, <2>1, SumMonotone
<1> QED BY <1>4, <1>5, <1>6

-----------------------------------------------------------------------------
(* Checkout: how orders are priced and charged, with every other step.     *)
Farness == Distances \cup {None}
PricedJob(j) ==
  /\ j.op = "order" => j.subtotal \in Nat /\ j.subtotal >= MinSubtotal /\ j.distance \in Farness
  /\ j.op = "redeeming" =>
       /\ j.coupon \in Offers /\ j.basket \in Baskets /\ j.distance \in Farness
       /\ j.totals = Totals(ItemsTotal(j.coupon, j.basket), DeliveryFor(j.coupon, j.distance, None))
PricedJobs == \A w \in Workers : PricedJob(work[w])

PriceTypes ==
  /\ menuPrice \in [Dishes -> Prices]
  /\ special \in [Places -> [Dishes -> Prices \cup {None}]]

\* An order as it was created: its totals are those of what was priced.
OrderRow(o) ==
  /\ o = [id |-> o.id, sale |-> o.sale, totals |-> o.totals, distance |-> o.distance]
  /\ \E items \in Nat, distance \in Farness : items >= MinSubtotal /\ o.totals = Totals(items, distance)
OrdersKept ==
  /\ IsFiniteSet(orders)
  /\ \A o \in orders : OrderRow(o) /\ o.id \in 0 .. Cardinality(orders) - 1
  /\ \A o, p \in orders : o.id = p.id => o = p

SharesAddUp(s) ==
  /\ s.split.platform + s.split.driver + s.split.business + s.split.referral = s.total
  /\ s.split.platform >= 0
SharesOfOrder(s, o) ==
  /\ s.split.business = o.totals.items /\ s.split.driver = o.totals.delivery
  /\ 100 * s.split.platform - Commission * o.totals.items \in -100 .. 100
SalesAddUp ==
  \A s \in sales :
    /\ SharesAddUp(s) /\ s.order \in 0 .. Cardinality(orders) - 1 \cup {None}
    /\ \A o \in orders : o.id = s.order => SharesOfOrder(s, o)

SplitInv == CheckoutInv /\ PricedJobs /\ PriceTypes /\ OrdersKept /\ SalesAddUp

LEMMA PricedStep ==
  ASSUME SplitInv, NEW w \in Workers, NEW job, work' = [work EXCEPT ![w] = job], PricedJob(job)
  PROVE  PricedJobs'
<1>1. work'[w] = job /\ \A v \in Workers : v # w => work'[v] = work[v]
  BY WorkStep DEF SplitInv, CheckoutInv, SaleWork
<1>2. ASSUME NEW v \in Workers PROVE PricedJob(work'[v])
  BY <1>1 DEF SplitInv, PricedJobs
<1> QED BY <1>2 DEF PricedJobs, PricedJob

LEMMA PricedStays ==
  ASSUME SplitInv, CheckoutInv', PricedJobs', PriceTypes', UNCHANGED <<orders, sales>>
  PROVE  SplitInv'
<1>1. OrdersKept' /\ SalesAddUp'
  BY DEF SplitInv, OrdersKept, SalesAddUp
<1> QED BY <1>1 DEF SplitInv

LEMMA PriceType ==
  ASSUME PriceTypes, NEW b \in Places, NEW i \in Dishes
  PROVE  PriceAt(b, i) \in Nat
<1>1. menuPrice[i] \in Prices /\ special[b][i] \in Prices \cup {None}
  BY DEF PriceTypes
<1> QED BY <1>1, CheckoutAssumption DEF PriceAt

LEMMA OrderReadsPrices ==
  ASSUME SplitInv, CheckoutInv', NEW w \in Workers, NEW b \in Places, NEW i \in Dishes, NEW q \in Quantities,
         NEW d \in Distances \cup {None}, OrderReads(w, b, i, q, d)
  PROVE  SplitInv'
<1> DEFINE subtotal == PriceAt(b, i) * q
           job == [op |-> "order", subtotal |-> subtotal, distance |-> d]
<1>1. /\ subtotal >= MinSubtotal /\ work' = [work EXCEPT ![w] = job]
      /\ UNCHANGED <<menuPrice, special, orders, sales>>
  BY DEF OrderReads, Starts, CheckoutVars
<1>2. subtotal \in Nat
  <2>1. PriceAt(b, i) \in Nat /\ q \in Nat
    BY PriceType, CheckoutAssumption DEF SplitInv
  <2> QED BY <2>1, TimesMonotone
<1> HIDE DEF subtotal
<1>3. PricedJob(job)
  BY <1>1, <1>2 DEF PricedJob, Farness
<1> HIDE DEF job
<1>4. PricedJobs' /\ PriceTypes'
  BY <1>1, <1>3, PricedStep DEF SplitInv, PriceTypes
<1> QED BY <1>1, <1>4, PricedStays

LEMMA CouponTriedPrices ==
  ASSUME SplitInv, CheckoutInv', NEW w \in Workers, NEW c \in Offers, NEW basket \in Baskets, NEW business,
         NEW d \in Distances \cup {None}, CouponTried(w, c, basket, business, d)
  PROVE  SplitInv'
<1> DEFINE totals == Totals(ItemsTotal(c, basket), DeliveryFor(c, d, None))
           job == [op |-> "redeeming", coupon |-> c, basket |-> basket, distance |-> d, totals |-> totals]
<1>1. work' = [work EXCEPT ![w] = job] /\ UNCHANGED <<menuPrice, special, orders, sales>>
  BY DEF CouponTried, Starts, CheckoutVars
<1>2. PricedJob(job)
  BY DEF PricedJob, Farness
<1> HIDE DEF job
<1>3. PricedJobs' /\ PriceTypes'
  BY <1>1, <1>2, PricedStep DEF SplitInv, PriceTypes
<1> QED BY <1>1, <1>3, PricedStays

\* A worker that is done, or that goes on with a sale.
LEMMA OthersPrice ==
  ASSUME SplitInv, CheckoutInv', NEW w \in Workers, NEW job, work' = [work EXCEPT ![w] = job],
         job.op \notin {"order", "redeeming"}, UNCHANGED <<menuPrice, special, orders, sales>>
  PROVE  SplitInv'
<1>1. PricedJob(job)
  BY DEF PricedJob
<1>2. PricedJobs' /\ PriceTypes'
  BY <1>1, PricedStep DEF SplitInv, PriceTypes
<1> QED BY <1>2, PricedStays

LEMMA OrderCreatesPrices ==
  ASSUME SplitInv, CheckoutInv', NEW w \in Workers, OrderCreates(w)
  PROVE  SplitInv'
<1> DEFINE j == work[w]
           row == [id |-> Cardinality(orders), sale |-> None,
                   totals |-> Totals(j.subtotal, j.distance), distance |-> j.distance]
           job == Idle
<1>1. /\ j.op = "order" /\ orders' = orders \cup {row} /\ work' = [work EXCEPT ![w] = job]
      /\ UNCHANGED <<menuPrice, special, sales>>
  BY DEF OrderCreates, Doing, Ends
<1>2. j.subtotal \in Nat /\ j.subtotal >= MinSubtotal /\ j.distance \in Farness
  BY <1>1 DEF SplitInv, PricedJobs, PricedJob
<1>3. OrderRow(row) /\ row.id = Cardinality(orders)
  BY <1>2 DEF OrderRow
<1>4. PricedJob(job)
  BY DEF PricedJob, Idle
<1> HIDE DEF row, job
<1>5. PricedJobs' /\ PriceTypes'
  BY <1>1, <1>4, PricedStep DEF SplitInv, PriceTypes
<1>6. /\ IsFiniteSet(orders) /\ Cardinality(orders) \in Nat
      /\ \A o \in orders : OrderRow(o) /\ o.id \in 0 .. Cardinality(orders) - 1
      /\ \A o, p \in orders : o.id = p.id => o = p
  BY FS_CardinalityType DEF SplitInv, OrdersKept
<1>7. IsFiniteSet(orders') /\ Cardinality(orders') = Cardinality(orders) + 1
  <2>1. row \notin orders
    BY <1>3, <1>6
  <2> QED BY <1>1, <1>6, <2>1, FS_AddElement
<1>8. OrdersKept'
  <2>1. \A o \in orders' : OrderRow(o) /\ o.id \in 0 .. Cardinality(orders') - 1
    BY <1>1, <1>3, <1>6, <1>7
  <2>2. \A o, p \in orders' : o.id = p.id => o = p
    BY <1>1, <1>3, <1>6
  <2> QED BY <1>7, <2>1, <2>2 DEF OrdersKept, OrderRow
<1>9. SalesAddUp'
  <2>1. ASSUME NEW s \in sales
        PROVE  /\ SharesAddUp(s) /\ s.order \in 0 .. Cardinality(orders') - 1 \cup {None}
               /\ \A o \in orders' : o.id = s.order => SharesOfOrder(s, o)
    <3>1. /\ SharesAddUp(s) /\ s.order \in 0 .. Cardinality(orders) - 1 \cup {None}
          /\ \A o \in orders : o.id = s.order => SharesOfOrder(s, o)
      BY DEF SplitInv, SalesAddUp
    <3>2. row.id # s.order
      BY <1>3, <1>6, <3>1, CheckoutAssumption
    <3> QED BY <1>1, <1>6, <1>7, <3>1, <3>2
  <2> QED BY <1>1, <2>1 DEF SalesAddUp, SharesAddUp, SharesOfOrder
<1> QED BY <1>5, <1>8, <1>9 DEF SplitInv

\* An order that has been charged is still the order it was.
LEMMA ChargedRow ==
  ASSUME NEW o, OrderRow(o), NEW n
  PROVE  /\ OrderRow([o EXCEPT !.sale = n]) /\ [o EXCEPT !.sale = n].id = o.id
         /\ [o EXCEPT !.sale = n].totals = o.totals
<1> DEFINE p == [id |-> o.id, sale |-> n, totals |-> o.totals, distance |-> o.distance]
<1>1. [o EXCEPT !.sale = n] = p
  <2>1. o = [id |-> o.id, sale |-> o.sale, totals |-> o.totals, distance |-> o.distance]
    BY DEF OrderRow
  <2> DEFINE r == [id |-> o.id, sale |-> o.sale, totals |-> o.totals, distance |-> o.distance]
  <2>2. [r EXCEPT !.sale = n] = p
    OBVIOUS
  <2>3. [o EXCEPT !.sale = n] = [r EXCEPT !.sale = n]
    BY <2>1
  <2> QED BY <2>2, <2>3
<1>2. p = [id |-> p.id, sale |-> p.sale, totals |-> p.totals, distance |-> p.distance]
  OBVIOUS
<1>3. p.id = o.id /\ p.totals = o.totals
  OBVIOUS
<1> HIDE DEF p
<1>4. OrderRow(p)
  BY <1>2, <1>3 DEF OrderRow
<1> QED BY <1>1, <1>3, <1>4

LEMMA OrderChargedPrices ==
  ASSUME SplitInv, CheckoutInv', NEW o \in orders, OrderCharged(o)
  PROVE  SplitInv'
<1> DEFINE total == Max({o.totals.grand, MinCharge})
           split == OrderSplit(total, o.totals)
           sale == [id |-> NextSale, order |-> o.id, key |-> None, total |-> total, split |-> split]
           charged == [o EXCEPT !.sale = NextSale]
           rest == orders \ {o}
<1>1. /\ sales' = sales \cup {sale} /\ orders' = rest \cup {charged}
      /\ UNCHANGED <<work, menuPrice, special>>
  BY DEF OrderCharged, Sold
<1>2. PricedJobs' /\ PriceTypes'
  BY <1>1 DEF SplitInv, PricedJobs, PricedJob, PriceTypes
<1>3. /\ IsFiniteSet(orders) /\ Cardinality(orders) \in Nat
      /\ \A q \in orders : OrderRow(q) /\ q.id \in 0 .. Cardinality(orders) - 1
      /\ \A q, p \in orders : q.id = p.id => q = p
  BY FS_CardinalityType DEF SplitInv, OrdersKept
<1>4. OrderRow(charged) /\ charged.id = o.id /\ charged.totals = o.totals
  BY <1>3, ChargedRow
<1>5. /\ sale.order = o.id /\ sale.total = total /\ sale.split = split
  OBVIOUS
<1>6. SharesAddUp(sale) /\ SharesOfOrder(sale, o)
  <2>1. PICK items \in Nat, distance \in Farness : items >= MinSubtotal /\ o.totals = Totals(items, distance)
    BY <1>3 DEF OrderRow
  <2>2. /\ split.platform + split.driver + split.business + split.referral = total
        /\ split.platform >= 0
        /\ split.business = o.totals.items /\ split.driver = o.totals.delivery
        /\ 100 * split.platform - Commission * o.totals.items \in -100 .. 100
    BY <2>1, OrderSplitAddsUp DEF Farness
  <2> HIDE DEF sale, split, total
  <2> QED BY <1>5, <2>2 DEF SharesAddUp, SharesOfOrder
<1> HIDE DEF sale, charged
<1>7. IsFiniteSet(orders') /\ Cardinality(orders') = Cardinality(orders)
  <2>1. IsFiniteSet(rest) /\ Cardinality(rest) = Cardinality(orders) - 1
    BY <1>3, FS_RemoveElement
  <2>2. charged \notin rest
    BY <1>3, <1>4
  <2> HIDE DEF rest
  <2>3. IsFiniteSet(orders') /\ Cardinality(orders') = Cardinality(rest) + 1
    BY <1>1, <2>1, <2>2, FS_AddElement
  <2> QED BY <1>3, <2>1, <2>3
<1>8. OrdersKept'
  <2>1. \A q \in orders' : OrderRow(q) /\ q.id \in 0 .. Cardinality(orders') - 1
    BY <1>1, <1>3, <1>4, <1>7
  <2>2. \A q, p \in orders' : q.id = p.id => q = p
    <3>1. \A q \in rest : q \in orders /\ q.id # charged.id
      BY <1>3, <1>4
    <3> QED BY <1>1, <1>3, <3>1
  <2> QED BY <1>7, <2>1, <2>2 DEF OrdersKept, OrderRow
<1>9. SalesAddUp'
  <2>1. ASSUME NEW s \in sales'
        PROVE  /\ SharesAddUp(s) /\ s.order \in 0 .. Cardinality(orders') - 1 \cup {None}
               /\ \A q \in orders' : q.id = s.order => SharesOfOrder(s, q)
    <3>1. CASE s \in sales
      <4>1. /\ SharesAddUp(s) /\ s.order \in 0 .. Cardinality(orders) - 1 \cup {None}
            /\ \A q \in orders : q.id = s.order => SharesOfOrder(s, q)
        BY <3>1 DEF SplitInv, SalesAddUp
      <4>2. charged.id = s.order => SharesOfOrder(s, charged)
        BY <1>4, <4>1 DEF SharesOfOrder
      <4> QED BY <1>1, <1>7, <4>1, <4>2
    <3>2. CASE s = sale
      <4>1. s.order = o.id /\ o.id \in 0 .. Cardinality(orders) - 1
        BY <1>3, <1>5, <3>2
      <4>2. \A q \in orders' : q.id = o.id => q = charged
        BY <1>1, <1>3, <1>4
      <4>3. SharesOfOrder(s, charged)
        BY <1>4, <1>6, <3>2 DEF SharesOfOrder
      <4> QED BY <1>6, <1>7, <3>2, <4>1, <4>2, <4>3
    <3> QED BY <1>1, <3>1, <3>2
  <2> QED BY <2>1 DEF SalesAddUp, SharesAddUp, SharesOfOrder
<1> QED BY <1>2, <1>8, <1>9 DEF SplitInv

LEMMA SaleCreatesPrices ==
  ASSUME SplitInv, CheckoutInv', NEW w \in Workers, NEW referred \in BOOLEAN, SaleCreates(w, referred)
  PROVE  SplitInv'
<1> DEFINE j == work[w]
           split == PercentSplit(j.amount, referred)
           sale == [id |-> NextSale, order |-> None, key |-> j.key, total |-> j.amount, split |-> split]
           job == [op |-> "answer", key |-> j.key, sale |-> NextSale]
<1>1. /\ j.op = "sell" /\ sales' = sales \cup {sale} /\ work' = [work EXCEPT ![w] = job]
      /\ UNCHANGED <<orders, menuPrice, special>>
  BY DEF SaleCreates, Doing, Sold, Starts
<1>2. j.amount \in Nat
  <2>1. j.key \in SaleKeys /\ keyRow[j.key] # None /\ j.amount = keyRow[j.key].payload
    BY <1>1 DEF SplitInv, CheckoutInv, SaleWork, Doing
  <2>2. keyRow[j.key] \in KeyRows
    BY <2>1 DEF SplitInv, CheckoutInv, SaleTypes
  <2>3. keyRow[j.key].payload \in Charges
    BY <2>2 DEF KeyRows
  <2> QED BY <2>1, <2>3, CheckoutAssumption
<1>3. PricedJob(job) /\ sale.order = None /\ sale.split = split /\ sale.total = j.amount
  BY DEF PricedJob
<1>4. SharesAddUp(sale)
  <2>1. split.platform + split.driver + split.business + split.referral = j.amount /\ split.platform >= 0
    BY <1>2, PercentSplitAddsUp
  <2> HIDE DEF split, sale
  <2> QED BY <1>3, <2>1 DEF SharesAddUp
<1> HIDE DEF sale, job
<1>5. PricedJobs' /\ PriceTypes' /\ OrdersKept'
  BY <1>1, <1>3, PricedStep DEF SplitInv, PriceTypes, OrdersKept
<1>6. SalesAddUp'
  <2>1. \A o \in orders : o.id # None
    BY CheckoutAssumption, FS_CardinalityType DEF SplitInv, OrdersKept
  <2>2. ASSUME NEW s \in sales'
        PROVE  /\ SharesAddUp(s) /\ s.order \in 0 .. Cardinality(orders) - 1 \cup {None}
               /\ \A o \in orders : o.id = s.order => SharesOfOrder(s, o)
    BY <1>1, <1>3, <1>4, <2>1 DEF SplitInv, SalesAddUp
  <2> QED BY <1>1, <2>2 DEF SalesAddUp, SharesAddUp, SharesOfOrder
<1> QED BY <1>5, <1>6 DEF SplitInv

LEMMA CheckoutPrices ==
  ASSUME SplitInv, CheckoutInv', CheckoutNext
  PROVE  SplitInv'
<1>1. Idle.op \notin {"order", "redeeming"}
  BY DEF Idle
<1>2. ASSUME UNCHANGED <<work, orders, sales>>, PriceTypes' PROVE SplitInv'
  <2>1. PricedJobs'
    BY <1>2 DEF SplitInv, PricedJobs, PricedJob
  <2> QED BY <1>2, <2>1, PricedStays
<1>3. ASSUME NEW i \in Dishes, NEW price \in Prices, Reprice(i, price) PROVE SplitInv'
  <2>1. PriceTypes' /\ UNCHANGED <<work, orders, sales>>
    BY <1>3 DEF Reprice, SplitInv, PriceTypes
  <2> QED BY <1>2, <2>1
<1>4. ASSUME NEW b \in Places, NEW i \in Dishes, NEW price \in Prices \cup {None}, Respecial(b, i, price)
      PROVE  SplitInv'
  <2>1. PriceTypes' /\ UNCHANGED <<work, orders, sales>>
    BY <1>4 DEF Respecial, SplitInv, PriceTypes
  <2> QED BY <1>2, <2>1
<1>5. ASSUME NEW b \in Places, NEW to, PlaceSwitches(b, to) PROVE SplitInv'
  <2>1. PriceTypes' /\ UNCHANGED <<work, orders, sales>>
    BY <1>5 DEF PlaceSwitches, SplitInv, PriceTypes
  <2> QED BY <1>2, <2>1
<1>6. ASSUME NEW w \in Workers, CheckoutDies(w) \/ CouponUndone(w) \/ SaleAnswers(w) PROVE SplitInv'
  <2>1. work' = [work EXCEPT ![w] = Idle] /\ UNCHANGED <<menuPrice, special, orders, sales>>
    BY <1>6 DEF CheckoutDies, CouponUndone, SaleAnswers, Dies, Ends, CheckoutVars
  <2> QED BY <1>1, <2>1, OthersPrice
<1>7. ASSUME NEW w \in Workers, NEW k \in SaleKeys, NEW amount \in Charges, SaleBegins(w, k, amount) PROVE SplitInv'
  <2> DEFINE job == [op |-> "sell", key |-> k, amount |-> amount]
  <2>1. /\ work' = [work EXCEPT ![w] = job] /\ UNCHANGED <<menuPrice, special, orders, sales>>
        /\ job.op \notin {"order", "redeeming"}
    BY <1>7 DEF SaleBegins, Starts
  <2> HIDE DEF job
  <2> QED BY <2>1, OthersPrice
<1>8. CASE OrderingNext
  BY <1>3, <1>4, <1>5, <1>6, <1>8, OrderReadsPrices, OrderCreatesPrices, OrderChargedPrices DEF OrderingNext
<1>9. CASE DiscountsNext(Stores)
  BY <1>6, <1>9, CouponTriedPrices DEF DiscountsNext
<1>10. CASE SellingNext
  BY <1>6, <1>7, <1>10, SaleCreatesPrices DEF SellingNext
<1> QED BY <1>8, <1>9, <1>10 DEF CheckoutNext

LEMMA CouponsWithin ==
  ASSUME PricedJobs, NEW w \in Workers, Doing(w, "redeeming"),
         work[w].coupon.unit = "percent" => work[w].coupon.value <= 100
  PROVE  LET j == work[w]
             undiscounted == Totals(Subtotal(j.basket), j.distance) IN
         /\ \A i \in DOMAIN j.basket : Discount(j.coupon, j.basket, i) \in 0 .. LineTotal(j.basket[i])
         /\ j.totals.delivery <= j.totals.grand /\ j.totals.grand <= undiscounted.grand
<1> DEFINE j == work[w]
           c == j.coupon
           basket == j.basket
           full == j.distance
           dist == DeliveryFor(c, full, None)
           items == ItemsTotal(c, basket)
           all == Subtotal(basket)
<1>1. c \in Offers /\ basket \in Baskets /\ full \in Farness /\ j.totals = Totals(items, dist)
  BY DEF PricedJobs, PricedJob, Doing
<1>2. c.unit = "percent" => c.value <= 100
  OBVIOUS
<1> HIDE DEF c, basket
<1>3. all \in Nat /\ items \in 0 .. all
  BY <1>1, <1>2, ItemsWithin
<1>4. \A i \in DOMAIN basket : Discount(c, basket, i) \in 0 .. LineTotal(basket[i])
  BY <1>1, <1>2, DiscountWithin
<1>5. dist \in {full, None} /\ dist \in Farness
  BY <1>1 DEF DeliveryFor, Farness
<1> HIDE DEF full, dist, items, all
<1>6. /\ Totals(items, dist).delivery <= Totals(items, dist).grand
      /\ Totals(items, dist).grand <= Totals(all, full).grand
  <2>1. items \in Nat /\ items <= all
    BY <1>3
  <2> QED BY <1>1, <1>3, <1>5, <2>1, TotalsGrow DEF Farness
<1> QED BY <1>1, <1>4, <1>6 DEF c, basket, full, all

LEMMA InitSplit == RequestsInit /\ CheckoutInit => SplitInv
<1> SUFFICES ASSUME RequestsInit, CheckoutInit PROVE SplitInv
  OBVIOUS
<1>1. CheckoutInv
  BY CheckoutInvInit
<1>2. PricedJobs
  BY DEF RequestsInit, PricedJobs, PricedJob, Idle
<1>3. PriceTypes /\ OrdersKept /\ SalesAddUp
  BY FS_EmptySet DEF CheckoutInit, PriceTypes, OrdersKept, SalesAddUp
<1> QED BY <1>1, <1>2, <1>3 DEF SplitInv

LEMMA NextSplit == SplitInv /\ [CheckoutNext]_<<work, CheckoutVars>> => SplitInv'
<1> SUFFICES ASSUME SplitInv, [CheckoutNext]_<<work, CheckoutVars>> PROVE SplitInv'
  OBVIOUS
<1>1. CheckoutInv'
  BY CheckoutInvNext DEF SplitInv
<1>2. ASSUME UNCHANGED <<work, CheckoutVars>> PROVE SplitInv'
  <2>1. UNCHANGED <<work, menuPrice, special, orders, sales>>
    BY <1>2 DEF CheckoutVars
  <2>2. PricedJobs' /\ PriceTypes'
    BY <2>1 DEF SplitInv, PricedJobs, PricedJob, PriceTypes
  <2> QED BY <1>1, <2>1, <2>2, PricedStays
<1> QED BY <1>1, <1>2, CheckoutPrices

(* However prices change while orders wait, and however the columns round, *)
(* the shares of every sale make up its charge and none is negative; what  *)
(* is charged for an order pays its items and its delivery and leaves the  *)
(* platform its commission, to the kobo; and no coupon takes off more than *)
(* there is (payments/services/split_calculator.py,                        *)
(* menu/payment_services.py, coupons_discount/services/order.py).          *)
THEOREM SharesMakeUpTheCharge == CheckoutSpec => []SplitAddsUp
<1>1. SplitInv => SplitAddsUp
  <2> SUFFICES ASSUME SplitInv PROVE SplitAddsUp
    OBVIOUS
  <2>1. ASSUME NEW s \in sales
        PROVE  /\ s.split.platform + s.split.driver + s.split.business + s.split.referral = s.total
               /\ s.split.platform >= 0
               /\ \A o \in orders : o.id = s.order =>
                    /\ s.split.business = o.totals.items /\ s.split.driver = o.totals.delivery
                    /\ 100 * s.split.platform - Commission * o.totals.items \in -100 .. 100
    BY DEF SplitInv, SalesAddUp, SharesAddUp, SharesOfOrder
  <2>2. PricedJobs
    BY DEF SplitInv
  <2> QED BY <2>1, <2>2, CouponsWithin DEF SplitAddsUp
<1> QED BY <1>1, InitSplit, NextSplit, PTL DEF CheckoutSpec
=============================================================================
