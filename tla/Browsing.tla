------------------------------ MODULE Browsing ------------------------------
(***************************************************************************)
(* The pages that list stores: the home page and the search.  A page is    *)
(* put together from several queries, each of which sees the stores as     *)
(* they are by then: first the stores whose subscription gives them a      *)
(* place at the top, then the others without those already listed.  While  *)
(* a page is put together branches open and close and subscriptions come   *)
(* and go.  In what order a query returns stores is left open.  The cache  *)
(* of the home page is written but not read.                               *)
(***************************************************************************)
EXTENDS Requests

CONSTANTS
    Stores,         \* businesses
    TopSlots,       \* places at the top for subscribers, 3 in the code
    HomeSlots,      \* stores in a section of the home page, 10 in the code
    AdvertSlots,    \* businesses in the banner or the carousel, 1 and 5
    Sessions,       \* sessions of customers
    ViewSlots       \* stores a session remembers, 20 in the code

ASSUME BrowsingAssumption ==
    /\ IsFiniteSet(Stores)
    /\ TopSlots \in Nat /\ HomeSlots \in Nat /\ TopSlots <= HomeSlots /\ ViewSlots \in Nat

VARIABLES
    near,       \* stores with a branch nearby that is active and accepts orders
    paying,     \* stores with an active subscription to the feature the page asks for
    viewed      \* recently_viewed of each session, the newest first

BrowsingVars == <<near, paying, viewed>>

Fewer(a, b) == IF a < b THEN a ELSE b
(* What a query with a limit may return.                                   *)
AtMost(n, set) == {s \in SUBSET set : Cardinality(s) = Fewer(n, Cardinality(set))}

BrowsingInit ==
    /\ near \in SUBSET Stores /\ paying \in SUBSET Stores
    /\ viewed = [s \in Sessions |-> << >>]

-----------------------------------------------------------------------------
(* steady: the stores that have been near since the page's first query.    *)
Page(kind, first) == [op |-> kind, first |-> first, rest |-> {}, steady |-> near]

FirstQuery(w, kind) ==
    /\ Free(w)
    /\ \E first \in AtMost(TopSlots, near \cap paying) : Starts(w, Page(kind, first))
    /\ UNCHANGED BrowsingVars

(* BusinessSearchView: the nearest of the subscribers.                     *)
SearchStarts(w) == FirstQuery(w, "search")
(* TopPickSection: some of the subscribers, as they are shuffled.          *)
TopPickStarts(w) == FirstQuery(w, "home")

\* A bug: the second query leaves out subscribers instead of the stores already listed.
OthersByFlag(first) == near \ paying
Others(first) == near \ first

(* Everything else that matches, paginated afterwards.                     *)
SearchGoesOn(w) ==
    /\ Doing(w, "search")
    /\ Starts(w, [work[w] EXCEPT !.op = "results", !.rest = Others(work[w].first)])
    /\ UNCHANGED BrowsingVars

(* The best ranked of the others, as many as there are places left.        *)
TopPickGoesOn(w) ==
    LET first == work[w].first IN
    /\ Doing(w, "home")
    /\ \E rest \in AtMost(HomeSlots - Cardinality(first), Others(first)) :
          Starts(w, [work[w] EXCEPT !.op = "picks", !.rest = rest])
    /\ UNCHANGED BrowsingVars

OnlyQuery(w, kind, n, stores) ==
    /\ Free(w)
    /\ \E first \in AtMost(n, stores) : Starts(w, Page(kind, first))
    /\ UNCHANGED BrowsingVars

FeaturedStarts(w) == OnlyQuery(w, "featured", HomeSlots, near)
(* BannerSection, CarouselSection.                                         *)
AdvertStarts(w) == OnlyQuery(w, "adverts", AdvertSlots, paying)

Answers(w, kinds) == work[w].op \in kinds /\ Ends(w) /\ UNCHANGED BrowsingVars

(* The rows are loaded by id, near or not any more, and answered.          *)
SearchAnswered(w) == Answers(w, {"results"})
HomeAnswered(w) == Answers(w, {"picks", "featured", "adverts"})

-----------------------------------------------------------------------------
(* BusinessDetailView: the session is loaded with the request and saved    *)
(* with the answer, if the store is new to it.                             *)
DetailReads(w, s, b) ==
    /\ Free(w)
    /\ Starts(w, [op |-> "detail", session |-> s, store |-> b, viewed |-> viewed[s]])
    /\ UNCHANGED BrowsingVars

Front(seq, n) == [i \in 1 .. Fewer(n, Cardinality(DOMAIN seq)) |-> seq[i]]
Prepend(b, seq) == [i \in 1 .. Cardinality(DOMAIN seq) + 1 |-> IF i = 1 THEN b ELSE seq[i - 1]]
Remembered(seq) == {seq[i] : i \in DOMAIN seq}

DetailAnswers(w) ==
    LET j == work[w] IN
    /\ Doing(w, "detail") /\ Ends(w)
    /\ viewed' = IF j.store \in Remembered(j.viewed) THEN viewed
                 ELSE [viewed EXCEPT ![j.session] = Front(Prepend(j.store, j.viewed), ViewSlots)]
    /\ UNCHANGED <<near, paying>>

-----------------------------------------------------------------------------
NoLonger(job, b) == IF "steady" \in DOMAIN job THEN [job EXCEPT !.steady = @ \ {b}] ELSE job

StoreOpens(b) ==
    /\ b \notin near /\ near' = near \cup {b}
    /\ UNCHANGED <<work, paying, viewed>>

StoreCloses(b) ==
    /\ b \in near /\ near' = near \ {b}
    /\ work' = [w \in Workers |-> NoLonger(work[w], b)]
    /\ UNCHANGED <<paying, viewed>>

StoreSubscribes(b) ==
    /\ paying' = IF b \in paying THEN paying \ {b} ELSE paying \cup {b}
    /\ UNCHANGED <<work, near, viewed>>

PagesNext(w) ==
    \/ SearchStarts(w) \/ SearchGoesOn(w) \/ SearchAnswered(w)
    \/ TopPickStarts(w) \/ TopPickGoesOn(w) \/ FeaturedStarts(w) \/ AdvertStarts(w) \/ HomeAnswered(w)
    \/ \E b \in Stores : StoreOpens(b) \/ StoreCloses(b) \/ StoreSubscribes(b)

ViewingNext(w) == (\E s \in Sessions, b \in Stores : DetailReads(w, s, b)) \/ DetailAnswers(w)

-----------------------------------------------------------------------------
BrowsingType ==
    /\ near \cup paying \subseteq Stores
    /\ \A s \in Sessions : DOMAIN viewed[s] \subseteq 1 .. ViewSlots /\ Remembered(viewed[s]) \subseteq Stores

(* Whatever opens, closes, subscribes or cancels between the queries of a  *)
(* page, no store is on it twice; a search finds every store that was near *)
(* all the time, and no place of the home page stays empty while one that  *)
(* was near all the time is missing                                        *)
(* (menu/views/main.py:BusinessSearchView, TopPickSection.fetch_ids).      *)
ListedOnce ==
    \A w \in Workers :
        LET j == work[w]
            listed == Cardinality(j.first \cup j.rest) IN
        /\ j.op \in {"results", "picks"} => j.first \cap j.rest = {}
        /\ j.op = "results" => j.steady \subseteq j.first \cup j.rest
        /\ j.op = "picks" => listed = HomeSlots \/ j.steady \subseteq j.first \cup j.rest
=============================================================================
