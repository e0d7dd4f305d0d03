------------------------------ MODULE Ratings -------------------------------
(***************************************************************************)
(* Ratings of a delivered order.  Drivers and branches are rated by the    *)
(* same code, so both are parties here; a branch's business keeps a rollup *)
(* of its branches.  A party's counters have two writers: the submission   *)
(* itself, from the party as it read it with the order, and the signal     *)
(* handlers that run once the submission has committed.                    *)
(***************************************************************************)
EXTENDS Requests, FiniteSetsExt, Functions

CONSTANTS
    Parties,        \* rated drivers and branches
    Rated,          \* Rated[p]: delivered orders of party p
    Stars,          \* the stars a rating gives
    SumBound,       \* bound: a party whose rating_sum is beyond it is not rated or recounted
    Branches        \* the parties that are branches of the one business

ASSUME RatingsAssumption ==
    /\ IsFiniteSet(Branches) /\ Branches \subseteq Parties /\ Stars \subseteq 1 .. 5 /\ SumBound \in Nat

VARIABLES
    stars,      \* stars[o]: the rating row of order o, None without one
    ever,       \* orders that have had a rating row
    sum,        \* rating_sum of each party
    count,      \* rating_count of each party
    rollup      \* the business's rating_sum and rating_count

RatingsVars == <<stars, ever, sum, count, rollup>>

RatedOrders == UNION {Rated[p] : p \in Parties}
PartyOf(o) == CHOOSE p \in Parties : o \in Rated[p]
Gone(o) == o \in ever /\ stars[o] = None      \* deleted with its rating
\* A bug: the decrement is not stopped at zero.
LeftBelow(n) == n - 1
Left(n) == IF n > 1 THEN n - 1 ELSE 0

\* A bug: a rating that was changed counts like a new one.
OnceAlways(created) == 1
Once(created) == IF created THEN 1 ELSE 0

Total(f) == SumFunctionOnSet(f, Branches)

InBound(p) == sum[p] \in 0 - SumBound .. SumBound

RatingsInit ==
    /\ stars = [o \in RatedOrders |-> None] /\ ever = {}
    /\ sum = [p \in Parties |-> 0] /\ count = [p \in Parties |-> 0]
    /\ rollup = [sum |-> 0, count |-> 0]

(* SubmitOrderRatingsView reads the order together with its party.         *)
SubmitReads(w, o, n) ==
    /\ Free(w)
    /\ ~Gone(o)
    /\ InBound(PartyOf(o))
    /\ Starts(w, [op |-> "rate", order |-> o, stars |-> n,
                  sum |-> sum[PartyOf(o)], count |-> count[PartyOf(o)]])
    /\ UNCHANGED RatingsVars

(* RatingService.submit_for_order: the row, the counters computed from the *)
(* party as it was read, and the rollup over the business's branches.      *)
SubmitSaves(w) ==
    LET j == work[w]
        p == PartyOf(j.order)
        new == stars[j.order] = None IN
    /\ Doing(w, "rate") /\ ~Gone(j.order)
    /\ stars' = [stars EXCEPT ![j.order] = j.stars]
    /\ ever' = ever \cup {j.order}
    /\ sum' = [sum EXCEPT ![p] = j.sum + j.stars - (IF new THEN 0 ELSE stars[j.order])]
    /\ count' = [count EXCEPT ![p] = j.count + (IF new THEN 1 ELSE 0)]
    /\ rollup' = IF p \in Branches THEN [sum |-> Total(sum'), count |-> Total(count')] ELSE rollup
    /\ Starts(w, [op |-> "signal", party |-> p, stars |-> j.stars, created |-> new])

(* The post_save handlers run after the commit, under the party's lock.    *)
(* The row is saved twice in one submission and both handlers see the old  *)
(* stars the second save noted, so only a created row still changes them.  *)
SignalApplies(w) ==
    LET j == work[w]
        once == Once(j.created) IN
    /\ Doing(w, "signal")
    /\ sum' = [sum EXCEPT ![j.party] = @ + once * j.stars]
    /\ count' = [count EXCEPT ![j.party] = @ + once]
    /\ Ends(w)
    /\ UNCHANGED <<stars, ever, rollup>>

(* The order or its customer is deleted, and the post_delete handler.      *)
RatingDeleted(o) ==
    LET p == PartyOf(o)
        left == Left(count[p]) IN
    /\ stars[o] # None
    /\ stars' = [stars EXCEPT ![o] = None]
    /\ count' = [count EXCEPT ![p] = left]
    /\ sum' = [sum EXCEPT ![p] = IF left = 0 THEN 0 ELSE @ - stars[o]]
    /\ UNCHANGED <<work, ever, rollup>>

(* recalc_ratings, one transaction for drivers and one for branches: the   *)
(* counts become the rows there are; rating_sum and the businesses' rollup *)
(* stay as they were.                                                      *)
Recounted(ps) ==
    /\ \A p \in ps : InBound(p)
    /\ count' = [p \in Parties |-> IF p \in ps THEN Cardinality({o \in Rated[p] : stars[o] # None})
                                             ELSE count[p]]
    /\ UNCHANGED <<work, stars, ever, sum, rollup>>

RatingsNext ==
    \/ \E w \in Workers :
         \/ \E o \in RatedOrders, n \in Stars : SubmitReads(w, o, n)
         \/ SubmitSaves(w)
         \/ SignalApplies(w)
         \/ Dies(w) /\ UNCHANGED RatingsVars
    \/ \E o \in RatedOrders : RatingDeleted(o)
    \/ \E ps \in {Parties \ Branches, Branches} : Recounted(ps)

-----------------------------------------------------------------------------
RatingsType ==
    /\ stars \in [RatedOrders -> Stars \cup {None}]
    /\ ever \subseteq RatedOrders
    /\ sum \in [Parties -> Int] /\ count \in [Parties -> Nat]
    /\ rollup \in [sum : Int, count : Nat]

(* A party's counters are written by the submission and by the signal of   *)
(* one rating; overlapping, resubmitted and deleted ratings never make it  *)
(* count a rated order more than these two times                           *)
(* (ratings/services.py:submit_for_order, ratings/signals.py).             *)
CountedAtMostTwice ==
    \A p \in Parties :
        count[p] + Cardinality({w \in Workers : Doing(w, "signal") /\ work[w].party = p
                                                  /\ work[w].created})
          <= 2 * Cardinality(ever \cap Rated[p])
=============================================================================
