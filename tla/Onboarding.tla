----------------------------- MODULE Onboarding -----------------------------
(***************************************************************************)
(* How a business administrator is taken on, phase by phase.  A phase      *)
(* checks the onboarding status, talks to the providers that verify its    *)
(* papers, and writes in one transaction, some of it from rows loaded at   *)
(* its start.  Administrators review meanwhile.  verification/service.py   *)
(* raises where it should report a success: a check that the first         *)
(* provider answers counts as failed, and one that the second provider     *)
(* answers ends the request.  The phases' bank details are in              *)
(* BankAccounts, the menus of phase 3 in Catalog.                          *)
(***************************************************************************)
EXTENDS Requests

CONSTANTS
    Businesses,     \* ids of Business rows
    MaxExcess       \* bound: registrations beyond the first

StatusRows == [step : 0 .. 3, complete : BOOLEAN, review : BOOLEAN]

ASSUME OnboardingAssumption ==
    MaxExcess \in Nat /\ None \notin Businesses /\ None \notin StatusRows

VARIABLES
    onboard,    \* the administrator's BusinessOnboardStatus, None before it exists
    owned,      \* the business the administrator has, None before phase 1
    created,    \* businesses that exist
    ready,      \* businesses whose onboarding_complete is set
    failed,     \* businesses with a verification row that is no success
    located,    \* businesses with a branch
    registered, \* times a menu was registered for any of the businesses
    excess,     \* history: times the status was found, or made, incomplete again
    reviewed    \* history: readiness was decided by hand or written back, or the business replaced

BusinessVars == <<onboard, owned, created, ready, failed, located, registered, excess, reviewed>>

BusinessInit ==
    /\ onboard = None /\ owned = None
    /\ created = {} /\ ready = {} /\ failed = {} /\ located = {}
    /\ registered = 0 /\ excess = 0 /\ reviewed = FALSE

Put(set, b, on) == IF on THEN set \cup {b} ELSE set \ {b}

-----------------------------------------------------------------------------
(* RegisterBAdmin: account, administrator and status in one transaction;   *)
(* the status of an administrator who registers again stays.               *)
Registered ==
    /\ onboard = None
    /\ onboard' = [step |-> 0, complete |-> FALSE, review |-> FALSE]
    /\ UNCHANGED <<work, owned, created, ready, failed, located, registered, excess, reviewed>>

(* RestaurantPhase1RegisterView: a first call creates a business, a later  *)
(* one saves all columns of the one it loaded.                             *)
Phase1Reads(w) ==
    /\ Free(w) /\ onboard # None /\ ~onboard.complete
    /\ Starts(w, [op |-> "first", own |-> owned, ready |-> owned \in ready])
    /\ UNCHANGED BusinessVars

Phase1Saves(w, b) ==
    LET j == work[w] IN
    /\ Doing(w, "first") /\ Ends(w)
    /\ IF j.own = None
         THEN /\ b \notin created
              /\ created' = created \cup {b} /\ owned' = b
              /\ reviewed' = (reviewed \/ owned # None)
              /\ UNCHANGED ready
         ELSE /\ b = j.own
              /\ ready' = Put(ready, b, j.ready)
              /\ reviewed' = (reviewed \/ ready' # ready)
              /\ UNCHANGED <<created, owned>>
    /\ onboard' = [onboard EXCEPT !.step = 1]
    /\ UNCHANGED <<failed, located, registered, excess>>

(* RestaurantPhase2OnboardingView up to its transaction: the checks the    *)
(* request asks for, none of which succeeds.                               *)
Phase2Reads(w, asks) ==
    /\ Free(w) /\ owned # None /\ ~onboard.complete
    /\ Starts(w, [op |-> "second", own |-> owned, asks |-> asks])
    /\ UNCHANGED BusinessVars

(* sync_branches_simple and sync_branches_bulk: the branches listed are    *)
(* there afterwards, with their hours, and no other branch goes.           *)
WithBranches(b, lists) == IF lists THEN located \cup {b} ELSE located

NeedsReview(asks) == asks

Phase2Saves(w, lists) ==
    LET b == work[w].own
        asks == work[w].asks IN
    /\ Doing(w, "second") /\ Ends(w)
    /\ failed' = IF asks THEN failed \cup {b} ELSE failed
    /\ ready' = Put(ready, b, ~NeedsReview(asks))
    /\ onboard' = [onboard EXCEPT !.step = 2, !.review = NeedsReview(asks)]
    /\ located' = WithBranches(b, lists)
    /\ reviewed' = (reviewed \/ b # owned)
    /\ UNCHANGED <<owned, created, registered, excess>>

\* A bug: phase 3 is not refused once the onboarding is complete.
Phase3ReadsAgain(w) ==
    /\ Free(w) /\ owned # None
    /\ Starts(w, [op |-> "third", review |-> onboard.review, complete |-> onboard.complete])
    /\ UNCHANGED BusinessVars

(* RegisterMenusPhase3View: the status is saved with the review flag it    *)
(* was loaded with.                                                        *)
Phase3Reads(w) ==
    /\ Free(w) /\ owned # None /\ ~onboard.complete
    /\ Starts(w, [op |-> "third", review |-> onboard.review, complete |-> onboard.complete])
    /\ UNCHANGED BusinessVars

Phase3Saves(w) ==
    /\ Doing(w, "third") /\ excess < MaxExcess
    /\ onboard' = [step |-> 3, complete |-> TRUE, review |-> work[w].review]
    /\ registered' = registered + 1
    /\ excess' = IF onboard.complete /\ ~work[w].complete THEN excess + 1 ELSE excess
    /\ reviewed' = (reviewed \/ work[w].review # onboard.review)
    /\ Ends(w)
    /\ UNCHANGED <<owned, created, ready, failed, located>>

-----------------------------------------------------------------------------
(* AdminBusinessReviewDetailsView loads the status and the business; its   *)
(* serializer saves the status, then the business, ready only if the       *)
(* request says that no review is needed, then the verification rows.      *)
ReviewLoads(w) ==
    /\ Free(w) /\ onboard # None
    /\ Starts(w, [op |-> "review", status |-> onboard, own |-> owned])
    /\ UNCHANGED BusinessVars

ReviewSavesStatus(w, says) ==
    LET j == work[w] IN
    /\ Doing(w, "review") /\ excess < MaxExcess
    /\ onboard' = [j.status EXCEPT !.review = IF says = None THEN @ ELSE says]
    /\ excess' = IF onboard.complete /\ ~j.status.complete THEN excess + 1 ELSE excess
    /\ reviewed' = TRUE
    /\ IF j.own = None THEN Ends(w)
       ELSE Starts(w, [op |-> "business", own |-> j.own, ready |-> says = FALSE])
    /\ UNCHANGED <<owned, created, ready, failed, located, registered>>

ReviewSavesBusiness(w) ==
    LET j == work[w] IN
    /\ Doing(w, "business")
    /\ ready' = Put(ready, j.own, j.ready)
    /\ Starts(w, [op |-> "papers", own |-> j.own])
    /\ UNCHANGED <<onboard, owned, created, failed, located, registered, excess, reviewed>>

ReviewSavesPapers(w, passes) ==
    /\ Doing(w, "papers") /\ Ends(w)
    /\ failed' = IF passes THEN failed \ {work[w].own} ELSE failed
    /\ UNCHANGED <<onboard, owned, created, ready, located, registered, excess, reviewed>>

(* AdminBusinessUpdateView.                                                *)
AdminSetsReady(b, on) ==
    /\ b \in created
    /\ ready' = Put(ready, b, on) /\ reviewed' = TRUE
    /\ UNCHANGED <<work, onboard, owned, created, failed, located, registered, excess>>

(* The views that verify one paper record the answer of the provider.      *)
Recorded ==
    /\ owned # None
    /\ failed' = failed \cup {owned}
    /\ UNCHANGED <<work, onboard, owned, created, ready, located, registered, excess, reviewed>>
TinChecked == Recorded
RcChecked == Recorded
BusinessBvnChecked == Recorded

ApplicantDies(w) == Dies(w) /\ UNCHANGED BusinessVars

-----------------------------------------------------------------------------
ApplyingNext(businesses) ==
    \/ Registered
    \/ \E w \in Workers : Phase1Reads(w) \/ Phase3Reads(w) \/ Phase3Saves(w) \/ ApplicantDies(w)
    \/ \E w \in Workers, b \in businesses : Phase1Saves(w, b)
    \/ \E w \in Workers, on \in BOOLEAN : Phase2Reads(w, on) \/ Phase2Saves(w, on)
    \/ TinChecked \/ RcChecked \/ BusinessBvnChecked

ReviewsNext ==
    \/ \E w \in Workers : ReviewLoads(w) \/ ReviewSavesBusiness(w)
    \/ \E w \in Workers, says \in BOOLEAN \cup {None} : ReviewSavesStatus(w, says)
    \/ \E w \in Workers, passes \in BOOLEAN : ReviewSavesPapers(w, passes)
    \/ \E b \in Businesses, on \in BOOLEAN : AdminSetsReady(b, on)

-----------------------------------------------------------------------------
BusinessType ==
    /\ onboard # None => onboard \in StatusRows
    /\ owned \in created \cup {None} /\ created \subseteq Businesses
    /\ ready \cup failed \cup located \subseteq created
    /\ registered \in Nat /\ excess \in 0 .. MaxExcess /\ reviewed \in BOOLEAN

(* Menus are registered once per business onboarding, but for phase 3      *)
(* requests that overlapped and for a status a review wrote back; a        *)
(* complete onboarding has its menus; and, unless a person, or a row       *)
(* loaded earlier, said so, a business flagged for review has a failed     *)
(* check and is not ready (menu/views/registration.py,                     *)
(* accounts/views/business_reg_views.py, verification/serializers.py).     *)
OnboardedOnce ==
    /\ registered <= 1 + excess
    /\ registered > 0 /\ excess = 0 => onboard.complete
    /\ onboard # None =>
         /\ onboard.complete => registered > 0 /\ owned # None
         /\ onboard.review /\ ~reviewed => owned \in failed \ ready
=============================================================================
