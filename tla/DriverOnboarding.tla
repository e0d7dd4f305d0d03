-------------------------- MODULE DriverOnboarding ---------------------------
(***************************************************************************)
(* How a driver is taken on, phase by phase.  A phase works on the newest  *)
(* draft, creates one when it finds none, writes its records statement by  *)
(* statement, outside a transaction, and ends with the whole JSON of       *)
(* answers it loaded at its start.  No code submits, approves or rejects a *)
(* draft, and phase 4 names a variable nobody assigns: it goes no further  *)
(* than its guards.                                                        *)
(***************************************************************************)
EXTENDS Requests

CONSTANTS
    Drafts,     \* ids of DriverOnboardingSubmission rows
    Days        \* weekdays of the driver's availability

ASSUME DriverOnboardingAssumption ==
    Drafts # {} /\ None \notin Drafts /\ \A s \in SUBSET (1 .. 3) : s # None

VARIABLES
    profile,    \* whether the driver has a profile
    answers,    \* answers[d]: the complete phases of draft d, None before it exists
    newest,     \* the draft with the latest created_at, None without one
    papers,     \* the driver's documents, details and verification records
    slots,      \* weekdays with a DriverAvailability row
    wanted,     \* the days the last replacement of those rows asked for
    torn,       \* history: a replacement overlapped another, was refused, or died halfway
    approved    \* the user's is_approved

DriverVars == <<profile, answers, newest, papers, slots, wanted, torn, approved>>

Written(p) ==
    CASE p = 1 -> {"person", "account", "kin"}
      [] p = 2 -> {"license", "nin", "bvn", "guarantors", "vehicle"}
      [] p = 3 -> {"bag"}

(* The driver starts with none of the phases, or with those given.         *)
DriverInit(phases) ==
    LET d == CHOOSE x \in Drafts : TRUE
        none == phases = {} IN
    /\ profile = ~none
    /\ answers = [x \in Drafts |-> IF x = d /\ ~none THEN phases ELSE None]
    /\ newest = IF none THEN None ELSE d
    /\ papers = UNION {Written(p) : p \in phases}
    /\ slots = {} /\ wanted = {} /\ torn = FALSE /\ approved = FALSE

Goes(w, from, to) == Doing(w, from) /\ Starts(w, [work[w] EXCEPT !.op = to])
Replacing == {w \in Workers : work[w].op \in {"fill", "schedule"}}

-----------------------------------------------------------------------------
\* A bug: a phase does not ask for the one before it.
PhaseOpenAlways(phase, complete) == TRUE
PhaseOpen(phase, complete) == phase = 1 \/ phase - 1 \in complete

FirstStatement(phase) ==
    CASE phase = 1 -> "person" [] phase = 2 -> "license" [] phase = 3 -> "clear"

(* A phase, or the status (0), looks for the draft; phase 1 creates the    *)
(* profile before that.  A phase that is not open yet, and phase 4, end.   *)
DraftFound(w, phase) ==
    /\ Free(w)
    /\ phase # 1 => profile
    /\ profile' = TRUE
    /\ IF newest = None
         THEN Starts(w, [op |-> "draft", phase |-> phase])
         ELSE IF phase \in 1 .. 3 /\ PhaseOpen(phase, answers[newest])
         THEN Starts(w, [op |-> FirstStatement(phase), phase |-> phase,
                         draft |-> newest, answers |-> answers[newest]])
         ELSE UNCHANGED work
    /\ UNCHANGED <<answers, newest, papers, slots, wanted, torn, approved>>

DraftCreated(w, d) ==
    /\ Doing(w, "draft") /\ answers[d] = None
    /\ answers' = [answers EXCEPT ![d] = {}] /\ newest' = d
    /\ IF work[w].phase \in 1 .. 3 /\ PhaseOpen(work[w].phase, {})
         THEN Starts(w, [op |-> FirstStatement(work[w].phase), phase |-> work[w].phase,
                         draft |-> d, answers |-> {}])
         ELSE Ends(w)
    /\ UNCHANGED <<profile, papers, slots, wanted, torn, approved>>

Puts(paper) ==
    /\ papers' = papers \cup {paper}
    /\ UNCHANGED <<profile, answers, newest, slots, wanted, torn, approved>>

(* OnboardingPhase1View.  A phone number that is taken meanwhile, like any *)
(* other failed statement, is the death of the request.                    *)
PersonSaves(w) == Goes(w, "person", "account") /\ Puts("person")
AccountSaves(w) == Goes(w, "account", "kin") /\ Puts("account")
KinSaves(w) == Goes(w, "kin", "referral") /\ Puts("kin")

(* A refused referral code ends the request with the details saved.        *)
ReferralApplied(w, refused) ==
    /\ IF refused THEN Doing(w, "referral") /\ Ends(w) ELSE Goes(w, "referral", "answer")
    /\ UNCHANGED DriverVars

(* OnboardingPhase2View: a check that fails is recorded and goes on; one   *)
(* that the second provider answers raises, see verification/service.py.   *)
LicenseSaves(w) == Goes(w, "license", "nin") /\ Puts("license")
NinSaves(w) == Goes(w, "nin", "bvn") /\ Puts("nin")
BvnSaves(w) == Goes(w, "bvn", "guarantors") /\ Puts("bvn")
GuarantorsSave(w) == Goes(w, "guarantors", "vehicle") /\ Puts("guarantors")
VehicleSaves(w) == Goes(w, "vehicle", "answer") /\ Puts("vehicle")

(* OnboardingPhase3View replaces the availability rows one by one.         *)
SlotsDeleted(w, days) ==
    /\ Doing(w, "clear") /\ days # {}
    /\ Starts(w, [op |-> "fill", phase |-> 3, draft |-> work[w].draft,
                  answers |-> work[w].answers, left |-> days])
    /\ slots' = {} /\ wanted' = days
    /\ torn' = (Replacing # {})
    /\ UNCHANGED <<profile, answers, newest, papers, approved>>

(* The row of a weekday is unique.                                         *)
SlotCreated(w, day) ==
    LET j == work[w] IN
    /\ Doing(w, "fill") /\ day \in j.left
    /\ IF day \in slots THEN Ends(w) /\ UNCHANGED slots
       ELSE /\ slots' = slots \cup {day}
            /\ Starts(w, [j EXCEPT !.left = @ \ {day}])
    /\ torn' = (torn \/ day \in slots)
    /\ UNCHANGED <<profile, answers, newest, papers, wanted, approved>>

BagSaves(w) ==
    /\ Doing(w, "fill") /\ work[w].left = {}
    /\ Starts(w, [op |-> "answer", phase |-> 3, draft |-> work[w].draft,
                  answers |-> work[w].answers])
    /\ Puts("bag")

AnswersSave(w) ==
    LET j == work[w] IN
    /\ Doing(w, "answer") /\ Ends(w)
    /\ answers' = [answers EXCEPT ![j.draft] = j.answers \cup {j.phase}]
    /\ UNCHANGED <<profile, newest, papers, slots, wanted, torn, approved>>

-----------------------------------------------------------------------------
(* DriverAvailabilityView: all rows go, then all come, in two statements.  *)
ScheduleDeleted(w, days) ==
    /\ Free(w) /\ profile
    /\ Starts(w, [op |-> "schedule", left |-> days])
    /\ slots' = {} /\ wanted' = days
    /\ torn' = (Replacing # {})
    /\ UNCHANGED <<profile, answers, newest, papers, approved>>

ScheduleCreated(w) ==
    LET days == work[w].left IN
    /\ Doing(w, "schedule") /\ Ends(w)
    /\ slots' = IF days \cap slots = {} THEN slots \cup days ELSE slots
    /\ torn' = (torn \/ days \cap slots # {})
    /\ UNCHANGED <<profile, answers, newest, papers, wanted, approved>>

(* The views that verify one paper record the answer of the provider.      *)
NinChecked == profile /\ Puts("nin") /\ UNCHANGED work
BvnChecked == profile /\ Puts("bvn") /\ UNCHANGED work
BvnValidated == profile /\ Puts("bvn") /\ UNCHANGED work
AccountChecked == profile /\ Puts("bank_account") /\ UNCHANGED work
FaceChecked == profile /\ Puts("face_match") /\ UNCHANGED work

ApproveDriver ==
    /\ profile
    /\ approved' = TRUE
    /\ UNCHANGED <<work, profile, answers, newest, papers, slots, wanted, torn>>

DriverDies(w) ==
    /\ Dies(w)
    /\ torn' = (torn \/ w \in Replacing)
    /\ UNCHANGED <<profile, answers, newest, papers, slots, wanted, approved>>

-----------------------------------------------------------------------------
PhasesNext(phases, days) ==
    \/ \E w \in Workers, phase \in phases : DraftFound(w, phase)
    \/ \E w \in Workers, d \in Drafts : DraftCreated(w, d)
    \/ \E w \in Workers : \/ PersonSaves(w) \/ AccountSaves(w) \/ KinSaves(w)
                          \/ LicenseSaves(w) \/ NinSaves(w) \/ BvnSaves(w)
                          \/ GuarantorsSave(w) \/ VehicleSaves(w)
                          \/ BagSaves(w) \/ AnswersSave(w) \/ DriverDies(w)
    \/ \E w \in Workers, refused \in BOOLEAN : ReferralApplied(w, refused)
    \/ \E w \in Workers, chosen \in SUBSET days : SlotsDeleted(w, chosen)
    \/ \E w \in Workers, day \in days : SlotCreated(w, day)

ScheduleNext ==
    \/ \E w \in Workers, chosen \in SUBSET Days : ScheduleDeleted(w, chosen)
    \/ \E w \in Workers : ScheduleCreated(w)

ChecksNext ==
    NinChecked \/ BvnChecked \/ BvnValidated \/ AccountChecked \/ FaceChecked \/ ApproveDriver

-----------------------------------------------------------------------------
DriverType ==
    /\ {profile, torn, approved} \subseteq BOOLEAN
    /\ \A d \in Drafts : answers[d] # None => answers[d] \subseteq 1 .. 3
    /\ newest # None => answers[newest] # None
    /\ papers \subseteq (UNION {Written(p) : p \in 1 .. 3}) \cup {"bank_account", "face_match"}
    /\ slots \cup wanted \subseteq Days

(* Overlapping phases overwrite each other's answers, yet a draft that     *)
(* holds a phase holds the ones before it and everything they write was    *)
(* written; and the availability is what the last replacement listed, but  *)
(* while one is under way or after replacements overlapped or one died     *)
(* (accounts/views/driver_reg_views.py,                                    *)
(* driver_api/views.py:DriverAvailabilityView).                            *)
PhasesHaveRecords ==
    /\ \A d \in Drafts : answers[d] # None =>
          \A p \in answers[d] : Written(p) \subseteq papers /\ (p = 1 \/ p - 1 \in answers[d])
    /\ ~torn /\ Replacing = {} => slots = wanted
=============================================================================
