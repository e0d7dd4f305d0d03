----------------------------- MODULE Referrals ------------------------------
(***************************************************************************)
(* Referrals: a user applies another's code once, anti-cheat rules, the    *)
(* conversion of a referred driver, and the administrator's payout that    *)
(* consumes converted referrals.  Applying a code at a customer's          *)
(* registration queues the referrer's award of points (Points.tla).        *)
(***************************************************************************)
EXTENDS Points, Sequences

CONSTANTS
    Invitations,    \* referral codes handed out: <<referrer, referee, referee's role>>
    Origins,        \* the handset and network requests come from, None for none known
    MaxPerOrigin,   \* MAX_REFERRALS_PER_IP_24H
    PerUnit,        \* REFERRALS_PER_UNIT
    MaxPayouts      \* bound: payouts made

Roles == {"customer", "driver"}

(* A ProfileReferral row.                                                  *)
ReferralRow ==
    [by : Users, role : Roles, origin : Origins, recent : BOOLEAN,
     flagged : BOOLEAN, converted : BOOLEAN, consumed : BOOLEAN]

ASSUME ReferralsAssumption ==
    /\ IsFiniteSet(Users) /\ None \notin ReferralRow
    /\ Invitations \subseteq Users \X Users \X Roles
    /\ MaxPerOrigin \in Nat /\ PerUnit \in Nat \ {0} /\ MaxPayouts \in Nat

VARIABLES
    referral,       \* referral[u]: the ProfileReferral whose referee is u
    payouts         \* ReferralPayout rows, in the order they are made

ReferralsVars == <<referral, payouts>>

Applied(u) == referral[u] # None
Referees == {u \in Users : Applied(u)}
Convertible(u) == Applied(u) /\ referral[u].role = "driver" /\ ~referral[u].converted

\* A bug: referrals that were paid for are selected again.
PayableAgain(u) ==
    {v \in Referees : referral[v].by = u /\ referral[v].converted /\ ~referral[v].flagged}

(* What process_referral_payout selects for a referrer.                    *)
Payable(u) ==
    {v \in Referees : /\ referral[v].by = u /\ referral[v].converted
                      /\ ~referral[v].consumed /\ ~referral[v].flagged}

ReferralsInit ==
    /\ referral = [u \in Users |-> None]
    /\ payouts = <<>>

-----------------------------------------------------------------------------
(* apply_referral_code with validate_referral_application: every check     *)
(* reads rows of other users, none is locked.                              *)
ApplyReads(w, by, u, role, origin) ==
    /\ Free(w)
    /\ ~Applied(u)
    /\ by # u
    /\ ~(Applied(by) /\ referral[by].by = u)
    /\ origin # None =>
         Cardinality({v \in Referees : referral[v].recent /\ referral[v].origin = origin}) < MaxPerOrigin
    /\ Starts(w, [op |-> "apply", user |-> u,
                  row |-> [by |-> by, role |-> role, origin |-> origin, recent |-> TRUE,
                           flagged |-> origin # None /\ Applied(by) /\ referral[by].origin = origin,
                           converted |-> FALSE, consumed |-> FALSE]])
    /\ UNCHANGED <<ReferralsVars, PointsVars>>

(* The referee column is unique.  A customer's registration then queues    *)
(* award_referral_success_task; ApplyReferralCodeView and the driver's     *)
(* first onboarding phase do not.                                          *)
ApplyCommits(w, registers) ==
    LET j == work[w]
        award == [user |-> j.row.by, key |-> <<"referral-success", j.user>>, points |-> None] IN
    /\ Doing(w, "apply")
    /\ registers => j.row.role = "customer"
    /\ IF Applied(j.user)
         THEN UNCHANGED <<referral, owed>>
         ELSE /\ referral' = [referral EXCEPT ![j.user] = j.row]
              /\ owed' = IF registers THEN owed \cup {award} ELSE owed
    /\ Ends(w)
    /\ UNCHANGED <<payouts, ledger, redemptions, rule, month, snapshot>>

(* 24 hours pass: applications no longer count against their network.      *)
DayPasses ==
    /\ \E u \in Referees : referral[u].recent
    /\ referral' = [u \in Users |-> IF Applied(u) THEN [referral[u] EXCEPT !.recent = FALSE] ELSE None]
    /\ UNCHANGED <<work, payouts, PointsVars>>

(* convert_referral_for_driver, under the row's lock.  For a customer      *)
(* validate_order_for_conversion reads an amount neither Sale nor Order    *)
(* has, takes it for 0 and refuses, so a customer never converts.          *)
Convert(u) ==
    /\ Convertible(u)
    /\ referral' = [referral EXCEPT ![u].converted = TRUE]
    /\ UNCHANGED <<work, payouts, PointsVars>>

(* process_referral_payout counts the payable rows without a lock; mode    *)
(* "all" takes every full unit, "partial" the units asked for.             *)
PayoutCounts(w, u, units) ==
    /\ Free(w)
    /\ Len(payouts) < MaxPayouts
    /\ LET all == Cardinality(Payable(u)) \div PerUnit
           taken == IF units = None THEN all ELSE units IN
       /\ taken <= all
       /\ Starts(w, [op |-> "payout", user |-> u, units |-> taken])
    /\ UNCHANGED <<ReferralsVars, PointsVars>>

(* The rows are locked as they are read again: one that a payout committed *)
(* meanwhile has consumed no longer matches, so there may be fewer.        *)
PayoutTakes(w) ==
    LET j == work[w]
        size == Min({j.units * PerUnit, Cardinality(Payable(j.user))}) IN
    /\ Doing(w, "payout")
    /\ \E rows \in kSubset(size, Payable(j.user)) :
         /\ referral' = [u \in Users |-> IF u \in rows THEN [referral[u] EXCEPT !.consumed = TRUE]
                                         ELSE referral[u]]
         /\ payouts' = Append(payouts, [user |-> j.user, units |-> j.units, rows |-> rows])
    /\ Ends(w)
    /\ UNCHANGED PointsVars

-----------------------------------------------------------------------------
Referring(w) ==
    \/ \E i \in Invitations, o \in Origins : ApplyReads(w, i[1], i[2], i[3], o)
    \/ \E registers \in BOOLEAN : ApplyCommits(w, registers)
    \/ \E u \in Users, n \in {None} \cup 1 .. Cardinality(Users) : PayoutCounts(w, u, n)
    \/ PayoutTakes(w)

ReferralsNext ==
    \/ \E w \in Workers : Referring(w)
    \/ \E w \in Workers : Dies(w) /\ UNCHANGED <<ReferralsVars, PointsVars>>
    \/ DayPasses
    \/ \E u \in Users : Convert(u)

-----------------------------------------------------------------------------
ReferralsType ==
    /\ \A u \in Referees : referral[u] \in ReferralRow
    /\ \A i \in DOMAIN payouts :
         payouts[i] \in [user : Users, units : Nat, rows : SUBSET Users]

(* Payouts asked for at the same time consume each referral at most once:  *)
(* a consumed referral stands in exactly one payout's snapshot, its        *)
(* referrer's, and was converted and clean                                 *)
(* (referrals/services.py:process_referral_payout).                        *)
ConsumedByOnePayout ==
    /\ \A u \in Referees : referral[u].consumed <=>
         \E i \in DOMAIN payouts : u \in payouts[i].rows
    /\ \A i \in DOMAIN payouts : \A u \in payouts[i].rows :
         /\ referral[u].by = payouts[i].user
         /\ referral[u].converted /\ ~referral[u].flagged
         /\ \A k \in DOMAIN payouts : u \in payouts[k].rows => k = i
=============================================================================
