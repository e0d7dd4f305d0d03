--------------------------- MODULE AccountsProofs ---------------------------
(***************************************************************************)
(* Theorems about what accounts own, for any number of users, workers,     *)
(* rows and amounts: Referrals, BankAccounts, Points, Allowance, Coupons,  *)
(* Ratings and Subscriptions.                                              *)
(***************************************************************************)
EXTENDS Referrals, BankAccounts, Allowance, Coupons, Ratings, Subscriptions, SumProofs

(* Referrals: whatever requests and payouts overlap, each referral is paid *)
(* for once.                                                               *)
ReferralState == <<work, ReferralsVars, PointsVars>>
ReferralsSpec == RequestsInit /\ PointsInit({}) /\ ReferralsInit /\ [][ReferralsNext]_ReferralState

PayoutRow == [user : Users, units : Nat, rows : SUBSET Users]

\* What a worker remembers of an application or of a payout.
ReferralWork ==
  \A w \in Workers :
    /\ Doing(w, "apply") =>
         /\ work[w].user \in Users /\ work[w].row \in ReferralRow
         /\ ~work[w].row.converted /\ ~work[w].row.consumed
    /\ Doing(w, "payout") => work[w].user \in Users /\ work[w].units \in Nat

ReferralTypes ==
  /\ DOMAIN work = Workers /\ work = [w \in Workers |-> work[w]]
  /\ ReferralWork
  /\ referral \in [Users -> ReferralRow \cup {None}]
  /\ payouts \in Seq(PayoutRow)

\* A payout's snapshot names referrals that exist: an application that
\* commits later is no one's whom a payout has consumed.
PaidForExist == \A i \in 1 .. Len(payouts) : payouts[i].rows \subseteq Referees

\* The two halves of ConsumedByOnePayout: what the rows say and what the
\* snapshots say.
ConsumedIsPaid ==
  \A u \in Referees : referral[u].consumed <=> \E i \in 1 .. Len(payouts) : u \in payouts[i].rows
PaidIsFit ==
  \A i \in 1 .. Len(payouts) : \A u \in payouts[i].rows :
    /\ referral[u].by = payouts[i].user
    /\ referral[u].converted /\ ~referral[u].flagged
PaidOnce ==
  \A i, k \in 1 .. Len(payouts) : \A u \in payouts[i].rows : u \in payouts[k].rows => k = i

ReferralInv == ReferralTypes /\ PaidForExist /\ ConsumedIsPaid /\ PaidIsFit /\ PaidOnce

-----------------------------------------------------------------------------
LEMMA InitReferral == RequestsInit /\ ReferralsInit => ReferralInv
<1> SUFFICES ASSUME RequestsInit, ReferralsInit PROVE ReferralInv
  OBVIOUS
<1>1. payouts = <<>> /\ payouts \in Seq(PayoutRow) /\ Len(payouts) = 0
  BY DEF ReferralsInit
<1>2. ReferralTypes
  BY <1>1 DEF RequestsInit, ReferralsInit, ReferralTypes, ReferralWork, Idle, Doing
<1>3. Referees = {}
  BY DEF ReferralsInit, Referees, Applied
<1> QED BY <1>1, <1>2, <1>3 DEF ReferralInv, PaidForExist, ConsumedIsPaid, PaidIsFit, PaidOnce

\* The work of one worker changes.
LEMMA ReferralWorkTypes ==
  ASSUME ReferralTypes, NEW w \in Workers, NEW job, work' = [work EXCEPT ![w] = job],
         job.op = "apply" =>
           /\ job.user \in Users /\ job.row \in ReferralRow
           /\ ~job.row.converted /\ ~job.row.consumed,
         job.op = "payout" => job.user \in Users /\ job.units \in Nat
  PROVE  DOMAIN work' = Workers /\ work' = [v \in Workers |-> work'[v]] /\ ReferralWork'
<1>1. work'[w] = job /\ \A v \in Workers : v # w => work'[v] = work[v]
  BY DEF ReferralTypes
<1>2. DOMAIN work' = Workers /\ work' = [v \in Workers |-> work'[v]]
  BY DEF ReferralTypes
<1>3. ReferralWork'
  BY <1>1 DEF ReferralTypes, ReferralWork, Doing
<1> QED BY <1>2, <1>3

\* Steps of workers and of time that touch no referral.
LEMMA PayoutRowsKept ==
  ASSUME ReferralInv, UNCHANGED ReferralsVars,
         DOMAIN work' = Workers, work' = [v \in Workers |-> work'[v]], ReferralWork'
  PROVE  ReferralInv'
  BY DEF ReferralInv, ReferralsVars, ReferralTypes, PaidForExist, ConsumedIsPaid, PaidIsFit, PaidOnce,
         Referees, Applied

\* Rows keep what payouts look at, but may be converted.
LEMMA SameToPayouts ==
  ASSUME ReferralInv, referral' \in [Users -> ReferralRow \cup {None}],
         UNCHANGED payouts, ReferralTypes',
         \A u \in Referees :
           /\ referral'[u] # None
           /\ referral'[u].by = referral[u].by /\ referral'[u].flagged = referral[u].flagged
           /\ referral'[u].consumed = referral[u].consumed
           /\ referral[u].converted => referral'[u].converted,
         \A u \in Referees' : u \notin Referees => ~referral'[u].consumed
  PROVE  ReferralInv'
<1>1. Referees \subseteq Referees'
  BY DEF Referees, Applied
<1>2. PaidForExist'
  BY <1>1 DEF ReferralInv, PaidForExist
<1>3. \A i \in 1 .. Len(payouts) : \A u \in payouts[i].rows : u \in Referees
  BY DEF ReferralInv, PaidForExist
<1>4. ConsumedIsPaid'
  BY <1>3 DEF ReferralInv, ConsumedIsPaid
<1>5. PaidIsFit'
  BY <1>3 DEF ReferralInv, PaidIsFit
<1>6. PaidOnce'
  BY DEF ReferralInv, PaidOnce
<1> QED BY <1>2, <1>4, <1>5, <1>6 DEF ReferralInv

LEMMA ApplyCommitsKeeps ==
  ASSUME ReferralInv, NEW w \in Workers, NEW registers \in BOOLEAN, ApplyCommits(w, registers)
  PROVE  ReferralInv'
<1> DEFINE u == work[w].user
           row == work[w].row
<1>1. u \in Users /\ row \in ReferralRow /\ ~row.consumed
  BY DEF ApplyCommits, ReferralInv, ReferralTypes, ReferralWork
<1>2. DOMAIN work' = Workers /\ work' = [v \in Workers |-> work'[v]] /\ ReferralWork'
  BY ReferralWorkTypes DEF ApplyCommits, Ends, Idle, ReferralInv
<1>3. CASE Applied(u)
  BY <1>2, <1>3, PayoutRowsKept DEF ApplyCommits, ReferralsVars
<1>4. CASE ~Applied(u)
  <2>1. referral' = [referral EXCEPT ![u] = row] /\ UNCHANGED payouts
    BY <1>4 DEF ApplyCommits
  <2>2. referral' \in [Users -> ReferralRow \cup {None}] /\ ReferralTypes'
    BY <1>1, <1>2, <2>1 DEF ReferralInv, ReferralTypes
  <2>3. \A v \in Users : v # u => referral'[v] = referral[v]
    BY <2>1 DEF ReferralInv, ReferralTypes
  <2>4. referral'[u] = row /\ u \notin Referees
    BY <1>1, <1>4, <2>1 DEF ReferralInv, ReferralTypes, Referees
  <2>5. Referees \subseteq Users /\ \A v \in Referees : referral[v] # None /\ v # u
    BY <2>4 DEF Referees, Applied
  <2>6. \A v \in Referees' : v \notin Referees => v = u
    BY <2>3 DEF Referees, Applied
  <2> QED BY <1>1, <2>1, <2>2, <2>3, <2>4, <2>5, <2>6, SameToPayouts
<1> QED BY <1>3, <1>4

LEMMA DayPassesKeeps ==
  ASSUME ReferralInv, DayPasses
  PROVE  ReferralInv'
<1>1. /\ referral' = [u \in Users |-> IF Applied(u) THEN [referral[u] EXCEPT !.recent = FALSE] ELSE None]
      /\ UNCHANGED <<work, payouts>>
  BY DEF DayPasses
<1>2. ASSUME NEW u \in Users, Applied(u)
      PROVE  /\ referral'[u] \in ReferralRow /\ referral'[u].by = referral[u].by
             /\ referral'[u].flagged = referral[u].flagged
             /\ referral'[u].consumed = referral[u].consumed
             /\ referral'[u].converted = referral[u].converted
  <2>1. referral[u] \in ReferralRow
    BY <1>2 DEF ReferralInv, ReferralTypes, Applied
  <2>2. referral'[u] = [referral[u] EXCEPT !.recent = FALSE]
    BY <1>1, <1>2
  <2> QED BY <2>1, <2>2 DEF ReferralRow
<1>3. \A u \in Users : ~Applied(u) => referral'[u] = None
  BY <1>1
<1>4. referral' \in [Users -> ReferralRow \cup {None}]
  BY <1>1, <1>2, <1>3
<1>5. ReferralTypes'
  BY <1>1, <1>4 DEF ReferralInv, ReferralTypes, ReferralWork, Doing
<1> QED BY <1>1, <1>2, <1>3, <1>4, <1>5, SameToPayouts, ReferralsAssumption DEF Referees, Applied

LEMMA ConvertKeeps ==
  ASSUME ReferralInv, NEW u \in Users, Convert(u)
  PROVE  ReferralInv'
<1>1. referral[u] \in ReferralRow
  BY DEF Convert, Convertible, Applied, ReferralInv, ReferralTypes
<1>2. referral' = [referral EXCEPT ![u] = [referral[u] EXCEPT !.converted = TRUE]] /\ UNCHANGED <<work, payouts>>
  BY DEF Convert
<1>3. /\ referral'[u] \in ReferralRow /\ referral'[u].by = referral[u].by
      /\ referral'[u].flagged = referral[u].flagged
      /\ referral'[u].consumed = referral[u].consumed /\ referral'[u].converted
  BY <1>1, <1>2 DEF ReferralInv, ReferralTypes, ReferralRow
<1>4. referral' \in [Users -> ReferralRow \cup {None}] /\ \A v \in Users : v # u => referral'[v] = referral[v]
  BY <1>2, <1>3 DEF ReferralInv, ReferralTypes
<1>5. ReferralTypes'
  BY <1>2, <1>4 DEF ReferralInv, ReferralTypes, ReferralWork, Doing
<1>6. Applied(u)
  BY DEF Convert, Convertible
<1> QED BY <1>2, <1>3, <1>4, <1>5, <1>6, SameToPayouts, ReferralsAssumption DEF Referees, Applied

\* A payout takes referrals that no other has consumed.
LEMMA PayoutTakesKeeps ==
  ASSUME ReferralInv, NEW w \in Workers, PayoutTakes(w)
  PROVE  ReferralInv'
<1> DEFINE by == work[w].user
           last == Len(payouts) + 1
<1>1. by \in Users /\ work[w].units \in Nat
  BY DEF PayoutTakes, ReferralInv, ReferralTypes, ReferralWork
<1>2. PICK rows \in SUBSET Payable(by) :
        /\ referral' = [u \in Users |-> IF u \in rows THEN [referral[u] EXCEPT !.consumed = TRUE]
                                        ELSE referral[u]]
        /\ payouts' = Append(payouts, [user |-> by, units |-> work[w].units, rows |-> rows])
  BY DEF PayoutTakes, kSubset
<1>3. /\ rows \subseteq Referees /\ Referees \subseteq Users
      /\ \A u \in rows : /\ referral[u].by = by /\ referral[u].converted
                         /\ ~referral[u].consumed /\ ~referral[u].flagged
  BY <1>2 DEF Payable, Referees
<1>4. \A u \in rows : referral[u] \in ReferralRow
  BY <1>3 DEF ReferralInv, ReferralTypes, Referees, Applied
<1>5. \A u \in rows : /\ referral'[u] \in ReferralRow /\ referral'[u].by = referral[u].by
                      /\ referral'[u].flagged = referral[u].flagged
                      /\ referral'[u].converted = referral[u].converted /\ referral'[u].consumed
  BY <1>2, <1>3, <1>4 DEF ReferralRow
<1>6. \A u \in Users : u \notin rows => referral'[u] = referral[u]
  BY <1>2
<1>7. referral' \in [Users -> ReferralRow \cup {None}]
  BY <1>2, <1>5, <1>6 DEF ReferralInv, ReferralTypes
<1>8. payouts \in Seq(PayoutRow)
  BY DEF ReferralInv, ReferralTypes
<1>9. [user |-> by, units |-> work[w].units, rows |-> rows] \in PayoutRow
  BY <1>1, <1>3 DEF PayoutRow
<1>10. /\ payouts' \in Seq(PayoutRow) /\ Len(payouts) \in Nat /\ Len(payouts') = last
       /\ payouts'[last].rows = rows /\ payouts'[last].user = by
       /\ \A i \in 1 .. Len(payouts) : payouts'[i] = payouts[i]
  BY <1>2, <1>8, <1>9
<1>11. DOMAIN work' = Workers /\ work' = [v \in Workers |-> work'[v]] /\ ReferralWork'
  BY ReferralWorkTypes DEF PayoutTakes, Ends, Idle, ReferralInv
<1>12. Referees' = Referees
  BY <1>3, <1>5, <1>6, ReferralsAssumption DEF Referees, Applied
<1>13. \A i \in 1 .. Len(payouts) : payouts[i].rows \cap rows = {}
  BY <1>3 DEF ReferralInv, ConsumedIsPaid
<1>14. \A i \in 1 .. Len(payouts') : i = last \/ i \in 1 .. Len(payouts)
  BY <1>10
<1>15. ReferralTypes'
  BY <1>7, <1>10, <1>11 DEF ReferralTypes
<1>16. PaidForExist'
  BY <1>3, <1>10, <1>12, <1>14 DEF ReferralInv, PaidForExist
<1>17. ConsumedIsPaid'
  <2> SUFFICES ASSUME NEW u \in Referees
               PROVE  referral'[u].consumed <=> \E i \in 1 .. Len(payouts') : u \in payouts'[i].rows
    BY <1>12 DEF ConsumedIsPaid
  <2>1. CASE u \in rows
    BY <1>5, <1>10, <2>1
  <2>2. CASE u \notin rows
    <3>1. referral'[u] = referral[u]
      BY <1>3, <1>6, <2>2
    <3>2. (\E i \in 1 .. Len(payouts') : u \in payouts'[i].rows)
            <=> (\E i \in 1 .. Len(payouts) : u \in payouts[i].rows)
      BY <1>10, <1>14, <2>2
    <3> QED BY <3>1, <3>2 DEF ReferralInv, ConsumedIsPaid
  <2> QED BY <2>1, <2>2
<1>18. PaidIsFit'
  <2>1. ASSUME NEW i \in 1 .. Len(payouts), NEW u \in payouts[i].rows
        PROVE  referral'[u] = referral[u]
    BY <1>3, <1>6, <1>13, <2>1 DEF ReferralInv, PaidForExist
  <2> QED BY <1>3, <1>5, <1>10, <1>14, <2>1 DEF ReferralInv, PaidIsFit
<1>19. PaidOnce'
  BY <1>10, <1>13, <1>14 DEF ReferralInv, PaidOnce
<1> QED BY <1>15, <1>16, <1>17, <1>18, <1>19 DEF ReferralInv

LEMMA ApplyReadsKeeps ==
  ASSUME ReferralInv, NEW w \in Workers, NEW by \in Users, NEW u \in Users, NEW role \in Roles,
         NEW o \in Origins, ApplyReads(w, by, u, role, o)
  PROVE  ReferralInv'
<1> DEFINE flag == o # None /\ Applied(by) /\ referral[by].origin = o
           row == [by |-> by, role |-> role, origin |-> o, recent |-> TRUE,
                   flagged |-> flag, converted |-> FALSE, consumed |-> FALSE]
           job == [op |-> "apply", user |-> u, row |-> row]
<1>1. work' = [work EXCEPT ![w] = job] /\ UNCHANGED ReferralsVars
  BY DEF ApplyReads, Starts
<1>2. flag \in BOOLEAN
  BY Zenon
<1>3. row \in ReferralRow /\ ~row.converted /\ ~row.consumed
  <2> HIDE DEF flag
  <2> QED BY <1>2 DEF ReferralRow
<1>4. job.op = "apply" /\ job.user = u /\ job.row = row
  OBVIOUS
<1> HIDE DEF row, job
<1>5. DOMAIN work' = Workers /\ work' = [v \in Workers |-> work'[v]] /\ ReferralWork'
  BY <1>1, <1>3, <1>4, ReferralWorkTypes DEF ReferralInv
<1> QED BY <1>1, <1>5, PayoutRowsKept

LEMMA PayoutCountsKeeps ==
  ASSUME ReferralInv, NEW w \in Workers, NEW u \in Users, NEW n \in {None} \cup 1 .. Cardinality(Users),
         PayoutCounts(w, u, n)
  PROVE  ReferralInv'
<1> DEFINE all == Cardinality(Payable(u)) \div PerUnit
           taken == IF n = None THEN all ELSE n
<1>1. IsFiniteSet(Users) /\ PerUnit \in Nat \ {0}
  BY ReferralsAssumption
<1>2. Payable(u) \subseteq Users
  BY DEF Payable, Referees
<1>3. Cardinality(Payable(u)) \in Nat /\ Cardinality(Users) \in Nat
  BY <1>1, <1>2, FS_Subset, FS_CardinalityType
<1>4. all \in Nat
  BY <1>1, <1>3
<1>5. taken \in Nat
  <2> HIDE DEF all
  <2> QED BY <1>3, <1>4
<1>6. work' = [work EXCEPT ![w] = [op |-> "payout", user |-> u, units |-> taken]] /\ UNCHANGED ReferralsVars
  BY DEF PayoutCounts, Starts
<1>7. DOMAIN work' = Workers /\ work' = [v \in Workers |-> work'[v]] /\ ReferralWork'
  <2> HIDE DEF taken
  <2> QED BY <1>5, <1>6, ReferralWorkTypes DEF ReferralInv
<1> QED BY <1>6, <1>7, PayoutRowsKept

LEMMA NextReferral == ReferralInv /\ [ReferralsNext]_ReferralState => ReferralInv'
<1> SUFFICES ASSUME ReferralInv, [ReferralsNext]_ReferralState PROVE ReferralInv'
  OBVIOUS
<1>1. ASSUME NEW w \in Workers, NEW i \in Invitations, NEW o \in Origins,
             ApplyReads(w, i[1], i[2], i[3], o)
      PROVE  ReferralInv'
  <2>1. i[1] \in Users /\ i[2] \in Users /\ i[3] \in Roles
    BY ReferralsAssumption
  <2> QED BY <1>1, <2>1, ApplyReadsKeeps
<1>2. ASSUME NEW w \in Workers, Dies(w), UNCHANGED <<ReferralsVars, PointsVars>>
      PROVE  ReferralInv'
  BY <1>2, ReferralWorkTypes, PayoutRowsKept DEF Dies, Ends, Idle, ReferralInv
<1>3. CASE UNCHANGED ReferralState
  BY <1>3, PayoutRowsKept DEF ReferralState, ReferralInv, ReferralTypes, ReferralWork, Doing
<1> QED BY <1>1, <1>2, <1>3, ApplyCommitsKeeps, PayoutCountsKeeps, PayoutTakesKeeps,
           DayPassesKeeps, ConvertKeeps DEF ReferralsNext, Referring

(* Each referral is consumed by one payout, its referrer's, after it was   *)
(* converted and unless it was flagged, whichever payouts, applications    *)
(* and conversions overlap (referrals/services.py).                        *)
THEOREM PaidForOnce == ReferralsSpec => []ConsumedByOnePayout
<1>1. ReferralInv => ConsumedByOnePayout
  <2> SUFFICES ASSUME ReferralInv PROVE ConsumedByOnePayout
    OBVIOUS
  <2>1. DOMAIN payouts = 1 .. Len(payouts)
    BY DEF ReferralInv, ReferralTypes
  <2> QED BY <2>1 DEF ReferralInv, ConsumedIsPaid, PaidIsFit, PaidOnce, ConsumedByOnePayout
<1> QED BY <1>1, InitReferral, NextReferral, PTL DEF ReferralsSpec

-----------------------------------------------------------------------------
(* BankAccounts: withdrawals are addressed to the details an account shows *)
(* and details without a recipient have a task on its way, but for the     *)
(* races, the resubmissions and the lost tasks the histories name.         *)
BankState == <<work, BankVars>>
BankSpec == RequestsInit /\ BankAccountsInit /\ [][BankAccountsNext]_BankState

\* What a worker remembers.
BankWork ==
  \A w \in Workers :
    /\ work[w] # Idle => Doing(w, "asking") \/ Doing(w, "registering") \/ Doing(w, "committing")
    /\ Doing(w, "asking") => work[w].account \in Holders
    /\ Doing(w, "registering") => work[w].account \in PayoutAccounts /\ work[w].bank \in Banks
    /\ Doing(w, "committing") => work[w].account \in Merchants /\ work[w].bank \in Banks

BankTypes ==
  /\ DOMAIN work = Workers /\ work = [w \in Workers |-> work[w]]
  /\ BankWork
  /\ bank \in [PayoutAccounts -> Banks \cup {None}]
  /\ recipient \in [PayoutAccounts -> Banks \cup {None}]
  /\ asked \in [PayoutAccounts -> Nat]

\* The row lock lets one transaction at a time save an account.
SavesAlone ==
  \A v, w \in Workers :
    Doing(v, "committing") /\ Doing(w, "committing") /\ work[v].account = work[w].account => v = w

\* A task registers the details it loaded, which nobody has changed since
\* unless that is recorded as a race.
LoadedIsCurrent ==
  \A w \in Workers : Doing(w, "registering") /\ work[w].account \notin raced =>
    work[w].bank = bank[work[w].account]

Addressed == \A a \in PayoutAccounts : a \notin raced \cup kept => recipient[a] \in {None, bank[a]}

OnItsWay(a) == asked[a] > 0 \/ Somebody("asking", a) \/ Somebody("registering", a)

\* A task is on its way for details that are there, and for details that
\* wait to be committed and will leave the account without a recipient.
TaskForShown ==
  \A a \in PayoutAccounts :
    bank[a] \in Complete /\ recipient[a] = None /\ a \notin missed => OnItsWay(a)
LeavesBare(w) ==
  /\ Doing(w, "committing") /\ work[w].bank \in Complete /\ work[w].account \notin missed
  /\ work[w].clears \/ recipient[work[w].account] = None
TaskForSaved == \A w \in Workers : LeavesBare(w) => OnItsWay(work[w].account)

BankInv == BankTypes /\ SavesAlone /\ LoadedIsCurrent /\ Addressed /\ TaskForShown /\ TaskForSaved

-----------------------------------------------------------------------------
LEMMA InitBank == RequestsInit /\ BankAccountsInit => BankInv
<1> SUFFICES ASSUME RequestsInit, BankAccountsInit PROVE BankInv
  OBVIOUS
<1>1. None \notin Complete
  BY BankAccountsAssumption DEF Complete
<1> QED BY <1>1 DEF RequestsInit, BankAccountsInit, BankInv, BankTypes, BankWork, Idle, Doing,
  SavesAlone, LoadedIsCurrent, Addressed, TaskForShown, TaskForSaved, LeavesBare

\* The work of one worker changes; those of the others stay on their way.
LEMMA OneBankWorks ==
  ASSUME BankTypes, NEW w \in Workers, NEW job, work' = [work EXCEPT ![w] = job]
  PROVE  /\ DOMAIN work' = Workers /\ work' = [v \in Workers |-> work'[v]]
         /\ work'[w] = job
         /\ \A v \in Workers : v # w => work'[v] = work[v]
         /\ \A op, a : Somebody(op, a)' <=>
              \/ job.op = op /\ job.account = a
              \/ \E v \in Workers : v # w /\ Works(v, op, a)
<1>1. /\ DOMAIN work' = Workers /\ work' = [v \in Workers |-> work'[v]]
      /\ work'[w] = job
      /\ \A v \in Workers : v # w => work'[v] = work[v]
  BY DEF BankTypes
<1> QED BY <1>1 DEF Somebody, Works, Doing

\* Steps that change neither rows nor tasks.
LEMMA AccountRowsKept ==
  ASSUME BankInv, UNCHANGED <<work, bank, recipient, asked, raced, kept, missed>>
  PROVE  BankInv'
  BY DEF BankInv, BankTypes, BankWork, SavesAlone, LoadedIsCurrent, Addressed, TaskForShown, TaskForSaved,
         LeavesBare, OnItsWay, Somebody, Works, Doing

\* A save that is not touched, and does not find the recipient changed, is
\* as covered as before.
LEMMA OthersSave ==
  ASSUME BankInv, NEW v \in Workers, work'[v] = work[v], LeavesBare(v)',
         missed \subseteq missed',
         Doing(v, "committing") => recipient'[work[v].account] = recipient[work[v].account],
         \A a \in PayoutAccounts : OnItsWay(a) => OnItsWay(a)' \/ a \in missed'
  PROVE  OnItsWay(work[v].account)'
<1>1. Doing(v, "committing") /\ work[v].account \in PayoutAccounts /\ work[v].account \notin missed'
  BY DEF LeavesBare, Doing, BankInv, BankTypes, BankWork, PayoutAccounts
<1>2. recipient'[work[v].account] = recipient[work[v].account] /\ work[v].account \notin missed
  BY <1>1
<1>3. LeavesBare(v)
  BY <1>1, <1>2, Zenon DEF LeavesBare
<1>4. OnItsWay(work[v].account)
  BY <1>3 DEF BankInv, TaskForSaved
<1> QED BY <1>1, <1>4

LEMMA SavedStill ==
  ASSUME BankInv, missed \subseteq missed',
         \A v \in Workers : Doing(v, "committing")' => work'[v] = work[v],
         \A v \in Workers : Doing(v, "committing") /\ work'[v] = work[v] =>
           recipient'[work[v].account] = recipient[work[v].account],
         \A a \in PayoutAccounts : OnItsWay(a) => OnItsWay(a)' \/ a \in missed'
  PROVE  TaskForSaved'
  BY OthersSave DEF TaskForSaved, LeavesBare

\* A customer's row is saved, by a worker that goes on to queue its task.
LEMMA HolderSaves ==
  ASSUME BankInv, NEW w \in Workers, NEW h \in Holders, NEW b \in Complete,
         Free(w),
         bank' = [bank EXCEPT ![h] = b],
         \/ recipient' = recipient /\ (recipient[h] = None \/ h \in raced \cup kept)
         \/ recipient' = [recipient EXCEPT ![h] = None],
         raced' = raced \cup Racing(h),
         work' = [work EXCEPT ![w] = [op |-> "asking", account |-> h]],
         UNCHANGED <<asked, kept, missed>>
  PROVE  BankInv'
<1> DEFINE job == [op |-> "asking", account |-> h]
<1>1. h \in PayoutAccounts /\ h \notin Merchants /\ b \in Banks /\ b # None
  BY BankAccountsAssumption DEF PayoutAccounts, Complete
<1>2. /\ DOMAIN work' = Workers /\ work' = [v \in Workers |-> work'[v]]
      /\ work'[w] = job
      /\ \A v \in Workers : v # w => work'[v] = work[v]
      /\ \A op, a : Somebody(op, a)' <=>
           \/ job.op = op /\ job.account = a
           \/ \E v \in Workers : v # w /\ Works(v, op, a)
  <2>1. work' = [work EXCEPT ![w] = job] /\ BankTypes
    BY DEF BankInv
  <2> HIDE DEF job
  <2> QED BY <2>1, OneBankWorks
<1>3. /\ bank'[h] = b /\ \A a \in PayoutAccounts : a # h => bank'[a] = bank[a] /\ recipient'[a] = recipient[a]
      /\ recipient'[h] \in {None, recipient[h]}
      /\ recipient'[h] = None \/ h \in raced \cup kept
  BY <1>1 DEF BankInv, BankTypes
<1>4. \A v \in Workers : Doing(v, "committing")' => Doing(v, "committing") /\ work'[v] = work[v]
  BY <1>2 DEF Doing
<1>5. \A v \in Workers : Doing(v, "registering")' => Doing(v, "registering") /\ work'[v] = work[v]
  BY <1>2 DEF Doing
<1>6. \A a : OnItsWay(a) => OnItsWay(a)'
  BY <1>2 DEF OnItsWay, Somebody, Works, Doing, Free, Idle
<1>7. OnItsWay(h)'
  BY <1>2 DEF OnItsWay
<1>8. BankTypes'
  <2>1. BankWork'
    BY <1>2 DEF BankInv, BankTypes, BankWork, Doing
  <2>2. bank' \in [PayoutAccounts -> Banks \cup {None}] /\ recipient' \in [PayoutAccounts -> Banks \cup {None}]
    BY <1>1 DEF BankInv, BankTypes
  <2> QED BY <1>2, <2>1, <2>2 DEF BankInv, BankTypes
<1>9. SavesAlone'
  BY <1>4 DEF BankInv, SavesAlone
<1>10. LoadedIsCurrent'
  <2> SUFFICES ASSUME NEW v \in Workers, Doing(v, "registering")', work'[v].account \notin raced'
               PROVE  work'[v].bank = bank'[work'[v].account]
    BY DEF LoadedIsCurrent
  <2>1. Doing(v, "registering") /\ work'[v] = work[v] /\ work[v].account \in PayoutAccounts
    BY <1>5 DEF BankInv, BankTypes, BankWork
  <2>2. work[v].account # h
    BY <2>1 DEF Racing, Somebody, Works
  <2> QED BY <1>3, <2>1, <2>2 DEF BankInv, LoadedIsCurrent
<1>11. Addressed'
  BY <1>3 DEF BankInv, Addressed
<1>12. TaskForShown'
  BY <1>3, <1>6, <1>7 DEF BankInv, TaskForShown
<1>13. TaskForSaved'
  <2>1. ASSUME NEW v \in Workers, Doing(v, "committing")
        PROVE  recipient'[work[v].account] = recipient[work[v].account]
    <3>1. work[v].account \in Merchants
      BY <2>1 DEF BankInv, BankTypes, BankWork
    <3> QED BY <1>1, <1>3, <3>1 DEF PayoutAccounts
  <2> QED BY <1>4, <1>6, <2>1, SavedStill
<1> QED BY <1>8, <1>9, <1>10, <1>11, <1>12, <1>13 DEF BankInv

LEMMA HolderCreatesKeeps ==
  ASSUME BankInv, NEW w \in Workers, NEW h \in Holders, NEW b \in Complete, HolderCreates(w, h, b)
  PROVE  BankInv'
<1>1. h \in PayoutAccounts /\ bank[h] = None
  BY DEF HolderCreates, PayoutAccounts
<1>2. raced' = raced /\ Racing(h) \subseteq raced
  <2>1. ASSUME NEW v \in Workers, Works(v, "registering", h), h \notin raced PROVE FALSE
    BY <1>1, <2>1, BankAccountsAssumption DEF Works, BankInv, LoadedIsCurrent, BankTypes, BankWork
  <2> QED BY <2>1 DEF HolderCreates, Racing, Somebody
<1>3. recipient' = recipient /\ (recipient[h] = None \/ h \in raced \cup kept)
  BY <1>1 DEF HolderCreates, BankInv, Addressed
<1> QED BY <1>2, <1>3, HolderSaves DEF HolderCreates, Starts

LEMMA ChangeConfirmedKeeps ==
  ASSUME BankInv, NEW w \in Workers, NEW h \in Holders, NEW b \in Complete, ChangeConfirmed(w, h, b)
  PROVE  BankInv'
  BY HolderSaves DEF ChangeConfirmed, Cleared, Starts

LEMMA TaskQueuedKeeps ==
  ASSUME BankInv, NEW w \in Workers, TaskQueued(w)
  PROVE  BankInv'
<1> DEFINE h == work[w].account
<1>1. h \in Holders /\ h \in PayoutAccounts /\ Doing(w, "asking")
  BY DEF TaskQueued, BankInv, BankTypes, BankWork, PayoutAccounts
<1>2. /\ DOMAIN work' = Workers /\ work' = [v \in Workers |-> work'[v]]
      /\ work'[w] = Idle
      /\ \A v \in Workers : v # w => work'[v] = work[v]
  BY DEF TaskQueued, Ends, BankInv, BankTypes
<1>3. /\ UNCHANGED <<bank, recipient, raced, kept, missed>>
      /\ asked' \in [PayoutAccounts -> Nat] /\ asked'[h] > 0
      /\ \A a \in PayoutAccounts : asked[a] > 0 => asked'[a] > 0
  BY <1>1 DEF TaskQueued, BankInv, BankTypes
<1>4. \A a \in PayoutAccounts : OnItsWay(a) => OnItsWay(a)'
  BY <1>1, <1>2, <1>3 DEF OnItsWay, Somebody, Works, Doing
<1>5. \A v \in Workers : Doing(v, "committing")' \/ Doing(v, "registering")' => work'[v] = work[v]
  BY <1>2 DEF Doing, Idle
<1>6. BankTypes'
  <2>1. BankWork'
    BY <1>2 DEF BankInv, BankTypes, BankWork, Doing, Idle
  <2> QED BY <1>2, <1>3, <2>1 DEF BankInv, BankTypes
<1>7. SavesAlone' /\ LoadedIsCurrent' /\ Addressed'
  BY <1>3, <1>5 DEF BankInv, SavesAlone, LoadedIsCurrent, Addressed, Doing
<1>8. TaskForShown'
  BY <1>3, <1>4 DEF BankInv, TaskForShown
<1>9. TaskForSaved'
  BY <1>3, <1>4, <1>5, SavedStill DEF BankInv, BankTypes
<1> QED BY <1>6, <1>7, <1>8, <1>9 DEF BankInv

LEMMA SavingKeeps ==
  ASSUME BankInv, NEW w \in Workers, NEW m \in Merchants, NEW b \in Banks, NEW clears \in BOOLEAN,
         Saving(w, m, b, clears)
  PROVE  BankInv'
<1> DEFINE job == [op |-> "committing", account |-> m, bank |-> b, clears |-> clears]
<1>1. m \in PayoutAccounts
  BY DEF PayoutAccounts
<1>2. /\ DOMAIN work' = Workers /\ work' = [v \in Workers |-> work'[v]]
      /\ work'[w] = job
      /\ \A v \in Workers : v # w => work'[v] = work[v]
  BY DEF Saving, Starts, BankInv, BankTypes
<1>3. /\ UNCHANGED <<bank, recipient, raced, kept, missed>>
      /\ asked' \in [PayoutAccounts -> Nat]
      /\ \A a \in PayoutAccounts : asked[a] > 0 => asked'[a] > 0
      /\ b \in Complete /\ (clears \/ recipient[m] = None) => asked'[m] > 0
  BY <1>1 DEF Saving, BankInv, BankTypes
<1>4. \A a \in PayoutAccounts : OnItsWay(a) => OnItsWay(a)'
  BY <1>2, <1>3 DEF OnItsWay, Somebody, Works, Doing, Saving, Free, Idle
<1>5. \A v \in Workers : Doing(v, "registering")' => work'[v] = work[v]
  BY <1>2 DEF Doing
<1>6. BankTypes'
  <2>1. BankWork'
    BY <1>2 DEF BankInv, BankTypes, BankWork, Doing
  <2> QED BY <1>2, <1>3, <2>1 DEF BankInv, BankTypes
<1>7. SavesAlone'
  <2>1. \A v \in Workers : Doing(v, "committing") => work[v].account # m
    BY DEF Saving, Locked, Somebody, Works
  <2> QED BY <1>2, <2>1 DEF BankInv, SavesAlone, Doing
<1>8. LoadedIsCurrent' /\ Addressed'
  BY <1>3, <1>5 DEF BankInv, LoadedIsCurrent, Addressed, Doing
<1>9. TaskForShown'
  BY <1>3, <1>4 DEF BankInv, TaskForShown
<1>10. TaskForSaved'
  <2> SUFFICES ASSUME NEW v \in Workers, LeavesBare(v)'
               PROVE  OnItsWay(work[v].account)'
    BY DEF TaskForSaved
  <2>1. CASE v = w
    <3>1. job.account = m /\ job.bank = b /\ job.clears = clears
      OBVIOUS
    <3>2. work'[v] = job /\ recipient' = recipient
      BY <1>2, <1>3, <2>1
    <3>3. b \in Complete /\ (clears \/ recipient[m] = None)
      <4> HIDE DEF job
      <4> QED BY <3>1, <3>2, Zenon DEF LeavesBare
    <3>4. work'[v].account = m
      BY <3>2
    <3> QED BY <1>3, <3>3, <3>4 DEF OnItsWay
  <2>2. CASE v # w
    BY <1>2, <1>3, <1>4, <2>2, OthersSave
  <2> QED BY <2>1, <2>2
<1> QED BY <1>6, <1>7, <1>8, <1>9, <1>10 DEF BankInv

\* The recipients of the accounts others save stay as they are, as one
\* account is saved by one worker.
LEMMA MerchantCommitsKeeps ==
  ASSUME BankInv, NEW w \in Workers, MerchantCommits(w)
  PROVE  BankInv'
<1> DEFINE m == work[w].account
           b == work[w].bank
           clears == work[w].clears
<1>1. m \in Merchants /\ m \in PayoutAccounts /\ b \in Banks /\ Doing(w, "committing")
  BY DEF MerchantCommits, BankInv, BankTypes, BankWork, PayoutAccounts
<1>2. /\ DOMAIN work' = Workers /\ work' = [v \in Workers |-> work'[v]]
      /\ work'[w] = Idle
      /\ \A v \in Workers : v # w => work'[v] = work[v]
  BY DEF MerchantCommits, Ends, BankInv, BankTypes
<1>3. /\ bank' = [bank EXCEPT ![m] = b] /\ UNCHANGED <<asked, missed>>
      /\ raced' = raced \cup Racing(m)
  BY DEF MerchantCommits
<1>4. \/ clears /\ recipient' = [recipient EXCEPT ![m] = None] /\ kept' = kept
      \/ recipient' = recipient /\ recipient[m] = None /\ kept' = kept
      \/ ~clears /\ recipient' = recipient /\ recipient[m] # None /\ kept' = kept \cup {m}
  <2>1. /\ recipient' = [recipient EXCEPT ![m] = IF clears THEN Cleared(m) ELSE recipient[m]]
        /\ kept' = IF clears \/ recipient[m] = None THEN kept ELSE kept \cup {m}
    BY DEF MerchantCommits
  <2>2. CASE clears
    BY <2>1, <2>2 DEF Cleared
  <2>3. CASE ~clears
    <3>1. [recipient EXCEPT ![m] = recipient[m]] = recipient
      BY <1>1 DEF BankInv, BankTypes
    <3> QED BY <2>1, <2>3, <3>1
  <2> QED BY <2>2, <2>3
<1>5. /\ bank' \in [PayoutAccounts -> Banks \cup {None}] /\ recipient' \in [PayoutAccounts -> Banks \cup {None}]
      /\ bank'[m] = b
      /\ \A a \in PayoutAccounts : a # m => bank'[a] = bank[a] /\ recipient'[a] = recipient[a]
      /\ recipient'[m] = None \/ m \in kept'
      /\ kept \subseteq kept'
  BY <1>1, <1>3, <1>4 DEF BankInv, BankTypes
<1>6. \A a \in PayoutAccounts : OnItsWay(a) => OnItsWay(a)'
  BY <1>1, <1>2, <1>3 DEF OnItsWay, Somebody, Works, Doing
<1>7. \A v \in Workers : Doing(v, "committing")' \/ Doing(v, "registering")' => v # w /\ work'[v] = work[v]
  BY <1>2 DEF Doing, Idle
<1>8. BankTypes'
  <2>1. BankWork'
    BY <1>2 DEF BankInv, BankTypes, BankWork, Doing, Idle
  <2> QED BY <1>2, <1>3, <1>5, <2>1 DEF BankInv, BankTypes
<1>9. SavesAlone'
  BY <1>7 DEF BankInv, SavesAlone, Doing
<1>10. LoadedIsCurrent'
  <2> SUFFICES ASSUME NEW v \in Workers, Doing(v, "registering")', work'[v].account \notin raced'
               PROVE  work'[v].bank = bank'[work'[v].account]
    BY DEF LoadedIsCurrent
  <2>1. Doing(v, "registering") /\ work'[v] = work[v] /\ work[v].account \in PayoutAccounts
    BY <1>7 DEF BankInv, BankTypes, BankWork, Doing
  <2>2. work[v].account # m
    BY <1>3, <2>1 DEF Racing, Somebody, Works
  <2> QED BY <1>3, <1>5, <2>1, <2>2 DEF BankInv, LoadedIsCurrent
<1>11. Addressed'
  BY <1>3, <1>5 DEF BankInv, Addressed
<1>12. TaskForShown'
  <2> SUFFICES ASSUME NEW a \in PayoutAccounts, bank'[a] \in Complete, recipient'[a] = None, a \notin missed
               PROVE  OnItsWay(a)'
    BY <1>3 DEF TaskForShown
  <2>1. CASE a # m
    BY <1>5, <1>6, <2>1 DEF BankInv, TaskForShown
  <2>2. CASE a = m
    <3>1. b \in Complete /\ (clears \/ recipient[m] = None)
      BY <1>4, <1>5, <2>2
    <3>2. LeavesBare(w)
      BY <1>1, <2>2, <3>1, Zenon DEF LeavesBare
    <3> QED BY <1>1, <1>6, <2>2, <3>2 DEF BankInv, TaskForSaved
  <2> QED BY <2>1, <2>2
<1>13. TaskForSaved'
  <2>1. ASSUME NEW v \in Workers, Doing(v, "committing"), work'[v] = work[v]
        PROVE  recipient'[work[v].account] = recipient[work[v].account]
    <3>1. work[v].account \in PayoutAccounts
      BY <2>1 DEF BankInv, BankTypes, BankWork, PayoutAccounts
    <3>2. v # w
      BY <1>1, <1>2, <2>1 DEF Doing, Idle
    <3>3. work[v].account # m
      BY <1>1, <2>1, <3>2 DEF BankInv, SavesAlone
    <3> QED BY <1>5, <3>1, <3>3
  <2> QED BY <1>3, <1>6, <1>7, <2>1, SavedStill
<1> QED BY <1>8, <1>9, <1>10, <1>11, <1>12, <1>13 DEF BankInv

\* A task that loads an account registers what is shown there, or finds
\* nothing to do; if that was because its details were not committed yet, it
\* is missed.
LEMMA TaskLoadsKeeps ==
  ASSUME BankInv, NEW w \in Workers, NEW a \in PayoutAccounts, TaskLoads(w, a)
  PROVE  BankInv'
<1> DEFINE job == [op |-> "registering", account |-> a, bank |-> bank[a]]
           found == bank[a] \in Complete /\ recipient[a] = None
<1>1. /\ UNCHANGED <<bank, recipient, raced, kept>>
      /\ asked' \in [PayoutAccounts -> Nat] /\ missed \subseteq missed'
      /\ \A c \in PayoutAccounts : c # a => asked'[c] = asked[c]
      /\ Free(w)
  BY DEF TaskLoads, BankInv, BankTypes
<1>2. CASE found
  <2>1. /\ DOMAIN work' = Workers /\ work' = [v \in Workers |-> work'[v]]
        /\ work'[w] = job
        /\ \A v \in Workers : v # w => work'[v] = work[v]
    BY <1>2 DEF TaskLoads, Starts, BankInv, BankTypes
  <2>2. \A c \in PayoutAccounts : OnItsWay(c) => OnItsWay(c)'
    BY <1>1, <2>1 DEF OnItsWay, Somebody, Works, Doing, Free, Idle
  <2>3. \A v \in Workers : Doing(v, "committing")' => work'[v] = work[v]
    BY <2>1 DEF Doing
  <2>4. BankTypes'
    <3>1. BankWork'
      BY <1>2, <2>1 DEF BankInv, BankTypes, BankWork, Doing, Complete
    <3> QED BY <1>1, <2>1, <3>1 DEF BankInv, BankTypes
  <2>5. SavesAlone' /\ Addressed'
    BY <1>1, <2>3 DEF BankInv, SavesAlone, Addressed, Doing
  <2>6. LoadedIsCurrent'
    BY <1>1, <2>1 DEF BankInv, LoadedIsCurrent, Doing
  <2>7. TaskForShown'
    BY <1>1, <2>2 DEF BankInv, TaskForShown
  <2>8. TaskForSaved'
    BY <1>1, <2>2, <2>3, SavedStill
  <2> QED BY <2>4, <2>5, <2>6, <2>7, <2>8 DEF BankInv
<1>3. CASE ~found
  <2>1. work' = work /\ (Locked(a) => a \in missed')
    BY <1>3 DEF TaskLoads
  <2>2. \A c \in PayoutAccounts : c # a => (OnItsWay(c) => OnItsWay(c)')
    BY <1>1, <2>1 DEF OnItsWay, Somebody, Works, Doing
  <2>3. BankTypes' /\ SavesAlone' /\ LoadedIsCurrent' /\ Addressed'
    BY <1>1, <2>1 DEF BankInv, BankTypes, BankWork, SavesAlone, LoadedIsCurrent, Addressed, Doing
  <2>4. TaskForShown'
    BY <1>1, <1>3, <2>2 DEF BankInv, TaskForShown
  <2>5. ASSUME NEW v \in Workers, LeavesBare(v)' PROVE OnItsWay(work[v].account)'
    <3>1. Doing(v, "committing") /\ work[v].account \notin missed'
      BY <2>1, <2>5 DEF LeavesBare, Doing
    <3>2. work[v].account \in PayoutAccounts /\ recipient'[work[v].account] = recipient[work[v].account]
      BY <1>1, <3>1 DEF BankInv, BankTypes, BankWork, PayoutAccounts
    <3>3. work[v].account # a
      BY <2>1, <3>1 DEF Locked, Somebody, Works
    <3>4. LeavesBare(v)
      BY <1>1, <2>1, <2>5, <3>1, <3>2, Zenon DEF LeavesBare
    <3> QED BY <2>2, <3>2, <3>3, <3>4, <2>1 DEF BankInv, TaskForSaved
  <2> QED BY <2>3, <2>4, <2>5 DEF BankInv, TaskForSaved
<1> QED BY <1>2, <1>3

LEMMA TaskSavesKeeps ==
  ASSUME BankInv, NEW w \in Workers, TaskSaves(w)
  PROVE  BankInv'
<1> DEFINE a == work[w].account
<1>1. a \in PayoutAccounts /\ work[w].bank \in Banks /\ work[w].bank # None /\ Doing(w, "registering")
  BY BankAccountsAssumption DEF TaskSaves, BankInv, BankTypes, BankWork
<1>2. /\ DOMAIN work' = Workers /\ work' = [v \in Workers |-> work'[v]]
      /\ work'[w] = Idle
      /\ \A v \in Workers : v # w => work'[v] = work[v]
  BY DEF TaskSaves, Ends, BankInv, BankTypes
<1>3. /\ UNCHANGED <<bank, asked, raced, kept, missed>> /\ ~Locked(a)
      /\ recipient' \in [PayoutAccounts -> Banks \cup {None}]
      /\ recipient'[a] = work[w].bank
      /\ \A c \in PayoutAccounts : c # a => recipient'[c] = recipient[c]
  BY <1>1 DEF TaskSaves, BankInv, BankTypes
<1>4. \A c \in PayoutAccounts : c # a => (OnItsWay(c) => OnItsWay(c)')
  BY <1>2, <1>3 DEF OnItsWay, Somebody, Works, Doing
<1>5. \A v \in Workers : Doing(v, "committing")' \/ Doing(v, "registering")' => work'[v] = work[v]
  BY <1>2 DEF Doing, Idle
<1>6. BankTypes'
  <2>1. BankWork'
    BY <1>2 DEF BankInv, BankTypes, BankWork, Doing, Idle
  <2> QED BY <1>2, <1>3, <2>1 DEF BankInv, BankTypes
<1>7. SavesAlone' /\ LoadedIsCurrent'
  BY <1>3, <1>5 DEF BankInv, SavesAlone, LoadedIsCurrent, Doing
<1>8. Addressed'
  BY <1>1, <1>3 DEF BankInv, Addressed, LoadedIsCurrent
<1>9. TaskForShown'
  BY <1>1, <1>3, <1>4 DEF BankInv, TaskForShown
<1>10. ASSUME NEW v \in Workers, LeavesBare(v)' PROVE OnItsWay(work[v].account)'
  <2>1. Doing(v, "committing") /\ work'[v] = work[v]
    BY <1>5, <1>10 DEF LeavesBare, Doing
  <2>2. work[v].account # a /\ work[v].account \in PayoutAccounts
    BY <1>3, <2>1 DEF Locked, Somebody, Works, BankInv, BankTypes, BankWork, PayoutAccounts
  <2>3. recipient'[work[v].account] = recipient[work[v].account] /\ missed' = missed
    BY <1>3, <2>2
  <2>4. LeavesBare(v)
    BY <1>10, <2>1, <2>3, Zenon DEF LeavesBare
  <2> QED BY <1>4, <2>1, <2>2, <2>4 DEF BankInv, TaskForSaved
<1> QED BY <1>6, <1>7, <1>8, <1>9, <1>10 DEF BankInv, TaskForSaved

LEMMA TaskLostKeeps ==
  ASSUME BankInv, NEW w \in Workers, TaskLost(w)
  PROVE  BankInv'
<1>1. /\ DOMAIN work' = Workers /\ work' = [v \in Workers |-> work'[v]]
      /\ work'[w] = Idle
      /\ \A v \in Workers : v # w => work'[v] = work[v]
      /\ UNCHANGED <<bank, recipient, asked, raced, kept>> /\ missed \subseteq missed'
      /\ ~Doing(w, "committing") => work[w].account \in missed'
  BY DEF TaskLost, Dies, Ends, BankInv, BankTypes
<1>2. \A a \in PayoutAccounts : OnItsWay(a) => OnItsWay(a)' \/ a \in missed'
  BY <1>1 DEF OnItsWay, Somebody, Works, Doing
<1>3. \A v \in Workers : Doing(v, "committing")' \/ Doing(v, "registering")' => work'[v] = work[v]
  BY <1>1 DEF Doing, Idle
<1>4. BankTypes'
  <2>1. BankWork'
    BY <1>1 DEF BankInv, BankTypes, BankWork, Doing, Idle
  <2> QED BY <1>1, <2>1 DEF BankInv, BankTypes
<1>5. SavesAlone' /\ LoadedIsCurrent' /\ Addressed'
  BY <1>1, <1>3 DEF BankInv, SavesAlone, LoadedIsCurrent, Addressed, Doing
<1>6. TaskForShown'
  BY <1>1, <1>2 DEF BankInv, TaskForShown
<1>7. TaskForSaved'
  BY <1>1, <1>2, <1>3, SavedStill
<1> QED BY <1>4, <1>5, <1>6, <1>7 DEF BankInv

LEMMA NextBank == BankInv /\ [BankAccountsNext]_BankState => BankInv'
<1> SUFFICES ASSUME BankInv, [BankAccountsNext]_BankState PROVE BankInv'
  OBVIOUS
<1>1. ASSUME NEW w \in Workers, NEW m \in Merchants, NEW b \in Banks,
             MerchantSaves(w, m, b) \/ ApplicantSaves(w, m, b)
      PROVE  BankInv'
  BY <1>1, SavingKeeps DEF MerchantSaves, ApplicantSaves
<1>2. ASSUME NEW h \in Holders, ChangeAsked(h) PROVE BankInv'
  BY <1>2, AccountRowsKept DEF ChangeAsked
<1>3. ASSUME NEW m \in Merchants, NEW b \in Banks, MerchantOffers(m, b) PROVE BankInv'
  BY <1>3, AccountRowsKept DEF MerchantOffers
<1>4. CASE DayEnds \/ UNCHANGED BankState
  BY <1>4, AccountRowsKept DEF DayEnds, BankState, BankVars
<1> QED BY <1>1, <1>2, <1>3, <1>4, HolderCreatesKeeps, ChangeConfirmedKeeps, TaskQueuedKeeps,
           MerchantCommitsKeeps, TaskLoadsKeeps, TaskSavesKeeps, TaskLostKeeps DEF BankAccountsNext

(* The recipient a withdrawal is addressed to stands for the details the   *)
(* account shows, and details without one are being worked on, but for     *)
(* what raced, kept and missed record (payments/payouts/tasks.py,          *)
(* accounts/signals.py).                                                   *)
THEOREM RecipientIsTheirs == BankSpec => []RecipientMatches
<1>1. BankInv => RecipientMatches
  BY DEF BankInv, Addressed, TaskForShown, OnItsWay, RecipientMatches, Resolved
<1> QED BY <1>1, InitBank, NextBank, PTL DEF BankSpec
-----------------------------------------------------------------------------
(* Points: however often tasks are delivered and requests repeated, each   *)
(* event counts once, and what overdraws a balance is what the other       *)
(* workers held back.  Tasks arrive at any time, for any user and value,   *)
(* under keys that are not the clients'.                                   *)
AwardQueued ==
  /\ \E key : \E u \in Users, points \in Nat \cup {None} :
       /\ key \notin ClientKeys
       /\ owed' = owed \cup {[user |-> u, key |-> key, points |-> points]}
  /\ UNCHANGED <<work, ledger, redemptions, rule, month, snapshot>>

PointsState == <<work, PointsVars>>
PointsSpec == RequestsInit /\ PointsInit({}) /\ [][PointsNext \/ AwardQueued]_PointsState

Redemption == [user : Users, key : ClientKeys, points : Amounts, status : Statuses]

\* What a worker is about to write: an award under a key of its own; a hold
\* of the points it was asked for, unless the key has its request; or the
\* status of a request.
PointsWork ==
  \A w \in Workers :
    /\ Doing(w, "award") =>
         /\ work[w].row.user \in Users /\ work[w].row.points \in Nat
         /\ work[w].row.key \notin ClientKeys
    /\ Doing(w, "redeem") =>
         /\ work[w].user \in Users /\ work[w].points \in Amounts
         /\ work[w].row.key \in ClientKeys
         /\ \/ \E r \in redemptions : r.key = work[w].row.key
            \/ work[w].row.user = work[w].user /\ work[w].row.points = 0 - work[w].points
    /\ Doing(w, "resolve") => work[w].key \in ClientKeys /\ work[w].status \in Statuses

PointsTypes ==
  /\ DOMAIN work = Workers /\ work = [w \in Workers |-> work[w]]
  /\ PointsWork
  /\ IsFiniteSet(ledger) /\ \A e \in ledger : e.user \in Users /\ e.points \in Int
  /\ redemptions \subseteq Redemption
  /\ rule \in RuleValues \cup {None}
  /\ \A a \in owed : a.user \in Users /\ a.key \notin ClientKeys /\ a.points \in Nat \cup {None}

BalanceIn(rows, u) == Sum({e \in rows : e.user = u})
HoldOf(job, u) == IF job.op = "redeem" /\ job.user = u THEN job.points ELSE 0
HeldIn(f, u) == SumFunctionOnSet([w \in Workers |-> HoldOf(f[w], u)], Workers)
Ceiling == (Cardinality(Workers) - 1) * Max(Amounts)

\* A balance already counts what workers have read and not yet taken.
Covered == \A u \in Users : BalanceIn(ledger, u) - HeldIn(work, u) >= 0 - Ceiling

PointsInv == PointsTypes /\ CountedOnce /\ Covered

-----------------------------------------------------------------------------
\* What a row adds to a balance.
LEMMA BalanceGrows ==
  ASSUME NEW rows, IsFiniteSet(rows), \A e \in rows : e.points \in Int,
         NEW row, row \notin rows, row.points \in Int, NEW u
  PROVE  /\ BalanceIn(rows, u) \in Int
         /\ BalanceIn(rows \cup {row}, u) =
              BalanceIn(rows, u) + (IF row.user = u THEN row.points ELSE 0)
<1> DEFINE mine == {e \in rows : e.user = u}
           more == mine \cup {row}
           f == [e \in mine |-> e.points]
           g == [e \in more |-> e.points]
<1>1. IsFiniteSet(mine) /\ mine \subseteq rows /\ row \notin mine
  BY FS_Subset
<1>2. \A e \in mine : f[e] \in Int /\ g[e] \in Int /\ f[e] = g[e]
  OBVIOUS
<1>3. g[row] = row.points
  OBVIOUS
<1>4. Sum(mine) = SumFunctionOnSet(f, mine) /\ Sum(more) = SumFunctionOnSet(g, more)
  BY DEF Sum, SumFunction
<1> HIDE DEF f, g
<1>5. SumFunctionOnSet(f, mine) \in Int
  BY <1>1, <1>2, SumType
<1>6. SumFunctionOnSet(f, mine) = SumFunctionOnSet(g, mine)
  BY <1>1, <1>2, SumSame
<1>7. SumFunctionOnSet(g, more) = row.points + SumFunctionOnSet(g, mine)
  BY <1>1, <1>2, <1>3, SumAdd
<1>8. Sum(more) = Sum(mine) + row.points /\ Sum(mine) \in Int
  BY <1>4, <1>5, <1>6, <1>7
<1>9. CASE row.user = u
  <2>1. {e \in rows \cup {row} : e.user = u} = more
    BY <1>9
  <2> QED BY <1>8, <1>9, <2>1 DEF BalanceIn
<1>10. CASE row.user # u
  <2>1. {e \in rows \cup {row} : e.user = u} = mine
    BY <1>10
  <2>2. BalanceIn(rows \cup {row}, u) = Sum(mine) /\ BalanceIn(rows, u) = Sum(mine)
    BY <2>1 DEF BalanceIn
  <2> HIDE DEF mine
  <2> QED BY <1>8, <1>10, <2>2
<1> QED BY <1>9, <1>10

LEMMA BalanceOfNone == ASSUME NEW u PROVE BalanceIn({}, u) = 0
<1>1. {e \in {} : e.user = u} = {}
  OBVIOUS
<1>2. Sum({}) = 0
  BY SumEmpty DEF Sum, SumFunction
<1> QED BY <1>1, <1>2 DEF BalanceIn

\* The points a worker may hold back, and how a change of its work changes
\* what all hold.
LEMMA HoldRange ==
  ASSUME NEW job, NEW u, job.op = "redeem" => job.points \in Amounts
  PROVE  HoldOf(job, u) \in Nat /\ HoldOf(job, u) <= Max(Amounts) /\ Max(Amounts) \in Nat
<1>1. Amounts \subseteq Int /\ Amounts \subseteq Nat
  BY PointsAssumption
<1>2. Max(Amounts) \in Amounts /\ \A x \in Amounts : x <= Max(Amounts)
  BY <1>1, PointsAssumption, MaxIsThere
<1>3. Max(Amounts) \in Nat
  BY <1>1, <1>2
<1>4. HoldOf(job, u) = 0 \/ HoldOf(job, u) \in Amounts
  BY DEF HoldOf
<1>5. \A n \in Amounts \cup {0} : n \in Nat /\ n <= Max(Amounts)
  <2> DEFINE m == Max(Amounts)
  <2>1. m \in Nat /\ \A x \in Amounts : x \in Nat /\ x <= m
    BY <1>1, <1>2, <1>3
  <2> HIDE DEF m
  <2>2. \A n \in Amounts \cup {0} : n \in Nat /\ n <= m
    BY <2>1
  <2> QED BY <2>2 DEF m
<1> QED BY <1>3, <1>4, <1>5

LEMMA HeldMoves ==
  ASSUME NEW f, f = [x \in Workers |-> f[x]], NEW w \in Workers, NEW job, NEW u,
         \A x \in Workers : f[x].op = "redeem" => f[x].points \in Amounts,
         job.op = "redeem" => job.points \in Amounts
  PROVE  /\ HeldIn(f, u) \in Nat
         /\ HeldIn([f EXCEPT ![w] = job], u) = HeldIn(f, u) - HoldOf(f[w], u) + HoldOf(job, u)
<1> DEFINE after == [f EXCEPT ![w] = job]
           g == [x \in Workers |-> HoldOf(f[x], u)]
           h == [x \in Workers |-> HoldOf(after[x], u)]
<1>1. after[w] = job /\ \A x \in Workers \ {w} : after[x] = f[x]
  OBVIOUS
<1>2. \A x \in Workers : HoldOf(f[x], u) \in Nat
  BY HoldRange
<1>3. HoldOf(job, u) \in Nat
  BY HoldRange
<1>4. \A x \in Workers : g[x] \in Nat
  BY <1>2
<1> HIDE DEF after
<1>5. /\ \A y \in Workers : g[y] \in Int /\ h[y] \in Int
      /\ \A y \in Workers \ {w} : h[y] = g[y]
      /\ g[w] = HoldOf(f[w], u) /\ h[w] = HoldOf(job, u)
  BY <1>1, <1>2, <1>3
<1>6. HeldIn(f, u) = SumFunctionOnSet(g, Workers) /\ HeldIn(after, u) = SumFunctionOnSet(h, Workers)
  BY DEF HeldIn
<1> HIDE DEF g, h
<1>7. SumFunctionOnSet(g, Workers) \in Nat
  BY <1>4, RequestsAssumption, SumNat
<1>8. SumFunctionOnSet(h, Workers) = SumFunctionOnSet(g, Workers) - g[w] + h[w]
  BY <1>5, RequestsAssumption, SumChange
<1> QED BY <1>5, <1>6, <1>7, <1>8 DEF after

\* While one worker holds nothing back, the others are all there are.
LEMMA HeldByOthers ==
  ASSUME NEW f, NEW w \in Workers, NEW u, HoldOf(f[w], u) = 0,
         \A x \in Workers : f[x].op = "redeem" => f[x].points \in Amounts
  PROVE  HeldIn(f, u) <= Ceiling /\ Ceiling \in Nat
<1> DEFINE g == [x \in Workers |-> HoldOf(f[x], u)]
           others == Workers \ {w}
           m == Max(Amounts)
<1>1. \A x \in Workers : g[x] \in Nat /\ g[x] <= m /\ m \in Nat
  BY HoldRange
<1>2. /\ IsFiniteSet(others) /\ Cardinality(others) = Cardinality(Workers) - 1
      /\ Cardinality(others) \in Nat
  BY RequestsAssumption, FS_RemoveElement, FS_CardinalityType
<1>3. g[w] = 0 /\ HeldIn(f, u) = SumFunctionOnSet(g, Workers)
  BY DEF HeldIn
<1> HIDE DEF g
<1>4. SumFunctionOnSet(g, Workers) = g[w] + SumFunctionOnSet(g, others)
  BY <1>1, RequestsAssumption, SumTake
<1>5. SumFunctionOnSet(g, others) <= Cardinality(others) * m
  BY <1>1, <1>2, SumAtMost
<1>6. SumFunctionOnSet(g, others) \in Nat
  BY <1>1, <1>2, SumNat
<1>7. Ceiling = Cardinality(others) * m /\ Cardinality(others) * m \in Nat
  BY <1>1, <1>2, TimesOneMore DEF Ceiling
<1> QED BY <1>3, <1>4, <1>5, <1>6, <1>7

-----------------------------------------------------------------------------
LEMMA InitPoints ==
  ASSUME NEW tasks, RequestsInit, PointsInit(tasks),
         \A a \in tasks : a.user \in Users /\ a.key \notin ClientKeys /\ a.points \in Nat \cup {None}
  PROVE  PointsInv
<1>1. work = [w \in Workers |-> Idle] /\ \A w \in Workers : work[w] = Idle
  BY DEF RequestsInit
<1>2. ledger = {} /\ redemptions = {} /\ owed = tasks /\ rule = None
  BY DEF PointsInit
<1>3. \A w \in Workers : ~Doing(w, "award") /\ ~Doing(w, "redeem") /\ ~Doing(w, "resolve")
  BY <1>1 DEF Doing, Idle
<1>4. IsFiniteSet(ledger)
  BY <1>2, FS_EmptySet
<1>5. PointsTypes
  BY <1>1, <1>2, <1>3, <1>4 DEF PointsTypes, PointsWork
<1>6. CountedOnce
  BY <1>2 DEF CountedOnce
<1>7. ASSUME NEW u \in Users
      PROVE  BalanceIn(ledger, u) - HeldIn(work, u) >= 0 - Ceiling
  <2>1. PICK w : w \in Workers
    BY RequestsAssumption
  <2>2. \A x \in Workers : work[x].op # "redeem"
    BY <1>3 DEF Doing
  <2>3. HoldOf(work[w], u) = 0
    BY <2>1, <2>2 DEF HoldOf
  <2>4. HeldIn(work, u) <= Ceiling /\ Ceiling \in Nat
    BY <2>1, <2>2, <2>3, HeldByOthers
  <2>5. HeldIn(work, u) \in Nat
    BY <1>1, <2>1, <2>2, <2>3, HeldMoves, Zenon
  <2>6. BalanceIn(ledger, u) = 0
    BY <1>2, BalanceOfNone
  <2> QED BY <2>4, <2>5, <2>6
<1> QED BY <1>5, <1>6, <1>7 DEF PointsInv, Covered

\* What another worker remembers stays true while the requests that are
\* there keep their keys.
LEMMA PointsWorkStep ==
  ASSUME PointsInv, NEW w \in Workers, NEW job, work' = [work EXCEPT ![w] = job],
         \A r \in redemptions : \E s \in redemptions' : s.key = r.key,
         job.op = "award" =>
           job.row.user \in Users /\ job.row.points \in Nat /\ job.row.key \notin ClientKeys,
         job.op = "redeem" =>
           /\ job.user \in Users /\ job.points \in Amounts /\ job.row.key \in ClientKeys
           /\ \/ \E r \in redemptions' : r.key = job.row.key
              \/ job.row.user = job.user /\ job.row.points = 0 - job.points,
         job.op = "resolve" => job.key \in ClientKeys /\ job.status \in Statuses
  PROVE  /\ DOMAIN work' = Workers /\ work' = [v \in Workers |-> work'[v]]
         /\ PointsWork'
<1>1. /\ DOMAIN work' = Workers /\ work' = [v \in Workers |-> work'[v]]
      /\ work'[w] = job /\ \A v \in Workers : v # w => work'[v] = work[v]
  BY DEF PointsInv, PointsTypes
<1>2. ASSUME NEW v \in Workers, Doing(v, "award")'
      PROVE  /\ work'[v].row.user \in Users /\ work'[v].row.points \in Nat
             /\ work'[v].row.key \notin ClientKeys
  <2>1. CASE v = w
    BY <1>1, <1>2, <2>1 DEF Doing
  <2>2. CASE v # w
    BY <1>1, <1>2, <2>2 DEF Doing, PointsInv, PointsTypes, PointsWork
  <2> QED BY <2>1, <2>2
<1>3. ASSUME NEW v \in Workers, Doing(v, "redeem")'
      PROVE  /\ work'[v].user \in Users /\ work'[v].points \in Amounts
             /\ work'[v].row.key \in ClientKeys
             /\ \/ \E r \in redemptions' : r.key = work'[v].row.key
                \/ work'[v].row.user = work'[v].user /\ work'[v].row.points = 0 - work'[v].points
  <2>1. CASE v = w
    BY <1>1, <1>3, <2>1 DEF Doing
  <2>2. CASE v # w
    <3>1. work'[v] = work[v] /\ Doing(v, "redeem")
      BY <1>1, <1>3, <2>2 DEF Doing
    <3>2. /\ work[v].user \in Users /\ work[v].points \in Amounts
          /\ work[v].row.key \in ClientKeys
          /\ \/ \E r \in redemptions : r.key = work[v].row.key
             \/ work[v].row.user = work[v].user /\ work[v].row.points = 0 - work[v].points
      BY <3>1 DEF PointsInv, PointsTypes, PointsWork
    <3> QED BY <3>1, <3>2
  <2> QED BY <2>1, <2>2
<1>4. ASSUME NEW v \in Workers, Doing(v, "resolve")'
      PROVE  work'[v].key \in ClientKeys /\ work'[v].status \in Statuses
  <2>1. CASE v = w
    BY <1>1, <1>4, <2>1 DEF Doing
  <2>2. CASE v # w
    BY <1>1, <1>4, <2>2 DEF Doing, PointsInv, PointsTypes, PointsWork
  <2> QED BY <2>1, <2>2
<1>5. PointsWork'
  BY <1>2, <1>3, <1>4 DEF PointsWork
<1> QED BY <1>1, <1>5

LEMMA BalanceIsInt ==
  ASSUME PointsTypes, NEW u
  PROVE  BalanceIn(ledger, u) \in Int
<1> DEFINE mine == {e \in ledger : e.user = u}
           f == [e \in mine |-> e.points]
<1>1. mine \subseteq ledger /\ IsFiniteSet(mine)
  BY FS_Subset DEF PointsTypes
<1>2. \A e \in mine : f[e] \in Int
  BY DEF PointsTypes
<1> QED BY <1>1, <1>2, SumType DEF BalanceIn, Sum, SumFunction

\* A worker turns to a job that holds no more back than its last one, while
\* no balance falls.
LEMMA CoveredStill ==
  ASSUME PointsInv, NEW w \in Workers, NEW job, work' = [work EXCEPT ![w] = job],
         job.op = "redeem" => job.points \in Amounts,
         \A u \in Users :
           /\ BalanceIn(ledger', u) \in Int
           /\ BalanceIn(ledger', u) - HoldOf(job, u) >= BalanceIn(ledger, u) - HoldOf(work[w], u)
  PROVE  Covered'
<1> SUFFICES ASSUME NEW u \in Users
             PROVE  BalanceIn(ledger', u) - HeldIn(work', u) >= 0 - Ceiling
  BY DEF Covered
<1>1. /\ work = [x \in Workers |-> work[x]]
      /\ \A x \in Workers : work[x].op = "redeem" => work[x].points \in Amounts
  BY DEF PointsInv, PointsTypes, PointsWork, Doing
<1>2. HeldIn(work, u) \in Nat /\ HeldIn(work', u) = HeldIn(work, u) - HoldOf(work[w], u) + HoldOf(job, u)
  BY <1>1, HeldMoves
<1>3. HoldOf(work[w], u) \in Nat /\ HoldOf(job, u) \in Nat
  BY <1>1, HoldRange
<1>4. Ceiling \in Int
  <2>1. Max(Amounts) \in Nat
    BY <1>1, HoldRange
  <2>2. Cardinality(Workers) \in Nat
    BY RequestsAssumption, FS_CardinalityType
  <2> QED BY <2>1, <2>2 DEF Ceiling
<1>5. BalanceIn(ledger, u) - HeldIn(work, u) >= 0 - Ceiling
  BY DEF PointsInv, Covered
<1>6. BalanceIn(ledger, u) \in Int
  BY BalanceIsInt DEF PointsInv
<1> QED BY <1>2, <1>3, <1>4, <1>5, <1>6

-----------------------------------------------------------------------------
\* A worker remembers or forgets something, and no row changes.
LEMMA PointsQuiet ==
  ASSUME PointsInv, NEW w \in Workers, NEW job, work' = [work EXCEPT ![w] = job],
         UNCHANGED <<ledger, redemptions, rule, owed>>,
         job.op # "redeem",
         job.op = "award" =>
           job.row.user \in Users /\ job.row.points \in Nat /\ job.row.key \notin ClientKeys,
         job.op = "resolve" => job.key \in ClientKeys /\ job.status \in Statuses
  PROVE  PointsInv'
<1>1. /\ DOMAIN work' = Workers /\ work' = [v \in Workers |-> work'[v]]
      /\ PointsWork'
  BY PointsWorkStep
<1>2. PointsTypes'
  BY <1>1 DEF PointsInv, PointsTypes
<1>3. CountedOnce'
  BY DEF PointsInv, CountedOnce, RowOf
<1>4. ASSUME NEW u \in Users
      PROVE  /\ BalanceIn(ledger', u) \in Int
             /\ BalanceIn(ledger', u) - HoldOf(job, u) >= BalanceIn(ledger, u) - HoldOf(work[w], u)
  <2>1. HoldOf(job, u) = 0
    BY DEF HoldOf
  <2>2. HoldOf(work[w], u) \in Nat
    BY HoldRange DEF PointsInv, PointsTypes, PointsWork, Doing
  <2>3. BalanceIn(ledger, u) \in Int /\ ledger' = ledger
    BY BalanceIsInt DEF PointsInv
  <2> QED BY <2>1, <2>2, <2>3
<1>5. Covered'
  BY <1>4, CoveredStill
<1> QED BY <1>2, <1>3, <1>5 DEF PointsInv

LEMMA IdlePoints == Idle.op \notin {"award", "redeem", "resolve"}
  BY DEF Idle

LEMMA AwardReadsKeeps ==
  ASSUME PointsInv, NEW w \in Workers, NEW a \in owed, AwardReads(w, a)
  PROVE  PointsInv'
<1> DEFINE row == NewRow(a.user, a.key, PointsFor(a))
           job == [op |-> "award", row |-> row]
<1>1. a.user \in Users /\ a.key \notin ClientKeys /\ a.points \in Nat \cup {None}
  BY DEF PointsInv, PointsTypes
<1>2. PointsFor(a) \in Nat
  <2>1. FlatPoints \in Nat
    BY PointsAssumption DEF FlatPoints, PointsInv, PointsTypes
  <2> QED BY <1>1, <2>1 DEF PointsFor
<1>3. row.user = a.user /\ row.key = a.key /\ row.points = PointsFor(a)
  BY DEF NewRow
<1>4. job.op = "award" /\ job.row = row
  OBVIOUS
<1>5. work' = [work EXCEPT ![w] = job] /\ UNCHANGED <<ledger, redemptions, rule, owed>>
  BY DEF AwardReads, Starts, PointsVars
<1> HIDE DEF row, job
<1> QED BY <1>1, <1>2, <1>3, <1>4, <1>5, PointsQuiet

LEMMA AwardCommitsKeeps ==
  ASSUME PointsInv, NEW w \in Workers, AwardCommits(w)
  PROVE  PointsInv'
<1> DEFINE row == work[w].row
<1>1. /\ row.user \in Users /\ row.points \in Nat /\ row.key \notin ClientKeys
      /\ work[w].op = "award"
  BY DEF AwardCommits, Doing, PointsInv, PointsTypes, PointsWork
<1>2. work' = [work EXCEPT ![w] = Idle] /\ UNCHANGED <<owed, redemptions, rule>>
  BY DEF AwardCommits, Ends
<1>3. CASE ~Unseen(row.key)
  <2>1. ledger' = ledger
    BY <1>3 DEF AwardCommits
  <2> QED BY <1>2, <2>1, IdlePoints, PointsQuiet
<1>4. CASE Unseen(row.key)
  <2>1. ledger' = ledger \cup {row} /\ \A e \in ledger : e.key # row.key
    BY <1>4 DEF AwardCommits, Unseen, RowOf
  <2>2. row \notin ledger
    BY <2>1
  <2>3. IsFiniteSet(ledger') /\ \A e \in ledger' : e.user \in Users /\ e.points \in Int
    BY <1>1, <2>1, FS_AddElement DEF PointsInv, PointsTypes
  <2>4. /\ DOMAIN work' = Workers /\ work' = [v \in Workers |-> work'[v]]
        /\ PointsWork'
    BY <1>2, IdlePoints, PointsWorkStep
  <2>5. PointsTypes'
    BY <1>2, <2>3, <2>4 DEF PointsInv, PointsTypes
  <2>6. CountedOnce'
    <3>1. \A e \in ledger' : RowOf(e.key)' = {e}
      BY <2>1 DEF PointsInv, CountedOnce, RowOf
    <3>2. \A e \in ledger' : e.key \in ClientKeys =>
            \E r \in redemptions' : r.key = e.key /\ r.user = e.user /\ e.points = 0 - r.points
      BY <1>1, <1>2, <2>1 DEF PointsInv, CountedOnce
    <3>3. \A r, s \in redemptions' : r.key = s.key => r = s
      BY <1>2 DEF PointsInv, CountedOnce
    <3> QED BY <3>1, <3>2, <3>3 DEF CountedOnce
  <2>7. ASSUME NEW u \in Users
        PROVE  /\ BalanceIn(ledger', u) \in Int
               /\ BalanceIn(ledger', u) - HoldOf(Idle, u) >= BalanceIn(ledger, u) - HoldOf(work[w], u)
    <3>1. HoldOf(Idle, u) = 0 /\ HoldOf(work[w], u) = 0
      BY <1>1, IdlePoints DEF HoldOf
    <3>2. /\ BalanceIn(ledger, u) \in Int
          /\ BalanceIn(ledger \cup {row}, u) =
               BalanceIn(ledger, u) + (IF row.user = u THEN row.points ELSE 0)
      <4>1. IsFiniteSet(ledger) /\ \A e \in ledger : e.points \in Int
        BY DEF PointsInv, PointsTypes
      <4> HIDE DEF row
      <4> QED BY <1>1, <2>2, <4>1, BalanceGrows
    <3> QED BY <1>1, <2>1, <3>1, <3>2
  <2>8. Covered'
    BY <1>2, <2>7, IdlePoints, CoveredStill
  <2> QED BY <2>5, <2>6, <2>8 DEF PointsInv
<1> QED BY <1>3, <1>4

LEMMA RedeemReadsKeeps ==
  ASSUME PointsInv, NEW w \in Workers, NEW u \in Users, NEW n \in Amounts, NEW k \in ClientKeys,
         RedeemReads(w, u, n, k)
  PROVE  PointsInv'
<1> DEFINE row == IF RowOf(k) = {} THEN NewRow(u, k, 0 - n) ELSE CHOOSE e \in RowOf(k) : TRUE
           job == [op |-> "redeem", user |-> u, points |-> n, row |-> row]
<1>1. work' = [work EXCEPT ![w] = job] /\ UNCHANGED <<ledger, redemptions, rule, owed>>
  BY DEF RedeemReads, Starts, PointsVars
<1>2. job.op = "redeem" /\ job.user = u /\ job.points = n /\ job.row = row
  OBVIOUS
<1>3. /\ row.key = k
      /\ \/ \E r \in redemptions : r.key = k
         \/ row.user = u /\ row.points = 0 - n
  <2>1. CASE RowOf(k) = {}
    BY <2>1 DEF NewRow
  <2>2. CASE RowOf(k) # {}
    <3>1. row \in RowOf(k)
      BY <2>2
    <3>2. row \in ledger /\ row.key = k
      BY <3>1 DEF RowOf
    <3> QED BY <3>2 DEF PointsInv, CountedOnce
  <2> QED BY <2>1, <2>2
<1>4. work[w].op # "redeem" /\ n <= Balance(u)
  BY IdlePoints DEF RedeemReads, Free, Enough
<1> HIDE DEF row, job
<1>5. /\ DOMAIN work' = Workers /\ work' = [v \in Workers |-> work'[v]]
      /\ PointsWork'
  BY <1>1, <1>2, <1>3, PointsWorkStep
<1>6. PointsTypes'
  BY <1>1, <1>5 DEF PointsInv, PointsTypes
<1>7. CountedOnce'
  BY <1>1 DEF PointsInv, CountedOnce, RowOf
<1>8. Covered'
  <2> SUFFICES ASSUME NEW v \in Users
               PROVE  BalanceIn(ledger', v) - HeldIn(work', v) >= 0 - Ceiling
    BY DEF Covered
  <2>1. /\ work = [x \in Workers |-> work[x]]
        /\ \A x \in Workers : work[x].op = "redeem" => work[x].points \in Amounts
    BY DEF PointsInv, PointsTypes, PointsWork, Doing
  <2>2. /\ HeldIn(work, v) \in Nat
        /\ HeldIn(work', v) = HeldIn(work, v) - HoldOf(work[w], v) + HoldOf(job, v)
    BY <1>1, <1>2, <2>1, HeldMoves
  <2>3. HoldOf(work[w], v) = 0 /\ HoldOf(job, v) = IF u = v THEN n ELSE 0
    BY <1>2, <1>4 DEF HoldOf
  <2>4. BalanceIn(ledger, v) \in Int /\ BalanceIn(ledger', v) = BalanceIn(ledger, v)
    BY <1>1, BalanceIsInt DEF PointsInv
  <2>5. HeldIn(work, v) <= Ceiling /\ Ceiling \in Nat
    BY <2>1, <2>3, HeldByOthers
  <2>6. BalanceIn(ledger, v) - HeldIn(work, v) >= 0 - Ceiling
    BY DEF PointsInv, Covered
  <2>7. Balance(u) = BalanceIn(ledger, u)
    BY DEF Balance, RowsOf, BalanceIn
  <2>8. n \in Nat
    BY PointsAssumption
  <2>9. CASE u = v
    BY <1>4, <2>2, <2>3, <2>4, <2>5, <2>7, <2>8, <2>9
  <2>10. CASE u # v
    BY <2>2, <2>3, <2>4, <2>5, <2>6, <2>10
  <2> QED BY <2>9, <2>10
<1> QED BY <1>6, <1>7, <1>8 DEF PointsInv

\* The hold that commits is one that the worker read: no request has its
\* key, so the row is of the amount asked for and is not there yet.
LEMMA RedeemCommitsKeeps ==
  ASSUME PointsInv, NEW w \in Workers, RedeemCommits(w)
  PROVE  PointsInv'
<1> DEFINE j == work[w]
           row == work[w].row
           made == [user |-> j.user, key |-> row.key, points |-> j.points, status |-> "pending"]
           Taken == RowOf(row.key) \subseteq {j.row} /\ \A r \in redemptions : r.key # row.key
<1>1. /\ j.op = "redeem" /\ j.user \in Users /\ j.points \in Amounts /\ row.key \in ClientKeys
      /\ \/ \E r \in redemptions : r.key = row.key
         \/ row.user = j.user /\ row.points = 0 - j.points
  BY DEF RedeemCommits, Doing, PointsInv, PointsTypes, PointsWork
<1>2. work' = [work EXCEPT ![w] = Idle] /\ UNCHANGED <<owed, rule>>
  BY DEF RedeemCommits, Ends
<1>3. CASE ~Taken
  <2>1. UNCHANGED <<ledger, redemptions>>
    BY <1>3 DEF RedeemCommits
  <2> QED BY <1>2, <2>1, IdlePoints, PointsQuiet
<1>4. CASE Taken
  <2>1. ledger' = ledger \cup {row} /\ redemptions' = redemptions \cup {made}
    BY <1>4 DEF RedeemCommits
  <2>2. row.user = j.user /\ row.points = 0 - j.points /\ \A r \in redemptions : r.key # row.key
    BY <1>1, <1>4
  <2>3. \A e \in ledger : e.key # row.key
    BY <1>1, <2>2 DEF PointsInv, CountedOnce
  <2>4. j.points \in Nat
    BY <1>1, PointsAssumption
  <2>5. made.user = row.user /\ made.key = row.key /\ made.points = j.points /\ made \in Redemption
    BY <1>1, <2>2 DEF Redemption, Statuses
  <2> HIDE DEF made
  <2>6. IsFiniteSet(ledger') /\ \A e \in ledger' : e.user \in Users /\ e.points \in Int
    BY <1>1, <2>1, <2>2, <2>4, FS_AddElement DEF PointsInv, PointsTypes
  <2>7. \A r \in redemptions : \E s \in redemptions' : s.key = r.key
    BY <2>1
  <2>8. /\ DOMAIN work' = Workers /\ work' = [v \in Workers |-> work'[v]]
        /\ PointsWork'
    BY <1>2, <2>7, IdlePoints, PointsWorkStep
  <2>9. PointsTypes'
    BY <1>2, <2>1, <2>5, <2>6, <2>8 DEF PointsInv, PointsTypes
  <2>10. CountedOnce'
    <3>1. \A e \in ledger' : RowOf(e.key)' = {e}
      BY <2>1, <2>3 DEF PointsInv, CountedOnce, RowOf
    <3>2. ASSUME NEW e \in ledger', e.key \in ClientKeys
          PROVE  \E r \in redemptions' : r.key = e.key /\ r.user = e.user /\ e.points = 0 - r.points
      <4>1. CASE e = row
        BY <2>1, <2>2, <2>5, <4>1
      <4>2. CASE e \in ledger
        BY <2>1, <3>2, <4>2 DEF PointsInv, CountedOnce
      <4> QED BY <2>1, <4>1, <4>2
    <3>3. \A r, s \in redemptions' : r.key = s.key => r = s
      BY <2>1, <2>2, <2>5 DEF PointsInv, CountedOnce
    <3> QED BY <3>1, <3>2, <3>3 DEF CountedOnce
  <2>11. ASSUME NEW u \in Users
         PROVE  /\ BalanceIn(ledger', u) \in Int
                /\ BalanceIn(ledger', u) - HoldOf(Idle, u) >= BalanceIn(ledger, u) - HoldOf(work[w], u)
    <3>1. HoldOf(Idle, u) = 0 /\ HoldOf(work[w], u) = IF j.user = u THEN j.points ELSE 0
      BY <1>1, IdlePoints DEF HoldOf
    <3>2. /\ BalanceIn(ledger, u) \in Int
          /\ BalanceIn(ledger \cup {row}, u) =
               BalanceIn(ledger, u) + (IF row.user = u THEN row.points ELSE 0)
      <4>1. IsFiniteSet(ledger) /\ (\A e \in ledger : e.points \in Int) /\ row \notin ledger
        BY <2>3 DEF PointsInv, PointsTypes
      <4>2. row.points \in Int
        BY <2>2, <2>4
      <4> HIDE DEF row
      <4> QED BY <4>1, <4>2, BalanceGrows
    <3>3. CASE j.user = u
      BY <2>1, <2>2, <2>4, <3>1, <3>2, <3>3
    <3>4. CASE j.user # u
      BY <2>1, <2>2, <2>4, <3>1, <3>2, <3>4
    <3> QED BY <3>3, <3>4
  <2>12. Covered'
    BY <1>2, <2>11, IdlePoints, CoveredStill
  <2> QED BY <2>9, <2>10, <2>12 DEF PointsInv
<1> QED BY <1>3, <1>4

LEMMA ResolveReadsKeeps ==
  ASSUME PointsInv, NEW w \in Workers, NEW r \in redemptions, NEW s \in Statuses, ResolveReads(w, r, s)
  PROVE  PointsInv'
<1> DEFINE job == [op |-> "resolve", key |-> r.key, status |-> s]
<1>1. work' = [work EXCEPT ![w] = job] /\ UNCHANGED <<ledger, redemptions, rule, owed>>
  BY DEF ResolveReads, Starts, PointsVars
<1>2. job.op = "resolve" /\ job.key = r.key /\ job.status = s
  OBVIOUS
<1>3. r.key \in ClientKeys
  BY DEF PointsInv, PointsTypes, Redemption
<1> HIDE DEF job
<1> QED BY <1>1, <1>2, <1>3, PointsQuiet

\* A hold takes points, so that its reversal gives none back.
LEMMA ResolveSavesKeeps ==
  ASSUME PointsInv, NEW w \in Workers, ResolveSaves(w)
  PROVE  PointsInv'
<1> DEFINE j == work[w]
           Judgement(r) == IF r.key = j.key THEN [r EXCEPT !.status = j.status] ELSE r
<1>1. j.op = "resolve" /\ j.key \in ClientKeys /\ j.status \in Statuses
  BY DEF ResolveSaves, Doing, PointsInv, PointsTypes, PointsWork
<1>2. /\ work' = [work EXCEPT ![w] = Idle] /\ UNCHANGED <<owed, rule>>
      /\ redemptions' = {Judgement(r) : r \in redemptions}
  BY DEF ResolveSaves, Ends
<1>3. ledger' = ledger
  <2>1. ASSUME NEW e \in RowOf(j.key) PROVE Reversal(e) = {}
    <3>1. e \in ledger /\ e.key \in ClientKeys
      BY <1>1 DEF RowOf
    <3>2. PICK r \in redemptions : e.points = 0 - r.points
      BY <3>1 DEF PointsInv, CountedOnce
    <3>3. r.points \in Nat \ {0}
      BY PointsAssumption DEF PointsInv, PointsTypes, Redemption
    <3>4. ~(e.points > 0)
      BY <3>2, <3>3
    <3> QED BY <3>4 DEF Reversal
  <2>2. UNION {Reversal(e) : e \in RowOf(j.key)} = {}
    BY <2>1
  <2> QED BY <2>2 DEF ResolveSaves
<1>4. \A r \in redemptions : /\ Judgement(r) \in Redemption /\ Judgement(r).key = r.key
                             /\ Judgement(r).user = r.user /\ Judgement(r).points = r.points
  <2>1. \A r \in redemptions : r \in Redemption
    BY DEF PointsInv, PointsTypes
  <2> QED BY <1>1, <2>1 DEF Redemption
<1> HIDE DEF Judgement
<1>5. \A r \in redemptions : \E s \in redemptions' : s.key = r.key
  BY <1>2, <1>4
<1>6. /\ DOMAIN work' = Workers /\ work' = [v \in Workers |-> work'[v]]
      /\ PointsWork'
  BY <1>2, <1>5, IdlePoints, PointsWorkStep
<1>7. PointsTypes'
  BY <1>2, <1>3, <1>4, <1>6 DEF PointsInv, PointsTypes
<1>8. CountedOnce'
  <2>1. \A e \in ledger' : RowOf(e.key)' = {e}
    BY <1>3 DEF PointsInv, CountedOnce, RowOf
  <2>2. \A e \in ledger' : e.key \in ClientKeys =>
          \E r \in redemptions' : r.key = e.key /\ r.user = e.user /\ e.points = 0 - r.points
    BY <1>2, <1>3, <1>4 DEF PointsInv, CountedOnce
  <2>3. \A r, s \in redemptions' : r.key = s.key => r = s
    BY <1>2, <1>4 DEF PointsInv, CountedOnce
  <2> QED BY <2>1, <2>2, <2>3 DEF CountedOnce
<1>9. ASSUME NEW u \in Users
      PROVE  /\ BalanceIn(ledger', u) \in Int
             /\ BalanceIn(ledger', u) - HoldOf(Idle, u) >= BalanceIn(ledger, u) - HoldOf(work[w], u)
  <2>1. HoldOf(Idle, u) = 0 /\ HoldOf(work[w], u) = 0
    BY <1>1, IdlePoints DEF HoldOf
  <2>2. BalanceIn(ledger, u) \in Int
    BY BalanceIsInt DEF PointsInv
  <2> QED BY <1>3, <2>1, <2>2
<1>10. Covered'
  BY <1>2, <1>9, IdlePoints, CoveredStill
<1> QED BY <1>7, <1>8, <1>10 DEF PointsInv

\* Steps that leave the ledger, the requests and what workers remember of
\* them alone.
LEMMA PointsAside ==
  ASSUME PointsInv, UNCHANGED <<work, ledger, redemptions>>,
         rule' \in RuleValues \cup {None},
         \A a \in owed' : a.user \in Users /\ a.key \notin ClientKeys /\ a.points \in Nat \cup {None}
  PROVE  PointsInv'
<1>1. PointsTypes'
  BY DEF PointsInv, PointsTypes, PointsWork, Doing
<1>2. CountedOnce'
  BY DEF PointsInv, CountedOnce, RowOf
<1>3. Covered'
  BY DEF PointsInv, Covered
<1> QED BY <1>1, <1>2, <1>3 DEF PointsInv

LEMMA NextPoints == PointsInv /\ [PointsNext \/ AwardQueued]_PointsState => PointsInv'
<1> SUFFICES ASSUME PointsInv, [PointsNext \/ AwardQueued]_PointsState
             PROVE  PointsInv'
  OBVIOUS
<1>1. /\ rule \in RuleValues \cup {None}
      /\ \A a \in owed : a.user \in Users /\ a.key \notin ClientKeys /\ a.points \in Nat \cup {None}
  BY DEF PointsInv, PointsTypes
<1>2. ASSUME NEW w \in Workers, Awarding(w) PROVE PointsInv'
  BY <1>2, AwardReadsKeeps, AwardCommitsKeeps DEF Awarding
<1>3. ASSUME NEW w \in Workers, Redeeming(w) PROVE PointsInv'
  BY <1>3, RedeemReadsKeeps, RedeemCommitsKeeps, ResolveReadsKeeps, ResolveSavesKeeps DEF Redeeming
<1>4. ASSUME NEW w \in Workers, Ranking(w) PROVE PointsInv'
  <2>1. CASE FinalizeReads(w)
    <3> DEFINE job == [op |-> "finalize", month |-> month - 1, rows |-> Standing(month - 1)]
    <3>1. work' = [work EXCEPT ![w] = job] /\ UNCHANGED <<ledger, redemptions, rule, owed>>
      BY <2>1 DEF FinalizeReads, Starts, PointsVars
    <3>2. job.op \notin {"award", "redeem", "resolve"}
      OBVIOUS
    <3> HIDE DEF job
    <3> QED BY <3>1, <3>2, PointsQuiet
  <2>2. CASE FinalizeCommits(w)
    BY <2>2, IdlePoints, PointsQuiet DEF FinalizeCommits, Ends
  <2> QED BY <1>4, <2>1, <2>2 DEF Ranking
<1>5. ASSUME NEW w \in Workers, Dies(w), UNCHANGED PointsVars PROVE PointsInv'
  BY <1>5, IdlePoints, PointsQuiet DEF Dies, Ends, PointsVars
<1>6. ASSUME NEW v \in RuleValues \cup {None}, SetRule(v) PROVE PointsInv'
  BY <1>1, <1>6, PointsAside DEF SetRule
<1>7. CASE MonthEnds
  BY <1>1, <1>7, PointsAside DEF MonthEnds
<1>8. CASE AwardQueued
  <2>1. /\ UNCHANGED <<work, ledger, redemptions, rule>>
        /\ \A a \in owed' : a.user \in Users /\ a.key \notin ClientKeys /\ a.points \in Nat \cup {None}
    BY <1>1, <1>8 DEF AwardQueued
  <2> QED BY <1>1, <2>1, PointsAside
<1>9. CASE UNCHANGED PointsState
  BY <1>1, <1>9, PointsAside DEF PointsState, PointsVars
<1> QED BY <1>2, <1>3, <1>4, <1>5, <1>6, <1>7, <1>8, <1>9 DEF PointsNext

\* What the ledger counts, and how far a balance can be overdrawn.
THEOREM EventsCountOnce == PointsSpec => []PointsKept
<1>1. RequestsInit /\ PointsInit({}) => PointsInv
  BY InitPoints
<1>2. PointsInv /\ [PointsNext \/ AwardQueued]_PointsState => PointsInv'
  BY NextPoints
<1>3. PointsInv => PointsKept
  <2> SUFFICES ASSUME PointsInv, NEW u \in Users
               PROVE  Balance(u) >= 0 - (Cardinality(Workers) - 1) * Max(Amounts)
    BY DEF PointsInv, PointsKept
  <2>1. /\ work = [x \in Workers |-> work[x]]
        /\ \A x \in Workers : work[x].op = "redeem" => work[x].points \in Amounts
    BY DEF PointsInv, PointsTypes, PointsWork, Doing
  <2>2. PICK w : w \in Workers
    BY RequestsAssumption
  <2>3. HeldIn(work, u) \in Nat
    <3>1. work[w].op = "redeem" => work[w].points \in Amounts
      BY <2>1, <2>2
    <3> QED BY <2>1, <2>2, <3>1, HeldMoves
  <2>4. BalanceIn(ledger, u) \in Int
    BY BalanceIsInt DEF PointsInv
  <2>5. BalanceIn(ledger, u) - HeldIn(work, u) >= 0 - Ceiling
    BY DEF PointsInv, Covered
  <2>6. Balance(u) = BalanceIn(ledger, u)
    BY DEF Balance, RowsOf, BalanceIn
  <2>7. Ceiling \in Int
    <3>1. Max(Amounts) \in Nat
      BY <2>1, <2>2, HoldRange
    <3>2. Cardinality(Workers) \in Nat
      BY RequestsAssumption, FS_CardinalityType
    <3> QED BY <3>1, <3>2 DEF Ceiling
  <2>8. Balance(u) >= 0 - Ceiling
    BY <2>3, <2>4, <2>5, <2>6, <2>7
  <2> QED BY <2>8 DEF Ceiling
<1> QED BY <1>1, <1>2, <1>3, PTL DEF PointsSpec

-----------------------------------------------------------------------------
(* Coupons: whatever spins and updates overlap, a coupon is awarded within *)
(* its limit but for the awards that an update overlaps.                   *)
CouponsState == <<work, CouponsVars>>
CouponsSpec == RequestsInit /\ CouponsInit /\ [][CouponsNext]_CouponsState

CouponRow == [form : CouponForms, uses : Nat]
WheelRow == [active : BOOLEAN, coupons : SUBSET Coupons]
WalletEntry == [user : Users, during : BOOLEAN]

\* The entries that no update overlapped, and the uses a coupon tells.
Counted(entries) == Len(entries) - Cardinality({i \in DOMAIN entries : entries[i].during})
Used(c) == IF Exists(coupon, c) THEN coupon[c].uses ELSE 0

\* What an update holds is the counter it will write back: no entry has been
\* counted since it was read.
CouponWork ==
  \A w \in Workers :
    /\ Doing(w, "coupon") =>
         /\ work[w].coupon \in Coupons /\ work[w].uses \in Nat
         /\ Counted(wallet[work[w].coupon]) <= work[w].uses
         /\ work[w].uses <= highest[work[w].coupon]
    /\ Doing(w, "spin") => work[w].offers \subseteq Coupons /\ work[w].user \in Users

CouponTypes ==
  /\ DOMAIN work = Workers /\ work = [w \in Workers |-> work[w]]
  /\ coupon \in [Coupons -> CouponRow \cup {None}]
  /\ wheel \in [Wheels -> WheelRow \cup {None}]
  /\ wallet \in [Coupons -> Seq(WalletEntry)]
  /\ highest \in [Coupons -> Nat]

WithinLimit ==
  \A c \in Coupons :
    /\ Counted(wallet[c]) <= Used(c) /\ Used(c) <= highest[c]
    /\ Exists(coupon, c) => coupon[c].form.limit <= highest[c]

CouponInv == CouponTypes /\ CouponWork /\ WithinLimit

LEMMA CountedType ==
  ASSUME NEW s \in Seq(WalletEntry)
  PROVE  Counted(s) \in Int
<1>1. {i \in DOMAIN s : s[i].during} \subseteq 1 .. Len(s) /\ Len(s) \in Nat
  OBVIOUS
<1>2. IsFiniteSet({i \in DOMAIN s : s[i].during})
  BY <1>1, FS_Interval, FS_Subset
<1> QED BY <1>1, <1>2, FS_CardinalityType DEF Counted

LEMMA CountedAppend ==
  ASSUME NEW s \in Seq(WalletEntry), NEW e \in WalletEntry
  PROVE  /\ Append(s, e) \in Seq(WalletEntry)
         /\ Counted(Append(s, e)) = Counted(s) + (IF e.during THEN 0 ELSE 1)
<1> DEFINE n == Len(s) + 1
           t == Append(s, e)
           before == {i \in DOMAIN s : s[i].during}
           after == {i \in DOMAIN t : t[i].during}
<1>1. /\ t \in Seq(WalletEntry) /\ Len(t) = n /\ t[n] = e /\ n \in Nat
      /\ DOMAIN t = DOMAIN s \cup {n} /\ n \notin DOMAIN s
      /\ \A i \in DOMAIN s : t[i] = s[i]
  OBVIOUS
<1>2. before \subseteq 1 .. Len(s) /\ Len(s) \in Nat /\ n \notin before
  OBVIOUS
<1>3. IsFiniteSet(before) /\ Cardinality(before) \in Nat
  <2> HIDE DEF before
  <2>1. IsFiniteSet(1 .. Len(s))
    BY <1>2, FS_Interval
  <2>2. IsFiniteSet(before)
    BY <1>2, <2>1, FS_Subset
  <2> QED BY <2>2, FS_CardinalityType
<1>4. Counted(t) = n - Cardinality(after) /\ Counted(s) = Len(s) - Cardinality(before)
  BY <1>1 DEF Counted
<1> HIDE DEF t
<1>5. CASE e.during
  <2>1. after = before \cup {n}
    BY <1>1, <1>5
  <2>2. Cardinality(after) = Cardinality(before) + 1
    BY <1>2, <1>3, <2>1, FS_AddElement
  <2> HIDE DEF after, before
  <2>3. Counted(t) = Counted(s)
    BY <1>2, <1>3, <1>4, <2>2
  <2>4. Counted(s) \in Int
    BY <1>2, <1>3, <1>4
  <2> QED BY <1>1, <1>5, <2>3, <2>4 DEF t
<1>6. CASE ~e.during
  <2>1. after = before
    BY <1>1, <1>6
  <2> HIDE DEF after, before
  <2>2. Counted(t) = Counted(s) + 1
    BY <1>2, <1>3, <1>4, <2>1
  <2> QED BY <1>1, <1>6, <2>2 DEF t
<1> QED BY <1>5, <1>6

LEMMA MaxOfTwo ==
  ASSUME NEW a \in Nat, NEW b \in Nat
  PROVE  Max({a, b}) \in Nat /\ a <= Max({a, b}) /\ b <= Max({a, b})
<1>1. IsFiniteSet({a} \cup {b}) /\ {a} \cup {b} = {a, b}
  BY FS_Singleton, FS_Union
<1>2. {a, b} \subseteq Int /\ {a, b} # {} /\ {a, b} \subseteq Nat
  OBVIOUS
<1> QED BY <1>1, <1>2, MaxIsThere

-----------------------------------------------------------------------------
LEMMA InitCoupons == RequestsInit /\ CouponsInit => CouponInv
<1> SUFFICES ASSUME RequestsInit, CouponsInit PROVE CouponInv
  OBVIOUS
<1>1. work = [w \in Workers |-> Idle] /\ \A w \in Workers : ~Doing(w, "coupon") /\ ~Doing(w, "spin")
  BY DEF RequestsInit, Doing, Idle
<1>2. /\ coupon = [c \in Coupons |-> None] /\ wheel = [k \in Wheels |-> None]
      /\ wallet = [c \in Coupons |-> <<>>] /\ highest = [c \in Coupons |-> 0]
  BY DEF CouponsInit
<1>3. CouponTypes
  BY <1>1, <1>2 DEF CouponTypes
<1>4. CouponWork
  BY <1>1 DEF CouponWork
<1>5. Counted(<<>>) = 0
  <2>1. {i \in DOMAIN <<>> : <<>>[i].during} = {}
    OBVIOUS
  <2> QED BY <2>1, FS_EmptySet DEF Counted
<1>6. WithinLimit
  BY <1>2, <1>5 DEF WithinLimit, Used, Exists
<1> QED BY <1>3, <1>4, <1>6 DEF CouponInv

\* A worker remembers or forgets something else than an update.
LEMMA CouponQuiet ==
  ASSUME CouponInv, NEW w \in Workers, NEW job, work' = [work EXCEPT ![w] = job],
         UNCHANGED CouponsVars,
         job.op = "coupon" =>
           /\ job.coupon \in Coupons /\ job.uses \in Nat
           /\ Counted(wallet[job.coupon]) <= job.uses /\ job.uses <= highest[job.coupon],
         job.op = "spin" => job.offers \subseteq Coupons /\ job.user \in Users
  PROVE  CouponInv'
<1>1. /\ DOMAIN work' = Workers /\ work' = [v \in Workers |-> work'[v]]
      /\ work'[w] = job /\ \A v \in Workers : v # w => work'[v] = work[v]
  BY DEF CouponInv, CouponTypes
<1>2. coupon' = coupon /\ wheel' = wheel /\ wallet' = wallet /\ highest' = highest
  BY DEF CouponsVars
<1>3. CouponTypes'
  BY <1>1, <1>2 DEF CouponInv, CouponTypes
<1>4. WithinLimit'
  BY <1>2 DEF CouponInv, WithinLimit, Used, Exists
<1>5. CouponWork'
  BY <1>1, <1>2 DEF CouponInv, CouponWork, Doing
<1> QED BY <1>3, <1>4, <1>5 DEF CouponInv

LEMMA IdleCoupons == Idle.op \notin {"coupon", "spin"}
  BY DEF Idle

\* A coupon's columns are saved with a counter that covers its entries.
LEMMA CouponSaved ==
  ASSUME CouponInv, NEW c \in Coupons, NEW form \in CouponForms, NEW n \in Nat,
         Saved(c, form, n), UNCHANGED <<wheel, wallet>>,
         Counted(wallet[c]) <= n, n <= highest[c],
         DOMAIN work' = Workers /\ work' = [v \in Workers |-> work'[v]],
         \A w \in Workers : Doing(w, "coupon")' \/ Doing(w, "spin")' => work'[w] = work[w]
  PROVE  CouponInv'
<1> DEFINE most == Max({highest[c], form.limit})
           row == [form |-> form, uses |-> n]
<1>1. coupon' = [coupon EXCEPT ![c] = row] /\ highest' = [highest EXCEPT ![c] = most]
  BY DEF Saved
<1>2. highest[c] \in Nat /\ form.limit \in Nat
  BY DEF CouponInv, CouponTypes, CouponForms
<1>3. most \in Nat /\ highest[c] <= most /\ form.limit <= most
  BY <1>2, MaxOfTwo
<1>4. row \in CouponRow /\ row.uses = n /\ row.form = form /\ row # None
  BY CouponsAssumption DEF CouponRow
<1> HIDE DEF most, row
<1>5. CouponTypes'
  BY <1>1, <1>3, <1>4 DEF CouponInv, CouponTypes
<1>6. \A d \in Coupons : highest[d] <= highest'[d]
  BY <1>1, <1>2, <1>3 DEF CouponInv, CouponTypes
<1>7. WithinLimit'
  <2> SUFFICES ASSUME NEW d \in Coupons
               PROVE  /\ Counted(wallet'[d]) <= Used(d)' /\ Used(d)' <= highest'[d]
                      /\ Exists(coupon, d)' => coupon'[d].form.limit <= highest'[d]
    BY DEF WithinLimit
  <2>1. CASE d = c
    <3>1. Used(d)' = n /\ coupon'[d].form = form /\ highest'[d] = most
      BY <1>1, <1>4, <2>1 DEF CouponInv, CouponTypes, Used, Exists
    <3> QED BY <1>2, <1>3, <2>1, <3>1
  <2>2. CASE d # c
    BY <1>1, <2>2 DEF CouponInv, CouponTypes, WithinLimit, Used, Exists
  <2> QED BY <2>1, <2>2
<1>8. CouponWork'
  <2> SUFFICES ASSUME NEW v \in Workers, Doing(v, "coupon")' \/ Doing(v, "spin")'
               PROVE  /\ Doing(v, "coupon")' =>
                           /\ work'[v].coupon \in Coupons /\ work'[v].uses \in Nat
                           /\ Counted(wallet'[work'[v].coupon]) <= work'[v].uses
                           /\ work'[v].uses <= highest'[work'[v].coupon]
                      /\ Doing(v, "spin")' => work'[v].offers \subseteq Coupons /\ work'[v].user \in Users
    BY DEF CouponWork
  <2>1. work'[v] = work[v] /\ wallet' = wallet
    OBVIOUS
  <2>2. CASE Doing(v, "coupon")'
    <3>1. Doing(v, "coupon")
      BY <2>1, <2>2 DEF Doing
    <3>2. /\ work[v].coupon \in Coupons /\ work[v].uses \in Nat
          /\ Counted(wallet[work[v].coupon]) <= work[v].uses
          /\ work[v].uses <= highest[work[v].coupon]
      BY <3>1 DEF CouponInv, CouponWork
    <3>3. work[v].uses <= highest'[work[v].coupon]
      BY <1>5, <1>6, <3>2 DEF CouponInv, CouponTypes
    <3>4. ~Doing(v, "spin")'
      BY <2>2 DEF Doing
    <3> QED BY <2>1, <3>2, <3>3, <3>4
  <2>3. CASE Doing(v, "spin")'
    <3>1. Doing(v, "spin") /\ ~Doing(v, "coupon")'
      BY <2>1, <2>3 DEF Doing
    <3> QED BY <2>1, <3>1 DEF CouponInv, CouponWork
  <2> QED BY <2>2, <2>3
<1> QED BY <1>5, <1>7, <1>8 DEF CouponInv

LEMMA CouponCreatedKeeps ==
  ASSUME CouponInv, NEW c \in Coupons, NEW form \in Forms, CouponCreated(c, form)
  PROVE  CouponInv'
<1>1. form \in CouponForms /\ Saved(c, form, 0) /\ UNCHANGED <<work, wheel, wallet>>
  BY CouponsAssumption DEF CouponCreated
<1>2. Counted(wallet[c]) <= 0 /\ 0 <= highest[c]
  BY DEF CouponCreated, CouponInv, CouponTypes, WithinLimit, Used
<1>3. DOMAIN work' = Workers /\ work' = [v \in Workers |-> work'[v]]
  BY <1>1 DEF CouponInv, CouponTypes
<1> QED BY <1>1, <1>2, <1>3, CouponSaved

LEMMA CouponLoadsKeeps ==
  ASSUME CouponInv, NEW w \in Workers, NEW c \in Coupons, CouponLoads(w, c)
  PROVE  CouponInv'
<1> DEFINE job == [op |-> "coupon", coupon |-> c, uses |-> coupon[c].uses]
<1>1. work' = [work EXCEPT ![w] = job] /\ UNCHANGED CouponsVars
  BY DEF CouponLoads, Starts
<1>2. job.op = "coupon" /\ job.coupon = c /\ job.uses = coupon[c].uses
  OBVIOUS
<1>3. /\ coupon[c].uses \in Nat /\ Counted(wallet[c]) <= coupon[c].uses
      /\ coupon[c].uses <= highest[c]
  BY DEF CouponLoads, Exists, CouponInv, CouponTypes, CouponRow, WithinLimit, Used
<1> HIDE DEF job
<1> QED BY <1>1, <1>2, <1>3, CouponQuiet

LEMMA CouponSavesKeeps ==
  ASSUME CouponInv, NEW w \in Workers, NEW form \in Forms, CouponSaves(w, form)
  PROVE  CouponInv'
<1> DEFINE c == work[w].coupon
           n == work[w].uses
<1>1. c \in Coupons /\ n \in Nat /\ Counted(wallet[c]) <= n /\ n <= highest[c]
  BY DEF CouponSaves, CouponInv, CouponWork
<1>2. form \in CouponForms /\ Saved(c, form, n) /\ UNCHANGED <<wheel, wallet>>
  BY CouponsAssumption DEF CouponSaves
<1>3. /\ DOMAIN work' = Workers /\ work' = [v \in Workers |-> work'[v]]
      /\ work'[w] = Idle /\ \A v \in Workers : v # w => work'[v] = work[v]
  BY DEF CouponSaves, Ends, CouponInv, CouponTypes
<1>4. \A v \in Workers : Doing(v, "coupon")' \/ Doing(v, "spin")' => work'[v] = work[v]
  BY <1>3, IdleCoupons DEF Doing
<1> HIDE DEF c, n
<1> QED BY <1>1, <1>2, <1>3, <1>4, CouponSaved

LEMMA WindowPassesKeeps ==
  ASSUME CouponInv, NEW c \in Coupons, WindowPasses(c)
  PROVE  CouponInv'
<1> DEFINE w == coupon[c].form.window
           next == CASE w = "later" -> "lasting" [] w = "lasting" -> "closing" [] OTHER -> "closed"
           form == [coupon[c].form EXCEPT !.window = next]
           row == [coupon[c] EXCEPT !.form = form]
<1>1. coupon[c] \in CouponRow
  BY DEF WindowPasses, Exists, CouponInv, CouponTypes
<1>2. coupon' = [coupon EXCEPT ![c] = row] /\ UNCHANGED <<work, wheel, wallet, highest>>
  BY <1>1 DEF WindowPasses, CouponRow, CouponForms
<1>3. next \in Windows
  <2>1. CASE w = "later"
    BY <2>1 DEF Windows
  <2>2. CASE w # "later" /\ w = "lasting"
    BY <2>2 DEF Windows
  <2>3. CASE w # "later" /\ w # "lasting"
    BY <2>3 DEF Windows
  <2> QED BY <2>1, <2>2, <2>3
<1> HIDE DEF next
<1>4. form \in CouponForms
  BY <1>1, <1>3 DEF CouponRow, CouponForms
<1>5. /\ row \in CouponRow /\ row.uses = coupon[c].uses /\ row # None
      /\ row.form.limit = coupon[c].form.limit
  <2>1. row \in CouponRow /\ row.uses = coupon[c].uses /\ row.form = form
    BY <1>1, <1>4 DEF CouponRow
  <2>2. form.limit = coupon[c].form.limit
    BY <1>1 DEF CouponRow, CouponForms
  <2> QED BY <2>1, <2>2, CouponsAssumption DEF CouponRow
<1> HIDE DEF row
<1>6. CouponTypes'
  BY <1>2, <1>5 DEF CouponInv, CouponTypes
<1>7. \A d \in Coupons :
        /\ Used(d)' = Used(d)
        /\ Exists(coupon, d)' =>
             Exists(coupon, d) /\ coupon'[d].form.limit = coupon[d].form.limit
  BY <1>1, <1>2, <1>5 DEF WindowPasses, CouponInv, CouponTypes, Used, Exists
<1>8. WithinLimit'
  BY <1>2, <1>7 DEF CouponInv, WithinLimit
<1>9. CouponWork'
  BY <1>2 DEF CouponInv, CouponWork, Doing
<1> QED BY <1>6, <1>8, <1>9 DEF CouponInv

LEMMA WheelSavedKeeps ==
  ASSUME CouponInv, NEW k \in Wheels, NEW active \in BOOLEAN, NEW chosen \in SUBSET Coupons,
         WheelSaved(k, active, chosen)
  PROVE  CouponInv'
<1> DEFINE row == [active |-> active, coupons |-> {c \in chosen : Eligible(c)}]
           off(l) == Exists(wheel, k) /\ active /\ Exists(wheel, l)
<1>1. /\ wheel' = [l \in Wheels |-> IF l = k THEN row
                                    ELSE IF off(l) THEN [wheel[l] EXCEPT !.active = FALSE]
                                    ELSE wheel[l]]
      /\ UNCHANGED <<work, coupon, wallet, highest>>
  BY DEF WheelSaved
<1>2. row \in WheelRow
  BY DEF WheelRow
<1>3. \A l \in Wheels : off(l) => [wheel[l] EXCEPT !.active = FALSE] \in WheelRow
  <2> SUFFICES ASSUME NEW l \in Wheels, off(l)
               PROVE  [wheel[l] EXCEPT !.active = FALSE] \in WheelRow
    OBVIOUS
  <2>1. wheel[l] \in WheelRow
    BY DEF Exists, CouponInv, CouponTypes
  <2> QED BY <2>1 DEF WheelRow
<1> HIDE DEF row, off
<1>4. wheel' \in [Wheels -> WheelRow \cup {None}]
  BY <1>1, <1>2, <1>3 DEF CouponInv, CouponTypes
<1>5. CouponTypes'
  BY <1>1, <1>4 DEF CouponInv, CouponTypes
<1>6. CouponWork' /\ WithinLimit'
  BY <1>1 DEF CouponInv, CouponWork, WithinLimit, Used, Exists, Doing
<1> QED BY <1>5, <1>6 DEF CouponInv

LEMMA SpinReadsKeeps ==
  ASSUME CouponInv, NEW w \in Workers, NEW u \in Users, NEW k \in Wheels, SpinReads(w, u, k)
  PROVE  CouponInv'
<1> DEFINE offers == {c \in wheel[k].coupons : Offered(c)}
           job == [op |-> "spin", user |-> u, offers |-> offers, again |-> TRUE]
<1>1. work' = [work EXCEPT ![w] = job] /\ UNCHANGED CouponsVars
  BY DEF SpinReads, Starts
<1>2. job.op = "spin" /\ job.user = u /\ job.offers = offers
  OBVIOUS
<1>3. wheel[k].coupons \subseteq Coupons
  BY DEF SpinReads, Exists, CouponInv, CouponTypes, WheelRow
<1>4. offers \subseteq Coupons
  BY <1>3
<1> HIDE DEF job, offers
<1> QED BY <1>1, <1>2, <1>4, CouponQuiet

\* An award is counted with its use, and marked if an update is under way.
LEMMA SpinAwardsKeeps ==
  ASSUME CouponInv, NEW w \in Workers, NEW c \in Coupons, SpinAwards(w, c)
  PROVE  CouponInv'
<1> DEFINE entry == [user |-> work[w].user, during |-> Updating(c)]
           row == [coupon[c] EXCEPT !.uses = @ + 1]
           longer == Append(wallet[c], entry)
<1>1. /\ coupon' = [coupon EXCEPT ![c] = row] /\ wallet' = [wallet EXCEPT ![c] = longer]
      /\ UNCHANGED <<wheel, highest>> /\ work' = [work EXCEPT ![w] = Idle]
  BY DEF SpinAwards, Ends
<1>2. coupon[c] \in CouponRow /\ coupon[c].uses < coupon[c].form.limit /\ Exists(coupon, c)
  BY DEF SpinAwards, Eligible, Exists, CouponInv, CouponTypes
<1>3. row \in CouponRow /\ row.uses = coupon[c].uses + 1 /\ row # None
  <2>1. row \in CouponRow /\ row.uses = coupon[c].uses + 1
    BY <1>2 DEF CouponRow
  <2> QED BY <2>1, CouponsAssumption DEF CouponRow
<1>4. entry \in WalletEntry /\ entry.during = Updating(c)
  <2>1. work[w].user \in Users
    BY DEF SpinAwards, CouponInv, CouponWork
  <2>2. Updating(c) \in BOOLEAN
    BY DEF Updating
  <2> QED BY <2>1, <2>2 DEF WalletEntry
<1> HIDE DEF row, entry
<1>5. /\ longer \in Seq(WalletEntry) /\ Counted(wallet[c]) \in Int
      /\ Counted(longer) = Counted(wallet[c]) + (IF Updating(c) THEN 0 ELSE 1)
  BY <1>4, CountedAppend, CountedType DEF CouponInv, CouponTypes
<1>6. coupon[c].uses < highest[c] /\ Counted(wallet[c]) <= coupon[c].uses
  BY <1>2 DEF CouponInv, CouponTypes, WithinLimit, Used, CouponRow, CouponForms
<1> HIDE DEF longer
<1>7. CouponTypes'
  BY <1>1, <1>3, <1>5 DEF CouponInv, CouponTypes
<1>8. /\ wallet'[c] = longer /\ coupon'[c] = row
      /\ \A d \in Coupons : d # c => wallet'[d] = wallet[d] /\ coupon'[d] = coupon[d]
  BY <1>1 DEF CouponInv, CouponTypes
<1>9. row.form.limit = coupon[c].form.limit
  BY <1>2 DEF row, CouponRow
<1>10. WithinLimit'
  <2> SUFFICES ASSUME NEW d \in Coupons
               PROVE  /\ Counted(wallet'[d]) <= Used(d)' /\ Used(d)' <= highest'[d]
                      /\ Exists(coupon, d)' => coupon'[d].form.limit <= highest'[d]
    BY DEF WithinLimit
  <2>1. CASE d = c
    <3>1. Used(d)' = coupon[c].uses + 1 /\ coupon[c].uses \in Nat /\ highest[c] \in Nat
      BY <1>2, <1>3, <1>8, <2>1 DEF Used, Exists, CouponRow, CouponInv, CouponTypes
    <3>2. Counted(longer) <= coupon[c].uses + 1
      BY <1>5, <1>6, <3>1
    <3>3. coupon[c].uses + 1 <= highest[c]
      BY <1>6, <3>1
    <3>4. row.form.limit <= highest[c]
      BY <1>2, <1>9 DEF CouponInv, WithinLimit
    <3> QED BY <1>1, <1>8, <2>1, <3>1, <3>2, <3>3, <3>4
  <2>2. CASE d # c
    BY <1>1, <1>8, <2>2 DEF CouponInv, WithinLimit, Used, Exists
  <2> QED BY <2>1, <2>2
<1>11. CouponWork'
  <2>1. /\ work'[w] = Idle /\ \A v \in Workers : v # w => work'[v] = work[v]
    BY <1>1 DEF CouponInv, CouponTypes
  <2>2. ASSUME NEW v \in Workers, Doing(v, "coupon")'
        PROVE  /\ work'[v].coupon \in Coupons /\ work'[v].uses \in Nat
               /\ Counted(wallet'[work'[v].coupon]) <= work'[v].uses
               /\ work'[v].uses <= highest'[work'[v].coupon]
    <3>1. work'[v] = work[v] /\ Doing(v, "coupon")
      BY <2>1, <2>2, IdleCoupons DEF Doing
    <3>2. /\ work[v].coupon \in Coupons /\ work[v].uses \in Nat
          /\ Counted(wallet[work[v].coupon]) <= work[v].uses
          /\ work[v].uses <= highest[work[v].coupon]
      BY <3>1 DEF CouponInv, CouponWork
    <3>3. CASE work[v].coupon = c
      <4>1. Updating(c)
        BY <3>1, <3>3 DEF Updating
      <4> QED BY <1>1, <1>5, <1>8, <3>1, <3>2, <3>3, <4>1
    <3>4. CASE work[v].coupon # c
      BY <1>1, <1>8, <3>1, <3>2, <3>4
    <3> QED BY <3>3, <3>4
  <2>3. \A v \in Workers : Doing(v, "spin")' => work'[v].offers \subseteq Coupons /\ work'[v].user \in Users
    BY <2>1, IdleCoupons DEF CouponInv, CouponWork, Doing
  <2> QED BY <2>2, <2>3 DEF CouponWork
<1> QED BY <1>7, <1>10, <1>11 DEF CouponInv

LEMMA SpinMissesKeeps ==
  ASSUME CouponInv, NEW w \in Workers, NEW c \in Coupons, SpinMisses(w, c)
  PROVE  CouponInv'
<1> DEFINE j == work[w]
           again == [j EXCEPT !.offers = @ \ {c}, !.again = FALSE]
<1>1. UNCHANGED CouponsVars /\ j.op = "spin"
  BY DEF SpinMisses, Doing
<1>2. CASE work' = [work EXCEPT ![w] = Idle]
  BY <1>1, <1>2, IdleCoupons, CouponQuiet
<1>3. CASE work' = [work EXCEPT ![w] = again] /\ j.again /\ j.offers # {c}
  <2>1. j.offers \subseteq Coupons /\ j.user \in Users
    BY <1>1 DEF CouponInv, CouponWork, Doing
  <2>2. again.op = "spin" /\ again.user = j.user /\ again.offers \subseteq Coupons
    BY <1>1, <2>1
  <2> HIDE DEF again
  <2> QED BY <1>1, <1>3, <2>1, <2>2, CouponQuiet
<1> QED BY <1>2, <1>3 DEF SpinMisses, Starts, Ends

LEMMA NextCoupons == CouponInv /\ [CouponsNext]_CouponsState => CouponInv'
<1> SUFFICES ASSUME CouponInv, [CouponsNext]_CouponsState PROVE CouponInv'
  OBVIOUS
<1>1. ASSUME NEW c \in Coupons, NEW form \in Forms, CouponCreated(c, form) PROVE CouponInv'
  BY <1>1, CouponCreatedKeeps
<1>2. ASSUME NEW w \in Workers, NEW c \in Coupons, CouponLoads(w, c) PROVE CouponInv'
  BY <1>2, CouponLoadsKeeps
<1>3. ASSUME NEW w \in Workers, NEW form \in Forms, CouponSaves(w, form) PROVE CouponInv'
  BY <1>3, CouponSavesKeeps
<1>4. ASSUME NEW c \in Coupons, WindowPasses(c) PROVE CouponInv'
  BY <1>4, WindowPassesKeeps
<1>5. ASSUME NEW k \in Wheels, NEW active \in BOOLEAN, NEW chosen \in SUBSET Coupons,
             WheelSaved(k, active, chosen)
      PROVE  CouponInv'
  BY <1>5, WheelSavedKeeps
<1>6. ASSUME NEW w \in Workers, NEW u \in Users, NEW k \in Wheels, SpinReads(w, u, k) PROVE CouponInv'
  BY <1>6, SpinReadsKeeps
<1>7. ASSUME NEW w \in Workers, NEW c \in Coupons, SpinAwards(w, c) \/ SpinMisses(w, c)
      PROVE  CouponInv'
  BY <1>7, SpinAwardsKeeps, SpinMissesKeeps
<1>8. ASSUME NEW w \in Workers, Dies(w), UNCHANGED CouponsVars PROVE CouponInv'
  BY <1>8, IdleCoupons, CouponQuiet DEF Dies, Ends
<1>9. CASE UNCHANGED CouponsState
  <2>1. work' = work /\ coupon' = coupon /\ wheel' = wheel /\ wallet' = wallet /\ highest' = highest
    BY <1>9 DEF CouponsState, CouponsVars
  <2> QED BY <2>1 DEF CouponInv, CouponTypes, CouponWork, WithinLimit, Used, Exists, Doing
<1> QED BY <1>1, <1>2, <1>3, <1>4, <1>5, <1>6, <1>7, <1>8, <1>9 DEF CouponsNext

\* Awards stay within the limits.
THEOREM LimitsHold == CouponsSpec => []AwardsWithinLimit
<1>1. RequestsInit /\ CouponsInit => CouponInv
  BY InitCoupons
<1>2. CouponInv /\ [CouponsNext]_CouponsState => CouponInv'
  BY NextCoupons
<1>3. CouponInv => AwardsWithinLimit
  BY DEF CouponInv, WithinLimit, AwardsWithinLimit, Counted, Used
<1> QED BY <1>1, <1>2, <1>3, PTL DEF CouponsSpec

-----------------------------------------------------------------------------
(* Ratings: whatever submissions, signals, deletions and recounts overlap, *)
(* a party counts a rated order at most twice.                             *)
RatingsState == <<work, RatingsVars>>
RatingsSpec == RequestsInit /\ RatingsInit /\ [][RatingsNext]_RatingsState

\* The workers whose signal has still to count a new rating of p, and the
\* orders of p that have ever been rated.
Brings(job, p) == job.op = "signal" /\ job.party = p /\ job.created
Announcing(f, p) == {w \in Workers : Brings(f[w], p)}
Signals(f, p) == Cardinality(Announcing(f, p))
RatedOnce(orders, p) == Cardinality(orders \cap Rated[p])

RatingTypes ==
  /\ DOMAIN work = Workers /\ work = [w \in Workers |-> work[w]]
  /\ stars = [o \in RatedOrders |-> stars[o]]
  /\ IsFiniteSet(ever) /\ \A o \in RatedOrders : stars[o] # None => o \in ever
  /\ count \in [Parties -> Nat]

RatingWork ==
  \A w \in Workers :
    /\ Doing(w, "rate") => work[w].order \in RatedOrders /\ work[w].count \in Nat
    /\ Doing(w, "signal") => work[w].party \in Parties /\ work[w].created \in BOOLEAN

\* What a submission remembers of the counter is bounded as the counter is:
\* only a new rating adds a signal, and it adds an order too.
CountsBounded ==
  \A p \in Parties :
    /\ count[p] + Signals(work, p) <= 2 * RatedOnce(ever, p)
    /\ Signals(work, p) <= RatedOnce(ever, p)
    /\ \A w \in Workers : Doing(w, "rate") /\ PartyOf(work[w].order) = p =>
         work[w].count + Signals(work, p) <= 2 * RatedOnce(ever, p)

RatingInv == RatingTypes /\ RatingWork /\ CountsBounded

LEMMA PartyOfOrder ==
  ASSUME NEW o \in RatedOrders
  PROVE  PartyOf(o) \in Parties /\ o \in Rated[PartyOf(o)]
<1>1. \E p \in Parties : o \in Rated[p]
  BY DEF RatedOrders
<1> QED BY <1>1 DEF PartyOf

LEMMA SignalsType ==
  ASSUME NEW f, NEW p
  PROVE  Signals(f, p) \in Nat /\ IsFiniteSet(Announcing(f, p))
<1>1. Announcing(f, p) \subseteq Workers
  BY DEF Announcing
<1>2. IsFiniteSet(Announcing(f, p))
  BY <1>1, RequestsAssumption, FS_Subset
<1> QED BY <1>2, FS_CardinalityType DEF Signals

LEMMA RatedOnceType ==
  ASSUME NEW orders, IsFiniteSet(orders), NEW p
  PROVE  RatedOnce(orders, p) \in Nat /\ IsFiniteSet(orders \cap Rated[p])
<1>1. IsFiniteSet(orders \cap Rated[p])
  BY FS_Subset
<1> QED BY <1>1, FS_CardinalityType DEF RatedOnce

\* A worker turns to another job.
LEMMA SignalsMove ==
  ASSUME NEW f, f = [x \in Workers |-> f[x]], NEW w \in Workers, NEW job, NEW p
  PROVE  Signals([f EXCEPT ![w] = job], p) = Signals(f, p)
           - (IF Brings(f[w], p) THEN 1 ELSE 0) + (IF Brings(job, p) THEN 1 ELSE 0)
<1> DEFINE after == [f EXCEPT ![w] = job]
           others == Announcing(f, p) \ {w}
           n == Cardinality(others)
<1>1. after[w] = job /\ \A x \in Workers : x # w => after[x] = f[x]
  OBVIOUS
<1> HIDE DEF after
<1>2. Announcing(after, p) = others \cup (IF Brings(job, p) THEN {w} ELSE {})
  BY <1>1 DEF Announcing
<1>3. Announcing(f, p) = others \cup (IF Brings(f[w], p) THEN {w} ELSE {})
  BY DEF Announcing
<1>4. IsFiniteSet(others) /\ w \notin others
  BY SignalsType, FS_Subset
<1>5. Cardinality(others \cup {w}) = n + 1 /\ n \in Nat /\ others \cup {} = others
  BY <1>4, FS_AddElement, FS_CardinalityType
<1> HIDE DEF others
<1>6. Signals(after, p) = n + (IF Brings(job, p) THEN 1 ELSE 0)
  BY <1>2, <1>5 DEF Signals
<1>7. Signals(f, p) = n + (IF Brings(f[w], p) THEN 1 ELSE 0)
  <2>1. CASE Brings(f[w], p)
    BY <1>3, <1>5, <2>1 DEF Signals
  <2>2. CASE ~Brings(f[w], p)
    <3>1. Announcing(f, p) = others
      BY <1>3, <1>5, <2>2
    <3>2. Signals(f, p) = n
      BY <3>1 DEF Signals
    <3> QED BY <1>5, <2>2, <3>2
  <2> QED BY <2>1, <2>2
<1> HIDE DEF n
<1> QED BY <1>5, <1>6, <1>7 DEF after

LEMMA BoundsMove ==
  ASSUME NEW a \in Nat, NEW b \in Nat, NEW c \in Nat, NEW d \in Nat, b - a <= d - c, c <= d
  PROVE  /\ a <= c => b <= d
         /\ \A k \in Nat : k + a <= 2 * c => k + b <= 2 * d
  OBVIOUS

\* A step of a worker after which no more signals than orders are new.
LEMMA RatingStep ==
  ASSUME RatingInv, NEW w \in Workers, NEW job, work' = [work EXCEPT ![w] = job],
         stars' = [o \in RatedOrders |-> stars'[o]],
         IsFiniteSet(ever'), \A o \in RatedOrders : stars'[o] # None => o \in ever',
         count' \in [Parties -> Nat],
         job.op = "rate" =>
           /\ job.order \in RatedOrders /\ job.count \in Nat
           /\ job.count + Signals(work', PartyOf(job.order)) <= 2 * RatedOnce(ever', PartyOf(job.order)),
         job.op = "signal" => job.party \in Parties /\ job.created \in BOOLEAN,
         \A p \in Parties :
           /\ count'[p] + Signals(work', p) <= 2 * RatedOnce(ever', p)
           /\ Signals(work', p) - Signals(work, p) <= RatedOnce(ever', p) - RatedOnce(ever, p)
           /\ RatedOnce(ever, p) <= RatedOnce(ever', p)
  PROVE  RatingInv'
<1>1. /\ DOMAIN work' = Workers /\ work' = [v \in Workers |-> work'[v]]
      /\ work'[w] = job /\ \A v \in Workers : v # w => work'[v] = work[v]
  BY DEF RatingInv, RatingTypes
<1>2. RatingTypes'
  BY <1>1 DEF RatingTypes
<1>3. RatingWork'
  <2>1. ASSUME NEW v \in Workers, Doing(v, "rate")'
        PROVE  work'[v].order \in RatedOrders /\ work'[v].count \in Nat
    BY <1>1, <2>1 DEF RatingInv, RatingWork, Doing
  <2>2. ASSUME NEW v \in Workers, Doing(v, "signal")'
        PROVE  work'[v].party \in Parties /\ work'[v].created \in BOOLEAN
    BY <1>1, <2>2 DEF RatingInv, RatingWork, Doing
  <2> QED BY <2>1, <2>2 DEF RatingWork
<1>4. ASSUME NEW p \in Parties
      PROVE  /\ Signals(work', p) <= RatedOnce(ever', p)
             /\ \A v \in Workers : Doing(v, "rate")' /\ PartyOf(work'[v].order) = p =>
                  work'[v].count + Signals(work', p) <= 2 * RatedOnce(ever', p)
  <2>1. /\ Signals(work, p) \in Nat /\ Signals(work', p) \in Nat
        /\ RatedOnce(ever, p) \in Nat /\ RatedOnce(ever', p) \in Nat
    BY SignalsType, RatedOnceType DEF RatingInv, RatingTypes
  <2>2. Signals(work, p) <= RatedOnce(ever, p)
    BY DEF RatingInv, CountsBounded
  <2>4. /\ Signals(work', p) <= RatedOnce(ever', p)
        /\ \A k \in Nat : k + Signals(work, p) <= 2 * RatedOnce(ever, p) =>
             k + Signals(work', p) <= 2 * RatedOnce(ever', p)
    BY <2>1, <2>2, BoundsMove
  <2>3. ASSUME NEW v \in Workers, Doing(v, "rate")', PartyOf(work'[v].order) = p
        PROVE  work'[v].count + Signals(work', p) <= 2 * RatedOnce(ever', p)
    <3>1. CASE v = w
      BY <1>1, <2>3, <3>1 DEF Doing
    <3>2. CASE v # w
      <4>1. work'[v] = work[v] /\ Doing(v, "rate")
        BY <1>1, <2>3, <3>2 DEF Doing
      <4>2. work[v].count + Signals(work, p) <= 2 * RatedOnce(ever, p) /\ work[v].count \in Nat
        BY <2>3, <4>1 DEF RatingInv, CountsBounded, RatingWork
      <4> QED BY <2>4, <4>1, <4>2
    <3> QED BY <3>1, <3>2
  <2> QED BY <2>3, <2>4
<1>5. CountsBounded'
  BY <1>4 DEF CountsBounded
<1> QED BY <1>2, <1>3, <1>5 DEF RatingInv

LEMMA IdleRatings == Idle.op \notin {"rate", "signal"}
  BY DEF Idle

-----------------------------------------------------------------------------
LEMMA InitRatings == RequestsInit /\ RatingsInit => RatingInv
<1> SUFFICES ASSUME RequestsInit, RatingsInit PROVE RatingInv
  OBVIOUS
<1>1. work = [w \in Workers |-> Idle] /\ \A w \in Workers : work[w].op \notin {"rate", "signal"}
  BY IdleRatings DEF RequestsInit
<1>2. /\ stars = [o \in RatedOrders |-> None] /\ ever = {} /\ IsFiniteSet({})
      /\ count = [p \in Parties |-> 0]
  BY FS_EmptySet DEF RatingsInit
<1>3. RatingTypes
  BY <1>1, <1>2 DEF RatingTypes
<1>4. RatingWork
  BY <1>1 DEF RatingWork, Doing
<1>5. ASSUME NEW p \in Parties PROVE Signals(work, p) = 0 /\ RatedOnce(ever, p) = 0
  <2>1. Announcing(work, p) = {}
    BY <1>1 DEF Announcing, Brings
  <2>2. ever \cap Rated[p] = {}
    BY <1>2
  <2> QED BY <2>1, <2>2, FS_EmptySet DEF Signals, RatedOnce
<1>6. CountsBounded
  <2> SUFFICES ASSUME NEW p \in Parties
               PROVE  /\ count[p] + Signals(work, p) <= 2 * RatedOnce(ever, p)
                      /\ Signals(work, p) <= RatedOnce(ever, p)
                      /\ \A w \in Workers : ~Doing(w, "rate")
    BY DEF CountsBounded
  <2> QED BY <1>1, <1>2, <1>5 DEF Doing
<1> QED BY <1>3, <1>4, <1>6 DEF RatingInv

LEMMA SubmitReadsKeeps ==
  ASSUME RatingInv, NEW w \in Workers, NEW o \in RatedOrders, NEW n \in Stars, SubmitReads(w, o, n)
  PROVE  RatingInv'
<1> DEFINE job == [op |-> "rate", order |-> o, stars |-> n,
                   sum |-> sum[PartyOf(o)], count |-> count[PartyOf(o)]]
<1>1. /\ work' = [work EXCEPT ![w] = job] /\ work[w] = Idle
      /\ stars' = stars /\ ever' = ever /\ count' = count
  BY DEF SubmitReads, Starts, Free, RatingsVars
<1>2. job.op = "rate" /\ job.order = o /\ job.count = count[PartyOf(o)]
  OBVIOUS
<1> HIDE DEF job
<1>3. \A p : Signals(work', p) = Signals(work, p) /\ Signals(work, p) \in Nat
  <2> TAKE p
  <2>1. ~Brings(work[w], p) /\ ~Brings(job, p)
    BY <1>1, <1>2, IdleRatings DEF Brings
  <2>2. Signals(work, p) \in Nat
    BY SignalsType
  <2> QED BY <1>1, <2>1, <2>2, SignalsMove DEF RatingInv, RatingTypes
<1>4. PartyOf(o) \in Parties
  BY PartyOfOrder
<1>5. \A p \in Parties : RatedOnce(ever, p) \in Nat /\ count[p] \in Nat
  BY RatedOnceType DEF RatingInv, RatingTypes
<1>6. \A p \in Parties : count[p] + Signals(work, p) <= 2 * RatedOnce(ever, p)
  BY DEF RatingInv, CountsBounded
<1>7. \A p \in Parties :
        /\ count'[p] + Signals(work', p) <= 2 * RatedOnce(ever', p)
        /\ Signals(work', p) - Signals(work, p) <= RatedOnce(ever', p) - RatedOnce(ever, p)
        /\ RatedOnce(ever, p) <= RatedOnce(ever', p)
  <2> SUFFICES ASSUME NEW p \in Parties
               PROVE  /\ count'[p] + Signals(work', p) <= 2 * RatedOnce(ever', p)
                      /\ Signals(work', p) - Signals(work, p) <= RatedOnce(ever', p) - RatedOnce(ever, p)
                      /\ RatedOnce(ever, p) <= RatedOnce(ever', p)
    OBVIOUS
  <2>1. Signals(work', p) = Signals(work, p) /\ RatedOnce(ever', p) = RatedOnce(ever, p) /\ count' = count
    BY <1>1, <1>3
  <2>2. /\ Signals(work, p) \in Nat /\ RatedOnce(ever, p) \in Nat
        /\ count[p] + Signals(work, p) <= 2 * RatedOnce(ever, p)
    BY <1>3, <1>5, <1>6
  <2> QED BY <2>1, <2>2
<1>8. job.count \in Nat /\ job.count + Signals(work', PartyOf(job.order)) <= 2 * RatedOnce(ever', PartyOf(job.order))
  BY <1>1, <1>2, <1>3, <1>4, <1>5, <1>6
<1>9. /\ stars' = [x \in RatedOrders |-> stars'[x]] /\ IsFiniteSet(ever') /\ count' \in [Parties -> Nat]
      /\ \A x \in RatedOrders : stars'[x] # None => x \in ever'
  BY <1>1 DEF RatingInv, RatingTypes
<1> QED BY <1>1, <1>2, <1>7, <1>8, <1>9, RatingStep

\* A rating is new when its order never had one, so that its signal comes
\* with an order.
LEMMA SubmitSavesKeeps ==
  ASSUME RatingInv, NEW w \in Workers, SubmitSaves(w)
  PROVE  RatingInv'
<1> DEFINE j == work[w]
           o == work[w].order
           q == PartyOf(o)
           new == stars[o] = None
           job == [op |-> "signal", party |-> q, stars |-> j.stars, created |-> new]
<1>1. /\ o \in RatedOrders /\ j.op = "rate" /\ j.count \in Nat
      /\ q \in Parties /\ o \in Rated[q]
  BY PartyOfOrder DEF SubmitSaves, Doing, RatingInv, RatingWork
<1>2. /\ work' = [work EXCEPT ![w] = job] /\ ever' = ever \cup {o}
      /\ stars' = [stars EXCEPT ![o] = j.stars]
      /\ count' = [count EXCEPT ![q] = j.count + (IF new THEN 1 ELSE 0)]
  BY DEF SubmitSaves, Starts
<1>3. new => o \notin ever
  BY DEF SubmitSaves, Gone
<1>4. ~new => o \in ever
  BY <1>1 DEF RatingInv, RatingTypes
<1>5. job.op = "signal" /\ job.party = q /\ job.created = new /\ new \in BOOLEAN
  OBVIOUS
<1> HIDE DEF job
<1>6. stars' = [x \in RatedOrders |-> stars'[x]] /\ count' \in [Parties -> Nat]
  BY <1>1, <1>2 DEF RatingInv, RatingTypes
<1>7. IsFiniteSet(ever') /\ \A x \in RatedOrders : stars'[x] # None => x \in ever'
  BY <1>1, <1>2, FS_AddElement DEF RatingInv, RatingTypes
<1>8. \A p \in Parties :
        /\ Signals(work, p) \in Nat /\ RatedOnce(ever, p) \in Nat
        /\ Signals(work', p) = Signals(work, p) + (IF new /\ p = q THEN 1 ELSE 0)
  <2> TAKE p \in Parties
  <2>1. ~Brings(work[w], p)
    BY <1>1 DEF Brings
  <2>2. Brings(job, p) <=> new /\ p = q
    BY <1>5 DEF Brings
  <2>3. Signals(work, p) \in Nat /\ RatedOnce(ever, p) \in Nat
    BY SignalsType, RatedOnceType DEF RatingInv, RatingTypes
  <2>4. Signals(work', p) = Signals(work, p)
           - (IF Brings(work[w], p) THEN 1 ELSE 0) + (IF Brings(job, p) THEN 1 ELSE 0)
    BY <1>2, SignalsMove DEF RatingInv, RatingTypes
  <2>5. CASE new /\ p = q
    BY <2>1, <2>2, <2>3, <2>4, <2>5
  <2>6. CASE ~(new /\ p = q)
    BY <2>1, <2>2, <2>3, <2>4, <2>6
  <2> QED BY <2>3, <2>5, <2>6
<1>9. \A p \in Parties :
        /\ RatedOnce(ever, p) <= RatedOnce(ever', p)
        /\ new /\ p = q => RatedOnce(ever', p) = RatedOnce(ever, p) + 1
  <2> TAKE p \in Parties
  <2> DEFINE mine == ever \cap Rated[p]
  <2>1. IsFiniteSet(mine) /\ RatedOnce(ever, p) \in Nat
    BY RatedOnceType DEF RatingInv, RatingTypes
  <2>2. CASE o \notin mine /\ o \in Rated[p]
    <3>1. ever' \cap Rated[p] = mine \cup {o}
      BY <1>2, <2>2
    <3>2. RatedOnce(ever', p) = RatedOnce(ever, p) + 1
      BY <2>1, <2>2, <3>1, FS_AddElement DEF RatedOnce
    <3> QED BY <2>1, <3>2
  <2>3. CASE o \in mine \/ o \notin Rated[p]
    <3>1. ever' \cap Rated[p] = mine
      BY <1>2, <2>3
    <3>2. RatedOnce(ever', p) = RatedOnce(ever, p)
      BY <3>1 DEF RatedOnce
    <3> QED BY <1>1, <1>3, <2>1, <2>3, <3>2
  <2> QED BY <2>2, <2>3
<1>10. j.count + Signals(work, q) <= 2 * RatedOnce(ever, q)
  BY <1>1 DEF RatingInv, CountsBounded, Doing
<1>11. \A p \in Parties : count[p] + Signals(work, p) <= 2 * RatedOnce(ever, p) /\ count[p] \in Nat
  BY DEF RatingInv, CountsBounded, RatingTypes
<1>12. \A p \in Parties : RatedOnce(ever', p) \in Nat
  BY <1>7, RatedOnceType
<1>13. ASSUME NEW p \in Parties
       PROVE  /\ count'[p] + Signals(work', p) <= 2 * RatedOnce(ever', p)
              /\ Signals(work', p) - Signals(work, p) <= RatedOnce(ever', p) - RatedOnce(ever, p)
              /\ RatedOnce(ever, p) <= RatedOnce(ever', p)
  <2>1. CASE p # q
    <3>1. count'[p] = count[p] /\ Signals(work', p) = Signals(work, p)
      BY <1>2, <1>8, <2>1 DEF RatingInv, RatingTypes
    <3> QED BY <1>8, <1>9, <1>11, <1>12, <3>1
  <2>2. CASE p = q /\ new
    <3>1. count'[p] = j.count + 1 /\ Signals(work', p) = Signals(work, p) + 1
      BY <1>2, <1>8, <2>2 DEF RatingInv, RatingTypes
    <3>2. RatedOnce(ever', p) = RatedOnce(ever, p) + 1
      BY <1>9, <2>2
    <3>3. Signals(work, p) \in Nat /\ RatedOnce(ever, p) \in Nat
      BY <1>8
    <3> QED BY <1>1, <1>10, <2>2, <3>1, <3>2, <3>3
  <2>3. CASE p = q /\ ~new
    <3>1. count'[p] = j.count /\ Signals(work', p) = Signals(work, p)
      BY <1>1, <1>2, <1>8, <2>3 DEF RatingInv, RatingTypes
    <3>2. Signals(work, p) \in Nat /\ RatedOnce(ever, p) \in Nat /\ RatedOnce(ever', p) \in Nat
      BY <1>8, <1>12
    <3>3. RatedOnce(ever, p) <= RatedOnce(ever', p)
      BY <1>9
    <3> QED BY <1>1, <1>10, <2>3, <3>1, <3>2, <3>3
  <2> QED BY <2>1, <2>2, <2>3
<1>14. /\ job.op # "rate"
       /\ job.op = "signal" => job.party \in Parties /\ job.created \in BOOLEAN
  BY <1>1, <1>5
<1> HIDE DEF q, new, o, j
<1> QED BY <1>2, <1>6, <1>7, <1>13, <1>14, RatingStep

LEMMA SignalAppliesKeeps ==
  ASSUME RatingInv, NEW w \in Workers, SignalApplies(w)
  PROVE  RatingInv'
<1> DEFINE j == work[w]
           q == work[w].party
           once == Once(j.created)
<1>1. q \in Parties /\ j.op = "signal" /\ j.created \in BOOLEAN
  BY DEF SignalApplies, Doing, RatingInv, RatingWork
<1>2. /\ work' = [work EXCEPT ![w] = Idle] /\ stars' = stars /\ ever' = ever
      /\ count' = [count EXCEPT ![q] = @ + once]
  BY DEF SignalApplies, Ends
<1>3. once = IF j.created THEN 1 ELSE 0
  BY DEF Once
<1>4. \A p \in Parties :
        /\ Signals(work, p) \in Nat /\ RatedOnce(ever, p) \in Nat /\ count[p] \in Nat
        /\ Signals(work', p) = Signals(work, p) - (IF j.created /\ p = q THEN 1 ELSE 0)
        /\ Signals(work', p) \in Nat
  <2> TAKE p \in Parties
  <2>1. ~Brings(Idle, p) /\ (Brings(work[w], p) <=> j.created /\ p = q)
    BY <1>1, IdleRatings DEF Brings
  <2>2. Signals(work, p) \in Nat /\ RatedOnce(ever, p) \in Nat /\ Signals(work', p) \in Nat /\ count[p] \in Nat
    BY SignalsType, RatedOnceType DEF RatingInv, RatingTypes
  <2>3. Signals(work', p) = Signals(work, p)
           - (IF Brings(work[w], p) THEN 1 ELSE 0) + (IF Brings(Idle, p) THEN 1 ELSE 0)
    BY <1>2, SignalsMove DEF RatingInv, RatingTypes
  <2>4. CASE j.created /\ p = q
    BY <2>1, <2>2, <2>3, <2>4
  <2>5. CASE ~(j.created /\ p = q)
    BY <2>1, <2>2, <2>3, <2>5
  <2> QED BY <2>2, <2>4, <2>5
<1>5. \A p \in Parties : count[p] + Signals(work, p) <= 2 * RatedOnce(ever, p)
  BY DEF RatingInv, CountsBounded
<1>6. ASSUME NEW p \in Parties
      PROVE  /\ count'[p] + Signals(work', p) <= 2 * RatedOnce(ever', p)
             /\ Signals(work', p) - Signals(work, p) <= RatedOnce(ever', p) - RatedOnce(ever, p)
             /\ RatedOnce(ever, p) <= RatedOnce(ever', p)
  <2>1. RatedOnce(ever', p) = RatedOnce(ever, p)
    BY <1>2
  <2>2. count'[p] = count[p] + (IF p = q THEN once ELSE 0) /\ once \in Nat
    BY <1>1, <1>2, <1>3, <1>4 DEF RatingInv, RatingTypes
  <2>3. CASE p = q /\ j.created
    BY <1>3, <1>4, <1>5, <2>1, <2>2, <2>3
  <2>4. CASE p = q /\ ~j.created
    BY <1>3, <1>4, <1>5, <2>1, <2>2, <2>4
  <2>5. CASE p # q
    BY <1>3, <1>4, <1>5, <2>1, <2>2, <2>5
  <2> QED BY <2>3, <2>4, <2>5
<1>7. count' \in [Parties -> Nat]
  BY <1>1, <1>2, <1>3 DEF RatingInv, RatingTypes
<1>8. /\ stars' = [x \in RatedOrders |-> stars'[x]] /\ IsFiniteSet(ever')
      /\ \A x \in RatedOrders : stars'[x] # None => x \in ever'
  BY <1>2 DEF RatingInv, RatingTypes
<1> HIDE DEF j, q, once
<1> QED BY <1>2, <1>6, <1>7, <1>8, IdleRatings, RatingStep

\* Steps of no worker: the counters do not grow beyond the orders there are.
LEMMA RatingAside ==
  ASSUME RatingInv, work' = work, ever' = ever, stars' = [x \in RatedOrders |-> stars'[x]],
         \A x \in RatedOrders : stars'[x] # None => x \in ever,
         count' \in [Parties -> Nat],
         \A p \in Parties : count'[p] <= count[p] \/ count'[p] <= RatedOnce(ever, p)
  PROVE  RatingInv'
<1>1. RatingTypes' /\ RatingWork'
  BY DEF RatingInv, RatingTypes, RatingWork, Doing
<1>2. ASSUME NEW p \in Parties
      PROVE  /\ count'[p] + Signals(work', p) <= 2 * RatedOnce(ever', p)
             /\ Signals(work', p) <= RatedOnce(ever', p)
             /\ \A v \in Workers : Doing(v, "rate")' /\ PartyOf(work'[v].order) = p =>
                  work'[v].count + Signals(work', p) <= 2 * RatedOnce(ever', p)
  <2>1. /\ Signals(work, p) \in Nat /\ RatedOnce(ever, p) \in Nat /\ count[p] \in Nat /\ count'[p] \in Nat
        /\ count[p] + Signals(work, p) <= 2 * RatedOnce(ever, p) /\ Signals(work, p) <= RatedOnce(ever, p)
    BY SignalsType, RatedOnceType DEF RatingInv, RatingTypes, CountsBounded
  <2>2. count'[p] + Signals(work, p) <= 2 * RatedOnce(ever, p)
    BY <2>1
  <2> QED BY <2>1, <2>2 DEF RatingInv, CountsBounded, Doing
<1>3. CountsBounded'
  BY <1>2 DEF CountsBounded
<1> QED BY <1>1, <1>3 DEF RatingInv

LEMMA RatingDeletedKeeps ==
  ASSUME RatingInv, NEW o \in RatedOrders, RatingDeleted(o)
  PROVE  RatingInv'
<1> DEFINE q == PartyOf(o)
<1>1. q \in Parties /\ count[q] \in Nat
  BY PartyOfOrder DEF RatingInv, RatingTypes
<1>2. Left(count[q]) \in Nat /\ Left(count[q]) <= count[q]
  BY <1>1 DEF Left
<1>3. /\ work' = work /\ ever' = ever /\ stars' = [stars EXCEPT ![o] = None]
      /\ count' = [count EXCEPT ![q] = Left(count[q])]
  BY DEF RatingDeleted
<1>4. count' \in [Parties -> Nat] /\ \A p \in Parties : count'[p] <= count[p]
  BY <1>1, <1>2, <1>3 DEF RatingInv, RatingTypes
<1>5. /\ stars' = [x \in RatedOrders |-> stars'[x]]
      /\ \A x \in RatedOrders : stars'[x] # None => x \in ever
  BY <1>3 DEF RatingInv, RatingTypes
<1> QED BY <1>3, <1>4, <1>5, RatingAside

LEMMA RecountedKeeps ==
  ASSUME RatingInv, NEW ps, Recounted(ps)
  PROVE  RatingInv'
<1> DEFINE there(p) == {o \in Rated[p] : stars[o] # None}
<1>1. /\ work' = work /\ ever' = ever /\ stars' = stars
      /\ count' = [p \in Parties |-> IF p \in ps THEN Cardinality(there(p)) ELSE count[p]]
  BY DEF Recounted
<1>2. ASSUME NEW p \in Parties
      PROVE  Cardinality(there(p)) \in Nat /\ Cardinality(there(p)) <= RatedOnce(ever, p)
  <2>1. there(p) \subseteq ever \cap Rated[p]
    BY DEF RatingInv, RatingTypes, RatedOrders
  <2>2. IsFiniteSet(ever \cap Rated[p])
    BY RatedOnceType DEF RatingInv, RatingTypes
  <2> HIDE DEF there
  <2>3. IsFiniteSet(there(p)) /\ Cardinality(there(p)) <= Cardinality(ever \cap Rated[p])
    BY <2>1, <2>2, FS_Subset
  <2> QED BY <2>3, FS_CardinalityType DEF RatedOnce
<1> HIDE DEF there
<1>3. /\ count' \in [Parties -> Nat]
      /\ \A p \in Parties : count'[p] <= count[p] \/ count'[p] <= RatedOnce(ever, p)
  BY <1>1, <1>2 DEF RatingInv, RatingTypes
<1>4. /\ stars' = [x \in RatedOrders |-> stars'[x]]
      /\ \A x \in RatedOrders : stars'[x] # None => x \in ever
  BY <1>1 DEF RatingInv, RatingTypes
<1> QED BY <1>1, <1>3, <1>4, RatingAside

LEMMA RaterDiesKeeps ==
  ASSUME RatingInv, NEW w \in Workers, Dies(w), UNCHANGED RatingsVars
  PROVE  RatingInv'
<1>1. /\ work' = [work EXCEPT ![w] = Idle] /\ stars' = stars /\ ever' = ever /\ count' = count
  BY DEF Dies, Ends, RatingsVars
<1>2. ASSUME NEW p \in Parties
      PROVE  /\ count'[p] + Signals(work', p) <= 2 * RatedOnce(ever', p)
             /\ Signals(work', p) - Signals(work, p) <= RatedOnce(ever', p) - RatedOnce(ever, p)
             /\ RatedOnce(ever, p) <= RatedOnce(ever', p)
  <2>1. /\ Signals(work, p) \in Nat /\ RatedOnce(ever, p) \in Nat /\ Signals(work', p) \in Nat /\ count[p] \in Nat
        /\ count[p] + Signals(work, p) <= 2 * RatedOnce(ever, p)
    BY SignalsType, RatedOnceType DEF RatingInv, RatingTypes, CountsBounded
  <2>2. ~Brings(Idle, p)
    BY IdleRatings DEF Brings
  <2>3. Signals(work', p) = Signals(work, p)
           - (IF Brings(work[w], p) THEN 1 ELSE 0) + (IF Brings(Idle, p) THEN 1 ELSE 0)
    BY <1>1, SignalsMove DEF RatingInv, RatingTypes
  <2>4. Signals(work', p) <= Signals(work, p)
    <3>1. CASE Brings(work[w], p)
      BY <2>1, <2>2, <2>3, <3>1
    <3>2. CASE ~Brings(work[w], p)
      BY <2>1, <2>2, <2>3, <3>2
    <3> QED BY <3>1, <3>2
  <2>5. count'[p] = count[p] /\ RatedOnce(ever', p) = RatedOnce(ever, p)
    BY <1>1
  <2> QED BY <2>1, <2>4, <2>5
<1>3. /\ stars' = [x \in RatedOrders |-> stars'[x]] /\ IsFiniteSet(ever') /\ count' \in [Parties -> Nat]
      /\ \A x \in RatedOrders : stars'[x] # None => x \in ever'
  BY <1>1 DEF RatingInv, RatingTypes
<1> QED BY <1>1, <1>2, <1>3, IdleRatings, RatingStep

LEMMA NextRatings == RatingInv /\ [RatingsNext]_RatingsState => RatingInv'
<1> SUFFICES ASSUME RatingInv, [RatingsNext]_RatingsState PROVE RatingInv'
  OBVIOUS
<1>1. ASSUME NEW w \in Workers, NEW o \in RatedOrders, NEW n \in Stars, SubmitReads(w, o, n)
      PROVE  RatingInv'
  BY <1>1, SubmitReadsKeeps
<1>2. ASSUME NEW w \in Workers, SubmitSaves(w) PROVE RatingInv'
  BY <1>2, SubmitSavesKeeps
<1>3. ASSUME NEW w \in Workers, SignalApplies(w) PROVE RatingInv'
  BY <1>3, SignalAppliesKeeps
<1>4. ASSUME NEW w \in Workers, Dies(w), UNCHANGED RatingsVars PROVE RatingInv'
  BY <1>4, RaterDiesKeeps
<1>5. ASSUME NEW o \in RatedOrders, RatingDeleted(o) PROVE RatingInv'
  BY <1>5, RatingDeletedKeeps
<1>6. ASSUME NEW ps \in {Parties \ Branches, Branches}, Recounted(ps) PROVE RatingInv'
  BY <1>6, RecountedKeeps
<1>7. CASE UNCHANGED RatingsState
  <2>1. /\ work' = work /\ ever' = ever /\ stars' = stars /\ count' = count
    BY <1>7 DEF RatingsState, RatingsVars
  <2>2. /\ stars' = [x \in RatedOrders |-> stars'[x]] /\ count' \in [Parties -> Nat]
        /\ \A x \in RatedOrders : stars'[x] # None => x \in ever
        /\ \A p \in Parties : count'[p] <= count[p]
    BY <2>1 DEF RatingInv, RatingTypes
  <2> QED BY <2>1, <2>2, RatingAside
<1> QED BY <1>1, <1>2, <1>3, <1>4, <1>5, <1>6, <1>7 DEF RatingsNext

\* An order counts at most twice for its party, its pending signal included.
THEOREM RatingsCountTwice == RatingsSpec => []CountedAtMostTwice
<1>1. RequestsInit /\ RatingsInit => RatingInv
  BY InitRatings
<1>2. RatingInv /\ [RatingsNext]_RatingsState => RatingInv'
  BY NextRatings
<1>3. RatingInv => CountedAtMostTwice
  <2> SUFFICES ASSUME RatingInv, NEW p \in Parties
               PROVE  count[p] + Cardinality({w \in Workers : Doing(w, "signal") /\ work[w].party = p
                                                                /\ work[w].created})
                        <= 2 * Cardinality(ever \cap Rated[p])
    BY DEF CountedAtMostTwice
  <2>1. {w \in Workers : Doing(w, "signal") /\ work[w].party = p /\ work[w].created} = Announcing(work, p)
    BY DEF Announcing, Brings, Doing
  <2> QED BY <2>1 DEF RatingInv, CountsBounded, Signals, RatedOnce
<1> QED BY <1>1, <1>2, <1>3, PTL DEF RatingsSpec

-----------------------------------------------------------------------------
(* Subscriptions: however late or often Paystack's events come, a user has *)
(* one active subscription; and a user with cards lacks a primary one only *)
(* while it changes or after a change that died.                           *)
SubscriptionsState == <<work, SubscriptionsVars>>
SubscriptionsSpec ==
  RequestsInit /\ SubscriptionsInit({}) /\ [][SubscriptionsNext]_SubscriptionsState

PlanRow == [remote : BOOLEAN, local : BOOLEAN, open : BOOLEAN, features : SUBSET Features]
SubscriptionEvents == {"create", "disable"}

SubscriptionTypes ==
  /\ DOMAIN work = Workers /\ work = [w \in Workers |-> work[w]]
  /\ remote = [c \in Codes |-> remote[c]] /\ sub = [c \in Codes |-> sub[c]]
  /\ card = [c \in Cards |-> card[c]]
  /\ plan \in PlanRow

\* A worker that saves a plan has it at Paystack; a card that was not its
\* holder's first has company, as cards are never removed.
SubscriptionWork ==
  \A w \in Workers :
    /\ Doing(w, "plan") => plan.remote
    /\ Doing(w, "card") =>
         /\ work[w].event.id \in Cards
         /\ work[w].first \/ CardsOf(Holder[work[w].event.id]) # {}
    /\ Doing(w, "primary") => work[w].card \in Cards

PlanIsThere == (plan.local => plan.remote) /\ \A c \in Codes : remote[c] # "none" => plan.remote

\* An event is about a subscription that was created, or a card.
EventsTell ==
  \A e \in events :
    /\ e.type \in SubscriptionEvents => e.id \in Codes /\ remote[e.id] # "none"
    /\ e.type = "card" => e.id \in Cards

SubscriptionsKnown ==
  /\ \A c \in Codes : sub[c] # "none" => remote[c] # "none"
  /\ \A c, d \in Codes : sub[c] = "active" /\ sub[d] = "active" /\ Holder[c] = Holder[d] => c = d

PayingInv == PlanIsThere /\ EventsTell /\ SubscriptionsKnown
SubscriptionInv == SubscriptionTypes /\ SubscriptionWork /\ PayingInv /\ PrimaryKept

LEMMA InitSubscriptions ==
  ASSUME NEW saved, RequestsInit, SubscriptionsInit(saved)
  PROVE  SubscriptionInv
<1>1. work = [w \in Workers |-> Idle] /\ \A w \in Workers : work[w].op \notin {"plan", "card", "primary"}
  BY DEF RequestsInit, Idle
<1>2. /\ remote = [c \in Codes |-> "none"] /\ sub = [c \in Codes |-> "none"] /\ events = {}
      /\ card = [c \in Cards |-> IF c \in saved THEN "primary" ELSE "none"]
      /\ plan = [remote |-> FALSE, local |-> FALSE, open |-> FALSE, features |-> {}]
  BY DEF SubscriptionsInit
<1>3. SubscriptionTypes
  BY <1>1, <1>2 DEF SubscriptionTypes, PlanRow
<1>4. SubscriptionWork
  BY <1>1 DEF SubscriptionWork, Doing
<1>5. PayingInv
  BY <1>2 DEF PayingInv, PlanIsThere, EventsTell, SubscriptionsKnown
<1>6. PrimaryKept
  BY <1>2 DEF PrimaryKept, CardsOf, PrimaryOf
<1> QED BY <1>3, <1>4, <1>5, <1>6 DEF SubscriptionInv

LEMMA IdlePayers == Idle.op \notin {"plan", "card", "primary"}
  BY DEF Idle

\* The cards stay, and no change of the primary card begins or ends.
LEMMA CardsStay ==
  ASSUME SubscriptionInv, UNCHANGED <<card, cut>>,
         \A w \in Workers : Doing(w, "primary") => Doing(w, "primary")' /\ work'[w] = work[w]
  PROVE  PrimaryKept'
<1> SUFFICES ASSUME NEW u \in Users, CardsOf(u)' # {}, PrimaryOf(u)' = {}
             PROVE  u \in cut' \/ \E w \in Workers : Doing(w, "primary")' /\ Holder[work'[w].card] = u
  BY DEF PrimaryKept
<1>1. CardsOf(u) # {} /\ PrimaryOf(u) = {}
  BY DEF CardsOf, PrimaryOf
<1> QED BY <1>1 DEF SubscriptionInv, PrimaryKept

\* A step about plans, subscriptions or events.
LEMMA SubscriptionStep ==
  ASSUME SubscriptionInv, UNCHANGED <<card, cut>>,
         DOMAIN work' = Workers /\ work' = [w \in Workers |-> work'[w]],
         \A w \in Workers :
           Doing(w, "primary") \/ Doing(w, "primary")' \/ Doing(w, "card")' => work'[w] = work[w],
         \A w \in Workers : Doing(w, "plan")' => plan'.remote,
         remote' = [c \in Codes |-> remote'[c]], sub' = [c \in Codes |-> sub'[c]],
         plan' \in PlanRow, PayingInv'
  PROVE  SubscriptionInv'
<1>1. SubscriptionTypes'
  BY DEF SubscriptionInv, SubscriptionTypes
<1>2. SubscriptionWork'
  <2>1. ASSUME NEW w \in Workers, Doing(w, "card")'
        PROVE  (/\ work[w].event.id \in Cards
                /\ work[w].first \/ CardsOf(Holder[work[w].event.id]) # {})'
    <3>1. work'[w] = work[w] /\ Doing(w, "card") /\ card' = card
      BY <2>1 DEF Doing
    <3>2. /\ work[w].event.id \in Cards
          /\ work[w].first \/ CardsOf(Holder[work[w].event.id]) # {}
      BY <3>1 DEF SubscriptionInv, SubscriptionWork
    <3> QED BY <3>1, <3>2 DEF CardsOf
  <2>2. \A w \in Workers : Doing(w, "primary")' => work'[w].card \in Cards
    BY DEF SubscriptionInv, SubscriptionWork, Doing
  <2> QED BY <2>1, <2>2 DEF SubscriptionWork
<1>3. PrimaryKept'
  BY CardsStay DEF Doing
<1> QED BY <1>1, <1>2, <1>3 DEF SubscriptionInv

-----------------------------------------------------------------------------
\* A worker takes or leaves a job that is not about cards.
LEMMA PayerTurns ==
  ASSUME SubscriptionInv, NEW w \in Workers, NEW job, work' = [work EXCEPT ![w] = job],
         ~Doing(w, "primary"), job.op \notin {"card", "primary"},
         UNCHANGED <<card, cut>>,
         job.op = "plan" => plan'.remote, plan.remote => plan'.remote,
         remote' = [c \in Codes |-> remote'[c]], sub' = [c \in Codes |-> sub'[c]],
         plan' \in PlanRow, PayingInv'
  PROVE  SubscriptionInv'
<1>1. /\ DOMAIN work' = Workers /\ work' = [v \in Workers |-> work'[v]]
      /\ work'[w] = job /\ \A v \in Workers : v # w => work'[v] = work[v]
  BY DEF SubscriptionInv, SubscriptionTypes
<1>2. \A v \in Workers :
        Doing(v, "primary") \/ Doing(v, "primary")' \/ Doing(v, "card")' => work'[v] = work[v]
  BY <1>1 DEF Doing
<1>3. \A v \in Workers : Doing(v, "plan")' => plan'.remote
  BY <1>1 DEF SubscriptionInv, SubscriptionWork, Doing
<1> QED BY <1>1, <1>2, <1>3, SubscriptionStep

LEMMA PlansKeep ==
  ASSUME SubscriptionInv, PlansNext
  PROVE  SubscriptionInv'
<1>1. /\ remote' = remote /\ sub' = sub /\ events' = events /\ card' = card /\ cut' = cut
  BY DEF PlansNext, PlanCreate, FeaturesRead, FeaturesCache, PlanSave, PlanUpdate, PlanDisable,
         FeaturesExpire, SubscriptionsVars
<1>2. /\ remote' = [c \in Codes |-> remote'[c]] /\ sub' = [c \in Codes |-> sub'[c]]
      /\ plan \in PlanRow
  BY <1>1 DEF SubscriptionInv, SubscriptionTypes
<1>3. ASSUME plan.remote => plan'.remote, plan'.local => plan'.remote
      PROVE  PayingInv'
  BY <1>1, <1>3 DEF SubscriptionInv, PayingInv, PlanIsThere, EventsTell, SubscriptionsKnown
<1>4. ASSUME NEW w \in Workers, PlanCreate(w) PROVE SubscriptionInv'
  <2> DEFINE job == [op |-> "plan"]
  <2>1. /\ work' = [work EXCEPT ![w] = job] /\ ~Doing(w, "primary") /\ job.op = "plan"
        /\ plan' = [plan EXCEPT !.remote = TRUE]
    BY <1>4, IdlePayers DEF PlanCreate, Starts, Free, Doing
  <2>2. plan' \in PlanRow /\ plan'.remote
    BY <1>2, <2>1 DEF PlanRow
  <2> HIDE DEF job
  <2> QED BY <1>1, <1>2, <1>3, <2>1, <2>2, PayerTurns
<1>5. ASSUME NEW w \in Workers, FeaturesRead(w) PROVE SubscriptionInv'
  <2> DEFINE job == [op |-> "features", features |-> plan.features]
  <2>1. /\ work' = [work EXCEPT ![w] = job] /\ ~Doing(w, "primary") /\ job.op = "features"
        /\ plan' = plan
    BY <1>5, IdlePayers DEF FeaturesRead, Starts, Free, Doing, SubscriptionsVars
  <2>2. plan'.local => plan'.remote
    BY <2>1 DEF SubscriptionInv, PayingInv, PlanIsThere
  <2> HIDE DEF job
  <2> QED BY <1>1, <1>2, <1>3, <2>1, <2>2, PayerTurns
<1>6. ASSUME NEW w \in Workers, FeaturesCache(w) PROVE SubscriptionInv'
  <2>1. /\ work' = [work EXCEPT ![w] = Idle] /\ ~Doing(w, "primary") /\ plan' = plan
    BY <1>6 DEF FeaturesCache, Ends, Doing
  <2>2. plan'.local => plan'.remote
    BY <2>1 DEF SubscriptionInv, PayingInv, PlanIsThere
  <2> QED BY <1>1, <1>2, <1>3, <2>1, <2>2, IdlePayers, PayerTurns
<1>7. ASSUME NEW w \in Workers, NEW f \in SUBSET Features, PlanSave(w, f) PROVE SubscriptionInv'
  <2>1. /\ work' = [work EXCEPT ![w] = Idle] /\ ~Doing(w, "primary") /\ Doing(w, "plan")
        /\ plan' = [plan EXCEPT !.local = TRUE, !.open = TRUE, !.features = f]
    BY <1>7 DEF PlanSave, Ends, Doing
  <2>2. plan.remote
    BY <2>1 DEF SubscriptionInv, SubscriptionWork
  <2>3. plan' \in PlanRow /\ plan'.remote
    BY <1>2, <2>1, <2>2 DEF PlanRow
  <2> QED BY <1>1, <1>2, <1>3, <2>1, <2>3, IdlePayers, PayerTurns
<1>8. ASSUME UNCHANGED work, plan' \in PlanRow, plan'.remote = plan.remote, plan'.local = plan.local
      PROVE  SubscriptionInv'
  <2>1. PayingInv'
    BY <1>3, <1>8 DEF SubscriptionInv, PayingInv, PlanIsThere
  <2>2. /\ DOMAIN work' = Workers /\ work' = [w \in Workers |-> work'[w]]
        /\ \A w \in Workers : work'[w] = work[w]
    BY <1>8 DEF SubscriptionInv, SubscriptionTypes
  <2>3. \A w \in Workers : Doing(w, "plan")' => plan'.remote
    BY <1>8 DEF SubscriptionInv, SubscriptionWork, Doing
  <2> QED BY <1>1, <1>2, <1>8, <2>1, <2>2, <2>3, SubscriptionStep
<1>9. ASSUME NEW f \in SUBSET Features, PlanUpdate(f) PROVE SubscriptionInv'
  <2>1. plan' = [plan EXCEPT !.features = f] /\ work' = work
    BY <1>9 DEF PlanUpdate
  <2> QED BY <1>2, <1>8, <2>1 DEF PlanRow
<1>10. CASE PlanDisable
  <2>1. plan' = [plan EXCEPT !.open = FALSE] /\ work' = work
    BY <1>10 DEF PlanDisable
  <2> QED BY <1>2, <1>8, <2>1 DEF PlanRow
<1>11. CASE FeaturesExpire
  <2>1. plan' = plan /\ work' = work
    BY <1>11 DEF FeaturesExpire
  <2> QED BY <1>2, <1>8, <2>1
<1> QED BY <1>4, <1>5, <1>6, <1>7, <1>9, <1>10, <1>11 DEF PlansNext

\* Steps about subscriptions that are no worker's.
LEMMA PaystackTurns ==
  ASSUME SubscriptionInv, UNCHANGED <<work, card, cut, plan>>,
         remote' = [c \in Codes |-> remote'[c]], sub' = [c \in Codes |-> sub'[c]], PayingInv'
  PROVE  SubscriptionInv'
<1>1. /\ DOMAIN work' = Workers /\ work' = [w \in Workers |-> work'[w]]
      /\ (\A w \in Workers : work'[w] = work[w]) /\ plan' \in PlanRow
  BY DEF SubscriptionInv, SubscriptionTypes
<1>2. \A w \in Workers : Doing(w, "plan")' => plan'.remote
  BY DEF SubscriptionInv, SubscriptionWork, Doing
<1> QED BY <1>1, <1>2, SubscriptionStep

LEMMA SubscribeKeeps ==
  ASSUME SubscriptionInv, NEW c \in Codes, Subscribe(c)
  PROVE  SubscriptionInv'
<1>1. /\ remote' = [remote EXCEPT ![c] = "live"] /\ events' = events \cup {Event("create", c)}
      /\ plan.local /\ UNCHANGED <<work, sub, card, cut, plan>>
  BY DEF Subscribe
<1>2. /\ remote' = [d \in Codes |-> remote'[d]] /\ remote'[c] = "live"
      /\ \A d \in Codes : d # c => remote'[d] = remote[d]
      /\ sub' = [d \in Codes |-> sub'[d]]
  BY <1>1 DEF SubscriptionInv, SubscriptionTypes
<1>3. Event("create", c).type = "create" /\ Event("create", c).id = c
  BY DEF Event
<1>4. PlanIsThere'
  BY <1>1, <1>2 DEF SubscriptionInv, PayingInv, PlanIsThere
<1>5. EventsTell'
  BY <1>1, <1>2, <1>3 DEF SubscriptionInv, PayingInv, EventsTell, SubscriptionEvents
<1>6. SubscriptionsKnown'
  BY <1>1, <1>2 DEF SubscriptionInv, PayingInv, SubscriptionsKnown
<1> QED BY <1>1, <1>2, <1>4, <1>5, <1>6, PaystackTurns DEF PayingInv

\* A subscription that was there is disabled, here or at Paystack.
LEMMA DisablingKeeps ==
  ASSUME SubscriptionInv, NEW c \in Codes, remote[c] # "none",
         UNCHANGED <<work, card, cut, plan>>,
         sub' = sub \/ sub' = [sub EXCEPT ![c] = "inactive"],
         \/ remote' = remote /\ events' = events
         \/ remote' = [remote EXCEPT ![c] = "disabled"] /\ events' = events \cup {Event("disable", c)}
  PROVE  SubscriptionInv'
<1>1. /\ remote' = [d \in Codes |-> remote'[d]] /\ sub' = [d \in Codes |-> sub'[d]]
      /\ \A d \in Codes : remote'[d] # "none" <=> remote[d] # "none"
      /\ \A d \in Codes : sub'[d] = sub[d] \/ (d = c /\ sub'[d] = "inactive")
  BY DEF SubscriptionInv, SubscriptionTypes
<1>2. \A e \in events' : e \in events \/ (e.type = "disable" /\ e.id = c)
  BY DEF Event
<1>3. PlanIsThere'
  BY <1>1 DEF SubscriptionInv, PayingInv, PlanIsThere
<1>4. EventsTell'
  BY <1>1, <1>2 DEF SubscriptionInv, PayingInv, EventsTell, SubscriptionEvents
<1>5. SubscriptionsKnown'
  BY <1>1 DEF SubscriptionInv, PayingInv, SubscriptionsKnown
<1> QED BY <1>1, <1>3, <1>4, <1>5, PaystackTurns DEF PayingInv

LEMMA CancelSubscriptionKeeps ==
  ASSUME SubscriptionInv, NEW c \in Codes, NEW fails \in BOOLEAN, CancelSubscription(c, fails)
  PROVE  SubscriptionInv'
<1>1. remote[c] # "none"
  BY DEF CancelSubscription, SubscriptionInv, PayingInv, SubscriptionsKnown
<1> QED BY <1>1, DisablingKeeps DEF CancelSubscription

LEMMA PaystackDisablesKeeps ==
  ASSUME SubscriptionInv, NEW c \in Codes, PaystackDisables(c)
  PROVE  SubscriptionInv'
  BY DisablingKeeps DEF PaystackDisables

LEMMA EventAppliesKeeps ==
  ASSUME SubscriptionInv, NEW w \in Workers, NEW e \in events, EventApplies(w, e)
  PROVE  SubscriptionInv'
<1> DEFINE job == [op |-> "mark", event |-> e]
           c == e.id
<1>1. /\ work' = [work EXCEPT ![w] = job] /\ job.op = "mark" /\ ~Doing(w, "primary")
      /\ UNCHANGED <<remote, events, card, cut, plan>>
  BY IdlePayers DEF EventApplies, Starts, Free, Doing
<1>2. e.type \in SubscriptionEvents /\ c \in Codes /\ remote[c] # "none"
  BY DEF EventApplies, SubscriptionInv, PayingInv, EventsTell, SubscriptionEvents
<1>3. sub' = Created(c) \/ sub' = Disabled(c)
  BY DEF EventApplies
<1>4. sub = [d \in Codes |-> sub[d]]
  BY DEF SubscriptionInv, SubscriptionTypes
<1>5. /\ sub' = [d \in Codes |-> sub'[d]]
      /\ \A d \in Codes : d # c /\ sub'[d] # "none" => sub[d] # "none"
      /\ \A a, b \in Codes : sub'[a] = "active" /\ sub'[b] = "active" /\ Holder[a] = Holder[b] => a = b
  <2>1. \A a, b \in Codes : sub[a] = "active" /\ sub[b] = "active" /\ Holder[a] = Holder[b] => a = b
    BY DEF SubscriptionInv, PayingInv, SubscriptionsKnown
  <2>2. CASE sub' = Created(c)
    <3>1. \A d \in Codes : sub'[d] = IF d = c THEN "active"
                                     ELSE IF Holder[d] = Holder[c] /\ sub[d] = "active" THEN "inactive"
                                     ELSE sub[d]
      BY <2>2 DEF Created, ActiveOf
    <3>2. sub' = [d \in Codes |-> sub'[d]]
      BY <2>2 DEF Created
    <3> QED BY <1>2, <2>1, <3>1, <3>2
  <2>3. CASE sub' = Disabled(c)
    BY <1>2, <1>4, <2>1, <2>3 DEF Disabled
  <2> QED BY <1>3, <2>2, <2>3
<1>6. SubscriptionsKnown'
  BY <1>1, <1>2, <1>5 DEF SubscriptionInv, PayingInv, SubscriptionsKnown
<1>7. PlanIsThere' /\ EventsTell'
  BY <1>1 DEF SubscriptionInv, PayingInv, PlanIsThere, EventsTell
<1>8. /\ remote' = [d \in Codes |-> remote'[d]] /\ plan' \in PlanRow /\ (plan.remote => plan'.remote)
  BY <1>1 DEF SubscriptionInv, SubscriptionTypes
<1> HIDE DEF job, c
<1> QED BY <1>1, <1>5, <1>6, <1>7, <1>8, PayerTurns DEF PayingInv

\* Nothing about plans and subscriptions changes.
LEMMA PayingStays ==
  ASSUME SubscriptionInv, UNCHANGED <<remote, sub, plan>>,
         \A e \in events' : e \in events \/ (e.type = "card" /\ e.id \in Cards)
  PROVE  /\ PayingInv'
         /\ remote' = [d \in Codes |-> remote'[d]] /\ sub' = [d \in Codes |-> sub'[d]]
         /\ plan' \in PlanRow /\ (plan.remote => plan'.remote)
<1>1. PlanIsThere' /\ SubscriptionsKnown'
  BY DEF SubscriptionInv, PayingInv, PlanIsThere, SubscriptionsKnown
<1>2. EventsTell'
  BY DEF SubscriptionInv, PayingInv, EventsTell, SubscriptionEvents
<1>3. /\ remote' = [d \in Codes |-> remote'[d]] /\ sub' = [d \in Codes |-> sub'[d]]
      /\ plan' \in PlanRow
  BY DEF SubscriptionInv, SubscriptionTypes
<1> QED BY <1>1, <1>2, <1>3 DEF PayingInv

LEMMA EventMarkedKeeps ==
  ASSUME SubscriptionInv, NEW w \in Workers, EventMarked(w)
  PROVE  SubscriptionInv'
<1>1. /\ work' = [work EXCEPT ![w] = Idle] /\ ~Doing(w, "primary")
      /\ UNCHANGED <<remote, sub, events, card, cut, plan>>
  BY DEF EventMarked, Ends, Doing
<1> QED BY <1>1, PayingStays, IdlePayers, PayerTurns

LEMMA CardChargedKeeps ==
  ASSUME SubscriptionInv, NEW c \in Cards, CardCharged(c)
  PROVE  SubscriptionInv'
<1>1. /\ events' = events \cup {Event("card", c)}
      /\ UNCHANGED <<work, remote, sub, card, cut, plan>>
  BY DEF CardCharged
<1>2. \A e \in events' : e \in events \/ (e.type = "card" /\ e.id \in Cards)
  BY <1>1 DEF Event
<1>3. /\ PayingInv'
      /\ remote' = [d \in Codes |-> remote'[d]] /\ sub' = [d \in Codes |-> sub'[d]]
  BY <1>1, <1>2, PayingStays
<1> QED BY <1>1, <1>3, PaystackTurns

-----------------------------------------------------------------------------
\* A worker's step about cards: cards are added, none is removed.
LEMMA CardStep ==
  ASSUME SubscriptionInv, NEW w \in Workers, NEW job, work' = [work EXCEPT ![w] = job],
         UNCHANGED <<remote, sub, events, plan>>,
         job.op # "plan",
         card' = [d \in Cards |-> card'[d]],
         \A d \in Cards : card[d] # "none" => card'[d] # "none",
         job.op = "card" =>
           job.event.id \in Cards /\ (job.first \/ CardsOf(Holder[job.event.id]) # {}),
         job.op = "primary" => job.card \in Cards,
         PrimaryKept'
  PROVE  SubscriptionInv'
<1>1. /\ DOMAIN work' = Workers /\ work' = [v \in Workers |-> work'[v]]
      /\ work'[w] = job /\ \A v \in Workers : v # w => work'[v] = work[v]
  BY DEF SubscriptionInv, SubscriptionTypes
<1>2. /\ PayingInv'
      /\ remote' = [d \in Codes |-> remote'[d]] /\ sub' = [d \in Codes |-> sub'[d]]
      /\ plan' \in PlanRow
  BY PayingStays
<1>3. SubscriptionTypes'
  BY <1>1, <1>2 DEF SubscriptionTypes
<1>4. \A u : CardsOf(u) # {} => {d \in Cards : Holder[d] = u /\ card'[d] # "none"} # {}
  BY DEF CardsOf
<1>5. SubscriptionWork'
  <2>1. ASSUME NEW v \in Workers, Doing(v, "plan")' PROVE plan'.remote
    BY <1>1, <2>1 DEF SubscriptionInv, SubscriptionWork, Doing
  <2>2. ASSUME NEW v \in Workers, Doing(v, "primary")' PROVE work'[v].card \in Cards
    BY <1>1, <2>2 DEF SubscriptionInv, SubscriptionWork, Doing
  <2>3. ASSUME NEW v \in Workers, Doing(v, "card")'
        PROVE  (/\ work[v].event.id \in Cards
                /\ work[v].first \/ CardsOf(Holder[work[v].event.id]) # {})'
    <3>1. /\ work'[v].event.id \in Cards
          /\ work'[v].first \/ CardsOf(Holder[work'[v].event.id]) # {}
      <4>1. CASE v = w
        BY <1>1, <2>3, <4>1 DEF Doing
      <4>2. CASE v # w
        BY <1>1, <2>3, <4>2 DEF SubscriptionInv, SubscriptionWork, Doing
      <4> QED BY <4>1, <4>2
    <3>2. work'[v].first \/ {d \in Cards : Holder[d] = Holder[work'[v].event.id] /\ card'[d] # "none"} # {}
      BY <1>4, <3>1
    <3> QED BY <3>1, <3>2 DEF CardsOf
  <2> QED BY <2>1, <2>2, <2>3 DEF SubscriptionWork
<1> QED BY <1>2, <1>3, <1>5 DEF SubscriptionInv

LEMMA CardReadsKeeps ==
  ASSUME SubscriptionInv, NEW w \in Workers, NEW e \in events, CardReads(w, e)
  PROVE  SubscriptionInv'
<1> DEFINE reading == [op |-> "card", event |-> e, first |-> FirstCard(Holder[e.id])]
           marking == [op |-> "mark", event |-> e]
<1>1. /\ UNCHANGED <<remote, sub, events, plan, card, cut>> /\ ~Doing(w, "primary")
      /\ e.id \in Cards
  BY IdlePayers DEF CardReads, Free, Doing, SubscriptionsVars, SubscriptionInv, PayingInv, EventsTell
<1>2. card' = [d \in Cards |-> card'[d]] /\ \A d \in Cards : card'[d] = card[d]
  BY <1>1 DEF SubscriptionInv, SubscriptionTypes
<1>3. work' = [work EXCEPT ![w] = reading] \/ work' = [work EXCEPT ![w] = marking]
  BY DEF CardReads, Starts
<1>4. /\ reading.op = "card" /\ reading.event = e /\ reading.first = FirstCard(Holder[e.id])
      /\ marking.op = "mark"
  OBVIOUS
<1>5. reading.first \/ CardsOf(Holder[reading.event.id]) # {}
  BY <1>4 DEF FirstCard
<1> HIDE DEF reading, marking
<1>6. PrimaryKept'
  <2>1. \A v \in Workers : v # w => work'[v] = work[v]
    BY <1>3 DEF SubscriptionInv, SubscriptionTypes
  <2> QED BY <1>1, <2>1, CardsStay DEF Doing
<1>7. CASE work' = [work EXCEPT ![w] = reading]
  BY <1>1, <1>2, <1>4, <1>5, <1>6, <1>7, CardStep
<1>8. CASE work' = [work EXCEPT ![w] = marking]
  BY <1>1, <1>2, <1>4, <1>6, <1>8, CardStep
<1> QED BY <1>3, <1>7, <1>8

\* A card that is not its holder's first leaves the primary one as it is.
LEMMA CardCreatesKeeps ==
  ASSUME SubscriptionInv, NEW w \in Workers, CardCreates(w)
  PROVE  SubscriptionInv'
<1> DEFINE j == work[w]
           c == work[w].event.id
           job == [op |-> "mark", event |-> j.event]
<1>1. /\ c \in Cards /\ (j.first \/ CardsOf(Holder[c]) # {}) /\ ~Doing(w, "primary")
      /\ UNCHANGED <<remote, sub, events, plan, cut>>
  BY DEF CardCreates, Doing, SubscriptionInv, SubscriptionWork
<1>2. card = [d \in Cards |-> card[d]]
  BY DEF SubscriptionInv, SubscriptionTypes
<1>3. CASE card[c] # "none"
  <2>1. card' = card /\ work' = [work EXCEPT ![w] = Idle]
    BY <1>3 DEF CardCreates, Ends
  <2>2. \A v \in Workers : v # w => work'[v] = work[v]
    BY <2>1 DEF SubscriptionInv, SubscriptionTypes
  <2>3. PrimaryKept'
    BY <1>1, <2>1, <2>2, CardsStay DEF Doing
  <2>4. card' = [d \in Cards |-> card'[d]] /\ \A d \in Cards : card'[d] = card[d]
    BY <1>2, <2>1
  <2> QED BY <1>1, <2>1, <2>3, <2>4, IdlePayers, CardStep
<1>4. CASE card[c] = "none"
  <2>1. /\ card' = [card EXCEPT ![c] = IF j.first THEN "primary" ELSE "plain"]
        /\ work' = [work EXCEPT ![w] = job] /\ job.op = "mark"
    BY <1>4 DEF CardCreates, Starts
  <2> HIDE DEF job
  <2>2. /\ \A v \in Workers : v # w => work'[v] = work[v]
        /\ card' = [d \in Cards |-> card'[d]] /\ card'[c] \in {"primary", "plain"}
        /\ j.first => card'[c] = "primary"
        /\ \A d \in Cards : d # c => card'[d] = card[d]
    BY <1>1, <1>2, <2>1 DEF SubscriptionInv, SubscriptionTypes
  <2>3. PrimaryKept'
    <3> SUFFICES ASSUME NEW u \in Users, CardsOf(u)' # {}, PrimaryOf(u)' = {}
                 PROVE  u \in cut' \/ \E v \in Workers : Doing(v, "primary")' /\ Holder[work'[v].card] = u
      BY DEF PrimaryKept
    <3>1. PrimaryOf(u) = {}
      BY <1>4, <2>2 DEF PrimaryOf, CardsOf
    <3>2. CardsOf(u) # {}
      <4>1. CASE u = Holder[c]
        <5>1. ~j.first
          BY <1>1, <2>2, <4>1 DEF PrimaryOf, CardsOf
        <5> QED BY <1>1, <4>1, <5>1
      <4>2. CASE u # Holder[c]
        BY <2>2, <4>2 DEF CardsOf
      <4> QED BY <4>1, <4>2
    <3>3. u \in cut \/ \E v \in Workers : Doing(v, "primary") /\ Holder[work[v].card] = u
      BY <3>1, <3>2 DEF SubscriptionInv, PrimaryKept
    <3> QED BY <1>1, <2>2, <3>3 DEF Doing
  <2>4. \A d \in Cards : card[d] # "none" => card'[d] # "none"
    BY <1>4, <2>2
  <2> QED BY <1>1, <2>1, <2>2, <2>3, <2>4, CardStep
<1> QED BY <1>3, <1>4

LEMMA PrimaryClearsKeeps ==
  ASSUME SubscriptionInv, NEW w \in Workers, NEW c \in Cards, PrimaryClears(w, c)
  PROVE  SubscriptionInv'
<1> DEFINE job == [op |-> "primary", card |-> c]
           x == Holder[c]
<1>1. /\ UNCHANGED <<remote, sub, events, plan, cut>> /\ ~Doing(w, "primary")
      /\ work' = [work EXCEPT ![w] = job] /\ job.op = "primary" /\ job.card = c
      /\ card' = [d \in Cards |-> IF d \in PrimaryOf(x) THEN "plain" ELSE card[d]]
  BY IdlePayers DEF PrimaryClears, Starts, Free, Doing
<1> HIDE DEF job
<1>2. /\ work'[w] = job /\ \A v \in Workers : v # w => work'[v] = work[v]
  BY <1>1 DEF SubscriptionInv, SubscriptionTypes
<1>3. /\ card' = [d \in Cards |-> card'[d]]
      /\ \A d \in Cards : card[d] # "none" <=> card'[d] # "none"
      /\ \A d \in Cards : Holder[d] # x => card'[d] = card[d]
  BY <1>1 DEF PrimaryOf, CardsOf
<1>4. PrimaryKept'
  <2> SUFFICES ASSUME NEW u \in Users, CardsOf(u)' # {}, PrimaryOf(u)' = {}
               PROVE  u \in cut' \/ \E v \in Workers : Doing(v, "primary")' /\ Holder[work'[v].card] = u
    BY DEF PrimaryKept
  <2>1. CASE u = x
    BY <1>1, <1>2, <2>1 DEF Doing
  <2>2. CASE u # x
    <3>1. CardsOf(u) # {} /\ PrimaryOf(u) = {}
      BY <1>3, <2>2 DEF CardsOf, PrimaryOf
    <3>2. u \in cut \/ \E v \in Workers : Doing(v, "primary") /\ Holder[work[v].card] = u
      BY <3>1 DEF SubscriptionInv, PrimaryKept
    <3> QED BY <1>1, <1>2, <3>2 DEF Doing
  <2> QED BY <2>1, <2>2
<1> QED BY <1>1, <1>3, <1>4, CardStep

LEMMA PrimarySetsKeeps ==
  ASSUME SubscriptionInv, NEW w \in Workers, PrimarySets(w)
  PROVE  SubscriptionInv'
<1> DEFINE c == work[w].card
           x == Holder[c]
<1>1. /\ UNCHANGED <<remote, sub, events, plan>> /\ c \in Cards
      /\ work' = [work EXCEPT ![w] = Idle]
      /\ card' = [card EXCEPT ![c] = "primary"] /\ cut' = cut \ {x}
  BY DEF PrimarySets, Ends, Doing, SubscriptionInv, SubscriptionWork
<1>2. \A v \in Workers : v # w => work'[v] = work[v]
  BY <1>1 DEF SubscriptionInv, SubscriptionTypes
<1>3. /\ card' = [d \in Cards |-> card'[d]] /\ card'[c] = "primary"
      /\ \A d \in Cards : d # c => card'[d] = card[d]
  BY <1>1 DEF SubscriptionInv, SubscriptionTypes
<1>4. PrimaryKept'
  <2> SUFFICES ASSUME NEW u \in Users, CardsOf(u)' # {}, PrimaryOf(u)' = {}
               PROVE  u \in cut' \/ \E v \in Workers : Doing(v, "primary")' /\ Holder[work'[v].card] = u
    BY DEF PrimaryKept
  <2>1. u # x
    BY <1>1, <1>3 DEF PrimaryOf, CardsOf
  <2>2. CardsOf(u) # {} /\ PrimaryOf(u) = {}
    BY <1>3, <2>1 DEF CardsOf, PrimaryOf
  <2>3. u \in cut \/ \E v \in Workers : Doing(v, "primary") /\ Holder[work[v].card] = u
    BY <2>2 DEF SubscriptionInv, PrimaryKept
  <2>4. ASSUME NEW v \in Workers, Doing(v, "primary"), Holder[work[v].card] = u
        PROVE  Doing(v, "primary")' /\ Holder[work'[v].card] = u
    BY <1>2, <2>1, <2>4 DEF Doing
  <2> QED BY <1>1, <2>1, <2>3, <2>4
<1>5. \A d \in Cards : card[d] # "none" => card'[d] # "none"
  BY <1>3
<1> QED BY <1>1, <1>3, <1>4, <1>5, IdlePayers, CardStep

LEMMA SubscriberDiesKeeps ==
  ASSUME SubscriptionInv, NEW w \in Workers, SubscriberDies(w)
  PROVE  SubscriptionInv'
<1>1. /\ UNCHANGED <<remote, sub, events, plan, card>> /\ work' = [work EXCEPT ![w] = Idle]
      /\ cut' = IF Doing(w, "primary") THEN cut \cup {Holder[work[w].card]} ELSE cut
  BY DEF SubscriberDies, Dies, Ends
<1>2. \A v \in Workers : v # w => work'[v] = work[v]
  BY <1>1 DEF SubscriptionInv, SubscriptionTypes
<1>3. PrimaryKept'
  <2> SUFFICES ASSUME NEW u \in Users, CardsOf(u)' # {}, PrimaryOf(u)' = {}
               PROVE  u \in cut' \/ \E v \in Workers : Doing(v, "primary")' /\ Holder[work'[v].card] = u
    BY DEF PrimaryKept
  <2>1. CardsOf(u) # {} /\ PrimaryOf(u) = {}
    BY <1>1 DEF CardsOf, PrimaryOf
  <2>2. u \in cut \/ \E v \in Workers : Doing(v, "primary") /\ Holder[work[v].card] = u
    BY <2>1 DEF SubscriptionInv, PrimaryKept
  <2>3. ASSUME NEW v \in Workers, Doing(v, "primary"), Holder[work[v].card] = u
        PROVE  u \in cut' \/ (Doing(v, "primary")' /\ Holder[work'[v].card] = u)
    <3>1. CASE v = w
      BY <1>1, <2>3, <3>1
    <3>2. CASE v # w
      BY <1>2, <2>3, <3>2 DEF Doing
    <3> QED BY <3>1, <3>2
  <2> QED BY <1>1, <2>2, <2>3
<1>4. card' = [d \in Cards |-> card'[d]] /\ \A d \in Cards : card'[d] = card[d]
  BY <1>1 DEF SubscriptionInv, SubscriptionTypes
<1> QED BY <1>1, <1>3, <1>4, IdlePayers, CardStep

LEMMA NextSubscriptions ==
  SubscriptionInv /\ [SubscriptionsNext]_SubscriptionsState => SubscriptionInv'
<1> SUFFICES ASSUME SubscriptionInv, [SubscriptionsNext]_SubscriptionsState PROVE SubscriptionInv'
  OBVIOUS
<1>1. CASE PlansNext
  BY <1>1, PlansKeep
<1>2. CASE SubscribingNext
  BY <1>2, SubscribeKeeps, PaystackDisablesKeeps, CancelSubscriptionKeeps, EventAppliesKeeps
     DEF SubscribingNext
<1>3. CASE CardsNext
  BY <1>3, CardChargedKeeps, CardReadsKeeps, PrimaryClearsKeeps, CardCreatesKeeps, PrimarySetsKeeps
     DEF CardsNext
<1>4. CASE WorkerNext
  BY <1>4, EventMarkedKeeps, SubscriberDiesKeeps DEF WorkerNext
<1>5. CASE UNCHANGED SubscriptionsState
  <2>1. UNCHANGED <<work, remote, sub, events, card, cut, plan>>
    BY <1>5 DEF SubscriptionsState, SubscriptionsVars
  <2> QED BY <2>1, PayingStays, PaystackTurns
<1> QED BY <1>1, <1>2, <1>3, <1>4, <1>5 DEF SubscriptionsNext

\* A user pays with one subscription and one card.
THEOREM OneIsPaidFor == SubscriptionsSpec => []SubscriptionsKept
<1>1. RequestsInit /\ SubscriptionsInit({}) => SubscriptionInv
  BY InitSubscriptions
<1>2. SubscriptionInv /\ [SubscriptionsNext]_SubscriptionsState => SubscriptionInv'
  BY NextSubscriptions
<1>3. SubscriptionInv => SubscriptionsKept
  <2> SUFFICES ASSUME SubscriptionInv PROVE OneActive
    BY DEF SubscriptionInv, SubscriptionsKept
  <2>1. ASSUME NEW u \in Users PROVE Cardinality(ActiveOf(u)) <= 1
    <3>1. \A c, d \in ActiveOf(u) : c = d
      BY DEF ActiveOf, SubscriptionInv, PayingInv, SubscriptionsKnown
    <3>2. CASE ActiveOf(u) = {}
      BY <3>2, FS_EmptySet
    <3>3. CASE ActiveOf(u) # {}
      <4>1. PICK c : ActiveOf(u) = {c}
        BY <3>1, <3>3
      <4>2. Cardinality({c}) = 1
        BY FS_Singleton, Zenon
      <4> QED BY <4>1, <4>2
    <3> QED BY <3>2, <3>3
  <2> QED BY <2>1 DEF OneActive, SubscriptionInv, PayingInv, SubscriptionsKnown, PlanIsThere
<1> QED BY <1>1, <1>2, <1>3, PTL DEF SubscriptionsSpec

-----------------------------------------------------------------------------
(* Allowance: unless a settled withdrawal is written again, what a user    *)
(* asks for in a day stays within the limits, what is held or paid is what *)
(* is missing from the ledger, and the ledger is never overdrawn.          *)
AllowanceState == <<work, AllowanceVars>>
AllowanceNext == AskingNext(Keys) \/ DrawingNext(Keys, Sums) \/ SettlingNext
AllowanceSpec == RequestsInit /\ AllowanceInit /\ [][AllowanceNext]_AllowanceState

\* The sets and sums of Allowance, of any table of withdrawals.
OwnIn(g, u) == {i \in Slots : g[i] # None /\ g[i].user = u}
LiveIn(g, u) == {i \in OwnIn(g, u) : g[i].status \in {"pending_batch", "processing"}}
UnfailedIn(g, u) == {i \in OwnIn(g, u) : g[i].status # "failed"}
TodayIn(g, u) == {i \in UnfailedIn(g, u) : g[i].today}
WorthIn(g, S) == SumFunctionOnSet([i \in S |-> g[i].amount], S)

\* What the limits, the holds and the ledger say of one user.
WithinLimits(g, u) ==
  Cardinality(TodayIn(g, u)) <= DailyCount /\ WorthIn(g, TodayIn(g, u)) <= DailyTotal
Balanced(g, f, u) == f[u] + WorthIn(g, UnfailedIn(g, u)) = Earnings[u] /\ f[u] >= 0

Tables == [Slots -> GrantRows \cup {None}]

AllowanceTypes ==
  /\ DOMAIN work = Workers /\ work = [w \in Workers |-> work[w]]
  /\ funds \in [Payees -> Int] /\ granted \in Tables

AllowanceWork ==
  \A w \in Workers :
    /\ Doing(w, "granting") =>
         work[w].user \in Payees /\ work[w].key \in Keys /\ work[w].amount \in Sums
    /\ Doing(w, "settling") => work[w].slot \in Slots /\ granted[work[w].slot] # None

FundsKept ==
  \A u \in Payees \ rejudged : WithinLimits(granted, u) /\ Balanced(granted, funds, u)

\* A key stands for one withdrawal.
KeysStand ==
  \A i, j \in Slots :
    granted[i] # None /\ granted[j] # None
      /\ granted[i].user = granted[j].user /\ granted[i].key = granted[j].key => i = j

AllowanceInv == AllowanceTypes /\ AllowanceWork /\ FundsKept /\ KeysStand

-----------------------------------------------------------------------------
LEMMA SlotsFinite ==
  ASSUME NEW S, S \subseteq Slots
  PROVE  IsFiniteSet(S) /\ Cardinality(S) \in Nat
<1>1. IsFiniteSet(Slots)
  BY AllowanceAssumption, FS_Interval DEF Slots
<1>2. IsFiniteSet(S)
  BY <1>1, FS_Subset
<1> QED BY <1>2, FS_CardinalityType

LEMMA AmountsAreNat ==
  ASSUME NEW g \in Tables, NEW i \in Slots, g[i] # None
  PROVE  g[i] \in GrantRows /\ g[i].amount \in Nat
<1>1. g[i] \in GrantRows
  BY DEF Tables
<1> QED BY <1>1, AllowanceAssumption DEF GrantRows

\* The worth of withdrawals that are there.
LEMMA WorthType ==
  ASSUME NEW g \in Tables, NEW S, S \subseteq Slots, \A i \in S : g[i] # None
  PROVE  WorthIn(g, S) \in Nat
<1> DEFINE f == [i \in S |-> g[i].amount]
<1>1. IsFiniteSet(S)
  BY SlotsFinite
<1>2. \A i \in S : f[i] \in Nat
  BY AmountsAreNat
<1> HIDE DEF f
<1>3. SumFunctionOnSet(f, S) \in Nat
  BY <1>1, <1>2, SumNat
<1> QED BY <1>3 DEF WorthIn, f

LEMMA WorthSame ==
  ASSUME NEW g \in Tables, NEW h, NEW S, S \subseteq Slots,
         \A i \in S : g[i] # None /\ h[i].amount = g[i].amount
  PROVE  WorthIn(h, S) = WorthIn(g, S)
<1> DEFINE e == [i \in S |-> g[i].amount]
           f == [i \in S |-> h[i].amount]
<1>1. IsFiniteSet(S)
  BY SlotsFinite
<1>2. \A i \in S : e[i] \in Int /\ e[i] = f[i]
  BY AmountsAreNat
<1> HIDE DEF e, f
<1>3. SumFunctionOnSet(e, S) = SumFunctionOnSet(f, S)
  BY <1>1, <1>2, SumSame
<1> QED BY <1>3 DEF WorthIn, e, f

LEMMA WorthOfOneMore ==
  ASSUME NEW g \in Tables, NEW S, S \subseteq Slots, NEW i \in Slots, i \notin S,
         \A x \in S \cup {i} : g[x] # None
  PROVE  WorthIn(g, S \cup {i}) = WorthIn(g, S) + g[i].amount /\ g[i].amount \in Nat
<1> DEFINE e == [x \in S \cup {i} |-> g[x].amount]
           f == [x \in S |-> g[x].amount]
<1>1. IsFiniteSet(S)
  BY SlotsFinite
<1>2. /\ \A x \in S : e[x] \in Int /\ f[x] \in Int /\ f[x] = e[x]
      /\ e[i] = g[i].amount /\ g[i].amount \in Nat
  BY AmountsAreNat
<1> HIDE DEF e, f
<1>3. SumFunctionOnSet(e, S \cup {i}) = e[i] + SumFunctionOnSet(e, S)
  BY <1>1, <1>2, SumAdd
<1>4. SumFunctionOnSet(f, S) = SumFunctionOnSet(e, S)
  BY <1>1, <1>2, SumSame
<1>5. SumFunctionOnSet(f, S) \in Int
  BY <1>1, <1>2, SumType
<1> QED BY <1>2, <1>3, <1>4, <1>5 DEF WorthIn, e, f

LEMMA WorthOfNone == ASSUME NEW g PROVE WorthIn(g, {}) = 0
  BY SumEmpty DEF WorthIn

-----------------------------------------------------------------------------
\* What the sums look at does not change.
LEMMA UserStays ==
  ASSUME NEW g \in Tables, NEW h \in Tables, NEW u,
         \A i \in Slots : i \in OwnIn(h, u) <=> i \in OwnIn(g, u),
         \A i \in OwnIn(g, u) :
           /\ h[i].amount = g[i].amount
           /\ h[i].status = "failed" <=> g[i].status = "failed"
  PROVE  /\ UnfailedIn(h, u) = UnfailedIn(g, u)
         /\ WorthIn(h, UnfailedIn(h, u)) = WorthIn(g, UnfailedIn(g, u))
         /\ (\A i \in OwnIn(g, u) : h[i].today = g[i].today) =>
              TodayIn(h, u) = TodayIn(g, u) /\ WorthIn(h, TodayIn(h, u)) = WorthIn(g, TodayIn(g, u))
<1>1. UnfailedIn(h, u) = UnfailedIn(g, u)
  BY DEF UnfailedIn, OwnIn
<1>2. /\ UnfailedIn(g, u) \subseteq Slots
      /\ \A i \in UnfailedIn(g, u) : g[i] # None /\ h[i].amount = g[i].amount
  BY DEF UnfailedIn, OwnIn
<1>3. WorthIn(h, UnfailedIn(g, u)) = WorthIn(g, UnfailedIn(g, u))
  BY <1>2, WorthSame
<1>4. ASSUME \A i \in OwnIn(g, u) : h[i].today = g[i].today
      PROVE  TodayIn(h, u) = TodayIn(g, u)
  BY <1>1, <1>4 DEF TodayIn, UnfailedIn
<1>5. WorthIn(h, TodayIn(g, u)) = WorthIn(g, TodayIn(g, u))
  <2>1. /\ TodayIn(g, u) \subseteq Slots
        /\ \A i \in TodayIn(g, u) : g[i] # None /\ h[i].amount = g[i].amount
    BY <1>2 DEF TodayIn
  <2> QED BY <2>1, WorthSame
<1> QED BY <1>1, <1>3, <1>4, <1>5

\* A withdrawal that may be made.
LEMMA UserGranted ==
  ASSUME NEW g \in Tables, NEW f \in [Payees -> Int], NEW u \in Payees, NEW i \in Slots, g[i] = None,
         NEW row \in GrantRows, row.user = u, row.status \in {"pending_batch", "processing"}, row.today = TRUE,
         Balanced(g, f, u),
         Cardinality(TodayIn(g, u)) < DailyCount, WorthIn(g, TodayIn(g, u)) + row.amount <= DailyTotal,
         f[u] - WorthIn(g, LiveIn(g, u)) >= row.amount
  PROVE  /\ WithinLimits([g EXCEPT ![i] = row], u)
         /\ Balanced([g EXCEPT ![i] = row], [f EXCEPT ![u] = @ - row.amount], u)
<1> DEFINE h == [g EXCEPT ![i] = row]
           e == [f EXCEPT ![u] = @ - row.amount]
<1>1. row # None /\ row.amount \in Nat
  BY AllowanceAssumption DEF GrantRows
<1>2. h \in Tables /\ h[i] = row /\ \A x \in Slots : x # i => h[x] = g[x]
  BY DEF Tables
<1>3. e[u] = f[u] - row.amount /\ f[u] \in Int
  OBVIOUS
<1> HIDE DEF h, e
<1>4. /\ UnfailedIn(h, u) = UnfailedIn(g, u) \cup {i} /\ i \notin UnfailedIn(g, u)
      /\ TodayIn(h, u) = TodayIn(g, u) \cup {i} /\ i \notin TodayIn(g, u)
      /\ UnfailedIn(g, u) \subseteq Slots /\ TodayIn(g, u) \subseteq UnfailedIn(g, u)
      /\ LiveIn(g, u) \subseteq Slots
  BY <1>1, <1>2 DEF UnfailedIn, TodayIn, OwnIn, LiveIn
<1>5. /\ \A x \in UnfailedIn(g, u) : g[x] # None /\ h[x].amount = g[x].amount
      /\ \A x \in LiveIn(g, u) : g[x] # None
      /\ \A x \in UnfailedIn(g, u) \cup {i} : h[x] # None
  BY <1>1, <1>2, <1>4 DEF UnfailedIn, OwnIn, LiveIn
<1>6. ASSUME NEW S, S \subseteq UnfailedIn(g, u)
      PROVE  WorthIn(h, S \cup {i}) = WorthIn(g, S) + row.amount /\ WorthIn(g, S) \in Nat
  <2>1. S \subseteq Slots /\ i \notin S
    BY <1>4, <1>6
  <2>2. WorthIn(h, S \cup {i}) = WorthIn(h, S) + h[i].amount
    BY <1>2, <1>5, <1>6, <2>1, WorthOfOneMore
  <2>3. WorthIn(h, S) = WorthIn(g, S)
    BY <1>5, <1>6, <2>1, WorthSame
  <2>4. WorthIn(g, S) \in Nat
    BY <1>5, <1>6, <2>1, WorthType
  <2> QED BY <1>2, <2>2, <2>3, <2>4
<1>7. WorthIn(g, LiveIn(g, u)) \in Nat
  BY <1>4, <1>5, WorthType
<1>8. Cardinality(TodayIn(h, u)) <= DailyCount
  <2>1. IsFiniteSet(TodayIn(g, u)) /\ Cardinality(TodayIn(g, u)) \in Nat
    BY <1>4, SlotsFinite
  <2>2. Cardinality(TodayIn(h, u)) = Cardinality(TodayIn(g, u)) + 1
    <3>1. Cardinality(TodayIn(g, u) \cup {i}) = Cardinality(TodayIn(g, u)) + 1
      <4> DEFINE S == TodayIn(g, u)
      <4>1. IsFiniteSet(S) /\ i \notin S
        BY <1>4, <2>1
      <4> HIDE DEF S
      <4>2. Cardinality(S \cup {i}) = Cardinality(S) + 1
        BY <4>1, FS_AddElement, Zenon
      <4> QED BY <4>2 DEF S
    <3> QED BY <1>4, <3>1
  <2>3. DailyCount \in Nat
    BY AllowanceAssumption
  <2> QED BY <2>1, <2>2, <2>3
<1>9. WorthIn(h, TodayIn(h, u)) <= DailyTotal
  BY <1>4, <1>6
<1>10. e[u] + WorthIn(h, UnfailedIn(h, u)) = Earnings[u]
  <2>1. /\ WorthIn(h, UnfailedIn(h, u)) = WorthIn(g, UnfailedIn(g, u)) + row.amount
        /\ WorthIn(g, UnfailedIn(g, u)) \in Nat
    BY <1>4, <1>6
  <2>2. f[u] + WorthIn(g, UnfailedIn(g, u)) = Earnings[u]
    BY DEF Balanced
  <2> QED BY <1>1, <1>3, <2>1, <2>2
<1>11. e[u] >= 0
  BY <1>1, <1>3, <1>7
<1> QED BY <1>8, <1>9, <1>10, <1>11 DEF WithinLimits, Balanced, h, e

\* A live withdrawal that fails gives its hold back.
LEMMA UserFails ==
  ASSUME NEW g \in Tables, NEW h \in Tables, NEW f \in [Payees -> Int], NEW u \in Payees,
         NEW i \in UnfailedIn(g, u),
         h[i] # None, h[i].user = u, h[i].status = "failed", \A x \in Slots : x # i => h[x] = g[x],
         WithinLimits(g, u), Balanced(g, f, u)
  PROVE  WithinLimits(h, u) /\ Balanced(h, [f EXCEPT ![u] = @ + g[i].amount], u)
<1> DEFINE e == [f EXCEPT ![u] = @ + g[i].amount]
           some == UnfailedIn(h, u)
           today == TodayIn(h, u)
<1>1. /\ i \in Slots /\ g[i] # None
      /\ some = UnfailedIn(g, u) \ {i} /\ today = TodayIn(g, u) \ {i}
      /\ some \subseteq Slots /\ today \subseteq some
      /\ TodayIn(g, u) \subseteq UnfailedIn(g, u) /\ UnfailedIn(g, u) \subseteq Slots
  BY DEF UnfailedIn, TodayIn, OwnIn
<1>2. \A x \in UnfailedIn(g, u) : g[x] # None
  BY DEF UnfailedIn, OwnIn
<1> HIDE DEF some, today
<1>3. ASSUME NEW S, S \subseteq UnfailedIn(g, u), i \notin S
      PROVE  /\ WorthIn(h, S) = WorthIn(g, S) /\ WorthIn(g, S) \in Nat
             /\ WorthIn(g, S \cup {i}) = WorthIn(g, S) + g[i].amount /\ g[i].amount \in Nat
  <2>1. S \subseteq Slots /\ \A x \in S : g[x] # None /\ h[x].amount = g[x].amount
    BY <1>1, <1>2, <1>3
  <2>2. \A x \in S \cup {i} : g[x] # None
    BY <1>1, <2>1
  <2> QED BY <1>1, <1>3, <2>1, <2>2, WorthSame, WorthType, WorthOfOneMore
<1>4. /\ WorthIn(h, some) = WorthIn(g, some) /\ WorthIn(g, some) \in Nat /\ g[i].amount \in Nat
      /\ WorthIn(g, UnfailedIn(g, u)) = WorthIn(g, some) + g[i].amount
  <2>1. some \cup {i} = UnfailedIn(g, u) /\ i \notin some /\ some \subseteq UnfailedIn(g, u)
    BY <1>1
  <2> QED BY <1>3, <2>1
<1>5. Cardinality(today) <= DailyCount
  <2>1. IsFiniteSet(TodayIn(g, u)) /\ Cardinality(TodayIn(g, u)) \in Nat
    BY <1>1, SlotsFinite
  <2>2. Cardinality(today) <= Cardinality(TodayIn(g, u)) /\ Cardinality(today) \in Nat
    BY <1>1, <2>1, FS_Subset, FS_CardinalityType
  <2>3. Cardinality(TodayIn(g, u)) <= DailyCount /\ DailyCount \in Nat
    BY AllowanceAssumption DEF WithinLimits
  <2> QED BY <2>1, <2>2, <2>3
<1>6. WorthIn(h, today) <= DailyTotal
  <2>1. WorthIn(g, TodayIn(g, u)) <= DailyTotal /\ DailyTotal \in Nat
    BY AllowanceAssumption DEF WithinLimits
  <2>2. /\ WorthIn(h, today) = WorthIn(g, today) /\ WorthIn(g, today) \in Nat
        /\ WorthIn(g, today \cup {i}) = WorthIn(g, today) + g[i].amount
    BY <1>1, <1>3
  <2>3. TodayIn(g, u) = today \/ TodayIn(g, u) = today \cup {i}
    BY <1>1
  <2>4. WorthIn(g, today) <= WorthIn(g, TodayIn(g, u))
    <3>1. CASE TodayIn(g, u) = today
      BY <2>2, <3>1
    <3>2. CASE TodayIn(g, u) = today \cup {i}
      BY <1>4, <2>2, <3>2
    <3> QED BY <2>3, <3>1, <3>2
  <2>5. WorthIn(g, TodayIn(g, u)) \in Nat
    BY <1>1, <1>2, WorthType
  <2> QED BY <2>1, <2>2, <2>4, <2>5
<1>7. e[u] = f[u] + g[i].amount /\ f[u] \in Int
  OBVIOUS
<1> HIDE DEF e
<1>8. f[u] + WorthIn(g, UnfailedIn(g, u)) = Earnings[u] /\ f[u] >= 0
  BY DEF Balanced
<1>9. e[u] + WorthIn(h, some) = Earnings[u] /\ e[u] >= 0
  BY <1>4, <1>7, <1>8
<1> QED BY <1>5, <1>6, <1>9 DEF WithinLimits, Balanced, e, some, today

LEMMA UserAtMidnight ==
  ASSUME NEW h, NEW u, \A i \in OwnIn(h, u) : h[i].today = FALSE
  PROVE  WithinLimits(h, u)
<1>1. TodayIn(h, u) = {}
  BY DEF TodayIn, UnfailedIn
<1>2. Cardinality({}) = 0 /\ WorthIn(h, {}) = 0
  BY FS_EmptySet, WorthOfNone
<1> QED BY <1>1, <1>2, AllowanceAssumption DEF WithinLimits

-----------------------------------------------------------------------------
LEMMA IdleAskers == Idle.op \notin {"granting", "settling"}
  BY DEF Idle

LEMMA InitAllowance == RequestsInit /\ AllowanceInit => AllowanceInv
<1> SUFFICES ASSUME RequestsInit, AllowanceInit PROVE AllowanceInv
  OBVIOUS
<1>1. work = [w \in Workers |-> Idle] /\ \A w \in Workers : work[w].op \notin {"granting", "settling"}
  BY IdleAskers DEF RequestsInit
<1>2. funds = Earnings /\ granted = [i \in Slots |-> None]
  BY DEF AllowanceInit
<1>3. AllowanceTypes
  BY <1>1, <1>2, AllowanceAssumption DEF AllowanceTypes, Tables
<1>4. AllowanceWork
  BY <1>1 DEF AllowanceWork, Doing
<1>5. ASSUME NEW u \in Payees PROVE WithinLimits(granted, u) /\ Balanced(granted, funds, u)
  <2>1. OwnIn(granted, u) = {}
    BY <1>2 DEF OwnIn
  <2>2. UnfailedIn(granted, u) = {}
    BY <2>1 DEF UnfailedIn
  <2>3. WithinLimits(granted, u)
    BY <2>1, UserAtMidnight
  <2>4. WorthIn(granted, {}) = 0 /\ funds[u] \in Nat
    BY <1>2, WorthOfNone, AllowanceAssumption
  <2>5. funds[u] + 0 = Earnings[u] /\ funds[u] >= 0
    BY <1>2, <2>4
  <2> QED BY <2>2, <2>3, <2>4, <2>5 DEF Balanced
<1>6. KeysStand
  BY <1>2 DEF KeysStand
<1> QED BY <1>3, <1>4, <1>5, <1>6 DEF AllowanceInv, FundsKept

\* A step of a worker after which the withdrawals that were there still are.
LEMMA AskerTurns ==
  ASSUME AllowanceInv, NEW w \in Workers, NEW job, work' = [work EXCEPT ![w] = job],
         \A i \in Slots : granted[i] # None => granted'[i] # None,
         job.op = "granting" => job.user \in Payees /\ job.key \in Keys /\ job.amount \in Sums,
         job.op = "settling" => job.slot \in Slots /\ granted[job.slot] # None
  PROVE  /\ DOMAIN work' = Workers /\ work' = [v \in Workers |-> work'[v]]
         /\ AllowanceWork'
<1>1. /\ DOMAIN work' = Workers /\ work' = [v \in Workers |-> work'[v]]
      /\ work'[w] = job /\ \A v \in Workers : v # w => work'[v] = work[v]
  BY DEF AllowanceInv, AllowanceTypes
<1>2. ASSUME NEW v \in Workers, Doing(v, "granting")'
      PROVE  work'[v].user \in Payees /\ work'[v].key \in Keys /\ work'[v].amount \in Sums
  BY <1>1, <1>2 DEF AllowanceInv, AllowanceWork, Doing
<1>3. ASSUME NEW v \in Workers, Doing(v, "settling")'
      PROVE  work'[v].slot \in Slots /\ granted'[work'[v].slot] # None
  <2>1. CASE v = w
    BY <1>1, <1>3, <2>1 DEF Doing
  <2>2. CASE v # w
    BY <1>1, <1>3, <2>2 DEF AllowanceInv, AllowanceWork, Doing
  <2> QED BY <2>1, <2>2
<1>4. AllowanceWork'
  BY <1>2, <1>3 DEF AllowanceWork
<1> QED BY <1>1, <1>4

\* No withdrawal and no sum changes.
LEMMA FundsStay ==
  ASSUME AllowanceInv, UNCHANGED <<funds, granted, rejudged>>,
         DOMAIN work' = Workers /\ work' = [v \in Workers |-> work'[v]], AllowanceWork'
  PROVE  AllowanceInv'
<1>1. AllowanceTypes'
  BY DEF AllowanceInv, AllowanceTypes
<1>2. FundsKept' /\ KeysStand'
  BY DEF AllowanceInv, FundsKept, KeysStand
<1> QED BY <1>1, <1>2 DEF AllowanceInv

LEMMA AskerStays ==
  ASSUME AllowanceInv, UNCHANGED <<work, funds, granted, rejudged>>
  PROVE  AllowanceInv'
<1>1. DOMAIN work' = Workers /\ work' = [v \in Workers |-> work'[v]]
  BY DEF AllowanceInv, AllowanceTypes
<1>2. AllowanceWork'
  BY DEF AllowanceInv, AllowanceWork, Doing
<1> QED BY <1>1, <1>2, FundsStay

LEMMA AskerQuiet ==
  ASSUME AllowanceInv, NEW w \in Workers, NEW job, work' = [work EXCEPT ![w] = job],
         UNCHANGED <<funds, granted, rejudged>>,
         job.op = "granting" => job.user \in Payees /\ job.key \in Keys /\ job.amount \in Sums,
         job.op = "settling" => job.slot \in Slots /\ granted[job.slot] # None
  PROVE  AllowanceInv'
<1>1. \A i \in Slots : granted[i] # None => granted'[i] # None
  OBVIOUS
<1>2. /\ DOMAIN work' = Workers /\ work' = [v \in Workers |-> work'[v]]
      /\ AllowanceWork'
  BY <1>1, AskerTurns
<1> QED BY <1>2, FundsStay

\* The sets that the rules look at.
LEMMA RulesLookAt ==
  ASSUME NEW u
  PROVE  /\ Of(u) = OwnIn(granted, u) /\ Live(u) = LiveIn(granted, u)
         /\ Unfailed(u) = UnfailedIn(granted, u) /\ Today(u) = TodayIn(granted, u)
         /\ \A S : Worth(S) = WorthIn(granted, S)
<1>1. Of(u) = OwnIn(granted, u)
  BY DEF Of, OwnIn
<1>2. Live(u) = LiveIn(granted, u) /\ Unfailed(u) = UnfailedIn(granted, u)
  BY <1>1 DEF Live, LiveIn, Unfailed, UnfailedIn
<1>3. Today(u) = TodayIn(granted, u)
  BY <1>2 DEF Today, TodayIn
<1>4. \A S : Worth(S) = WorthIn(granted, S)
  BY DEF Worth, SumFunction, WorthIn
<1> QED BY <1>1, <1>2, <1>3, <1>4

\* What the rules let pass keeps within the limits and the funds.
LEMMA HoldsKeep ==
  ASSUME AllowanceInv, NEW u \in Payees, NEW k \in Keys, NEW a \in Sums,
         NEW r \in {"business_owner", "driver", "referral"},
         NEW status \in {"pending_batch", "processing"},
         Replay(u, k) = {}, Passes(u, a, r), Holds(u, k, a, r, status), rejudged' = rejudged,
         DOMAIN work' = Workers /\ work' = [v \in Workers |-> work'[v]],
         (\A i \in Slots : granted[i] # None => granted'[i] # None) => AllowanceWork'
  PROVE  AllowanceInv'
<1> DEFINE row == [user |-> u, key |-> k, amount |-> a, role |-> r,
                   status |-> status, today |-> TRUE, completed |-> "never"]
<1>1. PICK i \in Slots : /\ granted[i] = None /\ granted' = [granted EXCEPT ![i] = row]
                         /\ funds' = [funds EXCEPT ![u] = @ - a]
  BY DEF Holds
<1>2. /\ row \in GrantRows /\ row.user = u /\ row.key = k /\ row.amount = a /\ row.status = status
      /\ row.today = TRUE
  BY DEF GrantRows
<1> HIDE DEF row
<1>3. row # None
  BY <1>2, AllowanceAssumption
<1>4. granted \in Tables /\ funds \in [Payees -> Int] /\ a \in Nat
  BY AllowanceAssumption DEF AllowanceInv, AllowanceTypes
<1>5. /\ granted' \in Tables /\ granted'[i] = row
      /\ \A x \in Slots : x # i => granted'[x] = granted[x]
  BY <1>1, <1>2, <1>4 DEF Tables
<1>6. funds' \in [Payees -> Int]
  BY <1>1, <1>4
<1>7. AllowanceWork'
  BY <1>1, <1>3, <1>5
<1>8. KeysStand'
  <2>1. \A x \in Slots : granted[x] # None => ~(granted[x].user = u /\ granted[x].key = k)
    BY DEF Replay, Of
  <2> QED BY <1>1, <1>2, <1>5, <2>1 DEF AllowanceInv, KeysStand
<1>9. FundsKept'
  <2> SUFFICES ASSUME NEW v \in Payees \ rejudged
               PROVE  WithinLimits(granted', v) /\ Balanced(granted', funds', v)
    BY DEF FundsKept
  <2>1. WithinLimits(granted, v) /\ Balanced(granted, funds, v)
    BY DEF AllowanceInv, FundsKept
  <2>2. CASE v = u
    <3>1. /\ Cardinality(TodayIn(granted, u)) < DailyCount
          /\ WorthIn(granted, TodayIn(granted, u)) + a <= DailyTotal
          /\ funds[u] - WorthIn(granted, LiveIn(granted, u)) >= a
      BY RulesLookAt DEF Passes, WithinDay
    <3>2. /\ WithinLimits([granted EXCEPT ![i] = row], u)
          /\ Balanced([granted EXCEPT ![i] = row], [funds EXCEPT ![u] = @ - row.amount], u)
      BY <1>1, <1>2, <1>4, <2>1, <2>2, <3>1, UserGranted
    <3> QED BY <1>1, <1>2, <2>2, <3>2
  <2>3. CASE v # u
    <3>1. /\ \A x \in Slots : x \in OwnIn(granted', v) <=> x \in OwnIn(granted, v)
          /\ \A x \in OwnIn(granted, v) : granted'[x] = granted[x]
      BY <1>1, <1>2, <1>5, <2>3 DEF OwnIn
    <3>2. /\ WorthIn(granted', UnfailedIn(granted', v)) = WorthIn(granted, UnfailedIn(granted, v))
          /\ TodayIn(granted', v) = TodayIn(granted, v)
          /\ WorthIn(granted', TodayIn(granted', v)) = WorthIn(granted, TodayIn(granted, v))
      BY <1>4, <1>5, <3>1, UserStays
    <3>3. funds'[v] = funds[v]
      BY <1>1, <1>4, <2>3
    <3> QED BY <2>1, <3>2, <3>3 DEF WithinLimits, Balanced
  <2> QED BY <2>2, <2>3
<1>10. AllowanceTypes'
  BY <1>5, <1>6 DEF AllowanceTypes
<1> QED BY <1>7, <1>8, <1>9, <1>10 DEF AllowanceInv

-----------------------------------------------------------------------------
\* The steps of requests.
LEMMA AskerFrees ==
  ASSUME AllowanceInv, NEW w \in Workers, work' = [work EXCEPT ![w] = Idle],
         UNCHANGED <<funds, granted, rejudged>>
  PROVE  AllowanceInv'
<1> DEFINE job == Idle
<1>1. job.op \notin {"granting", "settling"} /\ work' = [work EXCEPT ![w] = job]
  BY IdleAskers
<1> HIDE DEF job
<1> QED BY <1>1, AskerQuiet

LEMMA StepBegins ==
  ASSUME AllowanceInv, NEW w \in Workers, NEW scope, NEW u \in Payees, NEW k \in Keys, NEW a \in Sums, NEW r,
         Begins(w, scope, u, k, a, r)
  PROVE  AllowanceInv'
<1> DEFINE job == [op |-> "granting", scope |-> scope, user |-> u, key |-> k, amount |-> a, role |-> r]
<1>1. job.op = "granting" /\ job.user \in Payees /\ job.key \in Keys /\ job.amount \in Sums
  OBVIOUS
<1>2. work' = [work EXCEPT ![w] = job] /\ UNCHANGED <<funds, granted, rejudged>>
  BY DEF Begins, Starts
<1> HIDE DEF job
<1> QED BY <1>1, <1>2, AskerQuiet

LEMMA StepCreates == ASSUME AllowanceInv, NEW w \in Workers, Creates(w) PROVE AllowanceInv'
<1> DEFINE j == work[w]
           r == Role(j.user, j.role)
           job == [work[w] EXCEPT !.op = "answering"]
<1>1. Doing(w, "granting") /\ rejudged' = rejudged
  BY DEF Creates
<1>2. j.user \in Payees /\ j.key \in Keys /\ j.amount \in Sums
  BY <1>1 DEF AllowanceInv, AllowanceWork
<1>3. job.op \notin {"granting", "settling"}
  <2>1. "op" \in DOMAIN work[w] => job.op = "answering"
    OBVIOUS
  <2>2. "op" \notin DOMAIN work[w] => job.op = job.op
    OBVIOUS
  <2> QED BY <1>1, <2>1 DEF Doing
<1>4. \/ work' = [work EXCEPT ![w] = job] /\ UNCHANGED <<funds, granted>>
      \/ /\ Replay(j.user, j.key) = {} /\ Allowed(j.user, j.amount, r)
         /\ Holds(j.user, j.key, j.amount, r, "pending_batch")
         /\ work' = [work EXCEPT ![w] = job]
      \/ work' = [work EXCEPT ![w] = Idle] /\ UNCHANGED <<funds, granted>>
  BY DEF Creates, Starts, Ends
<1> HIDE DEF job
<1>5. CASE work' = [work EXCEPT ![w] = job] /\ UNCHANGED <<funds, granted>>
  BY <1>1, <1>3, <1>5, AskerQuiet
<1>6. CASE /\ Replay(j.user, j.key) = {} /\ Allowed(j.user, j.amount, r)
           /\ Holds(j.user, j.key, j.amount, r, "pending_batch")
           /\ work' = [work EXCEPT ![w] = job]
  <2> HIDE DEF r
  <2>1. r \in {"business_owner", "driver", "referral"} /\ Passes(j.user, j.amount, r)
    BY <1>6 DEF Allowed, OwnerPasses, DriverPasses
  <2>2. DOMAIN work' = Workers /\ work' = [v \in Workers |-> work'[v]]
    BY <1>6 DEF AllowanceInv, AllowanceTypes
  <2>3. (\A i \in Slots : granted[i] # None => granted'[i] # None) => AllowanceWork'
    BY <1>3, <1>6, AskerTurns
  <2> DEFINE u == j.user
             k == j.key
             a == j.amount
             status == "pending_batch"
  <2>4. /\ u \in Payees /\ k \in Keys /\ a \in Sums /\ status \in {"pending_batch", "processing"}
        /\ Replay(u, k) = {} /\ Passes(u, a, r) /\ Holds(u, k, a, r, status)
    BY <1>2, <1>6, <2>1
  <2> HIDE DEF u, k, a, status
  <2> QED BY <1>1, <2>1, <2>2, <2>3, <2>4, HoldsKeep
<1>7. CASE work' = [work EXCEPT ![w] = Idle] /\ UNCHANGED <<funds, granted>>
  BY <1>1, <1>7, AskerFrees
<1> QED BY <1>4, <1>5, <1>6, <1>7

LEMMA StepDriverAsks ==
  ASSUME AllowanceInv, NEW u \in Payees, NEW k \in Keys, NEW a \in Sums, DriverAsks(u, k, a)
  PROVE  AllowanceInv'
<1>1. /\ Replay(u, k) = {} /\ Passes(u, a, "driver") /\ Holds(u, k, a, "driver", "processing")
      /\ rejudged' = rejudged /\ work' = work
  BY DEF DriverAsks, DriverPasses
<1>2. DOMAIN work' = Workers /\ work' = [v \in Workers |-> work'[v]]
  BY <1>1 DEF AllowanceInv, AllowanceTypes
<1>3. (\A i \in Slots : granted[i] # None => granted'[i] # None) => AllowanceWork'
  BY <1>1 DEF AllowanceInv, AllowanceWork, Doing
<1> QED BY <1>1, <1>2, <1>3, HoldsKeep

LEMMA StepLoads ==
  ASSUME AllowanceInv, NEW w \in Workers, NEW i \in Slots, NEW verdict, Loads(w, i, verdict)
  PROVE  AllowanceInv'
<1> DEFINE job == [op |-> "settling", slot |-> i, saw |-> granted[i].status, verdict |-> verdict]
<1>1. job.op = "settling" /\ job.slot = i /\ granted[i] # None
  BY DEF Loads
<1>2. work' = [work EXCEPT ![w] = job] /\ UNCHANGED <<funds, granted, rejudged>>
  BY DEF Loads, Starts, AllowanceVars
<1> HIDE DEF job
<1> QED BY <1>1, <1>2, AskerQuiet

-----------------------------------------------------------------------------
\* Rows that stay those of the same user, under the same key.
LEMMA RowsStay ==
  ASSUME AllowanceInv, NEW h \in Tables,
         \A x \in Slots : /\ h[x] = None <=> granted[x] = None
                          /\ granted[x] # None => h[x].user = granted[x].user /\ h[x].key = granted[x].key
  PROVE  /\ granted' = h => KeysStand'
         /\ \A u : OwnIn(h, u) = OwnIn(granted, u)
<1>1. granted' = h => KeysStand'
  BY DEF AllowanceInv, KeysStand
<1>2. \A u : OwnIn(h, u) = OwnIn(granted, u)
  BY DEF OwnIn
<1> QED BY <1>1, <1>2

\* A verdict is written on the row that was loaded, and on no other.
Judgement(row, status, completed) == [row EXCEPT !.status = status, !.completed = completed]
SavedAs(i, row) ==
  /\ i \in Slots /\ granted[i] # None /\ granted[i].user \in Payees
  /\ granted \in Tables /\ granted' \in Tables
  /\ \A x \in Slots : x # i => granted'[x] = granted[x]
  /\ granted'[i] = row /\ row \in GrantRows
  /\ \A u : OwnIn(granted', u) = OwnIn(granted, u)
  /\ DOMAIN work' = Workers /\ work' = [v \in Workers |-> work'[v]]
  /\ AllowanceWork' /\ KeysStand'

LEMMA VerdictWritten ==
  ASSUME AllowanceInv, NEW w \in Workers, NEW verdict,
         NEW status \in {"processing", "complete", "failed"}, NEW completed \in {"never", "lately", "before"},
         Judged(w, verdict, status, completed)
  PROVE  SavedAs(work[w].slot, Judgement(granted[work[w].slot], status, completed))
<1> DEFINE i == work[w].slot
           row == Judgement(granted[i], status, completed)
<1>1. i \in Slots /\ granted[i] # None /\ granted \in Tables
  BY DEF Judged, AllowanceInv, AllowanceWork, AllowanceTypes
<1>2. granted[i] \in GrantRows
  BY <1>1, AmountsAreNat
<1>3. /\ row \in GrantRows /\ row.user = granted[i].user /\ row.key = granted[i].key
      /\ granted[i].user \in Payees
  BY <1>2 DEF GrantRows, Judgement
<1>4. row # None
  BY <1>3, AllowanceAssumption
<1>5. granted' = [granted EXCEPT ![i] = row]
  BY DEF Judged, Judgement
<1> HIDE DEF row
<1>6. granted' \in Tables /\ granted'[i] = row /\ \A x \in Slots : x # i => granted'[x] = granted[x]
  BY <1>1, <1>3, <1>5 DEF Tables
<1> HIDE DEF i
<1>7. \A x \in Slots : /\ granted'[x] = None <=> granted[x] = None
                       /\ granted[x] # None =>
                            granted'[x].user = granted[x].user /\ granted'[x].key = granted[x].key
  BY <1>1, <1>3, <1>4, <1>6
<1> DEFINE job == Idle
<1>8. job.op \notin {"granting", "settling"} /\ work' = [work EXCEPT ![w] = job]
  BY IdleAskers DEF Judged, Ends
<1> HIDE DEF job
<1>9. DOMAIN work' = Workers /\ work' = [v \in Workers |-> work'[v]] /\ AllowanceWork'
  BY <1>7, <1>8, AskerTurns
<1>10. KeysStand' /\ \A u : OwnIn(granted', u) = OwnIn(granted, u)
  BY <1>6, <1>7, RowsStay
<1> QED BY <1>1, <1>3, <1>6, <1>9, <1>10 DEF SavedAs, row, i

\* Whoever the verdict is not about keeps what was there.
LEMMA OthersStay ==
  ASSUME NEW g \in Tables, NEW h \in Tables, NEW f, NEW e, NEW u \in Payees, NEW i \in Slots,
         g[i] # None, g[i].user # u, OwnIn(h, u) = OwnIn(g, u), e[u] = f[u],
         \A x \in Slots : x # i => h[x] = g[x], WithinLimits(g, u), Balanced(g, f, u)
  PROVE  WithinLimits(h, u) /\ Balanced(h, e, u)
<1>1. \A x \in OwnIn(g, u) : h[x] = g[x]
  BY DEF OwnIn
<1>2. /\ WorthIn(h, UnfailedIn(h, u)) = WorthIn(g, UnfailedIn(g, u))
      /\ TodayIn(h, u) = TodayIn(g, u)
      /\ WorthIn(h, TodayIn(h, u)) = WorthIn(g, TodayIn(g, u))
  BY <1>1, UserStays
<1> QED BY <1>2 DEF WithinLimits, Balanced

LEMMA StepSentOrPaid ==
  ASSUME AllowanceInv, NEW w \in Workers, NEW verdict \in {"sent", "paid"},
         NEW status \in {"processing", "complete"}, NEW completed \in {"never", "lately", "before"},
         verdict = "sent" <=> status = "processing",
         Judged(w, verdict, status, completed), funds' = funds
  PROVE  AllowanceInv'
<1> DEFINE i == work[w].slot
           row == Judgement(granted[i], status, completed)
<1>1. /\ i \in Slots /\ granted[i] # None /\ granted[i].user \in Payees
      /\ granted \in Tables /\ granted' \in Tables
      /\ \A x \in Slots : x # i => granted'[x] = granted[x]
      /\ granted'[i] = row /\ row \in GrantRows
      /\ \A u : OwnIn(granted', u) = OwnIn(granted, u)
      /\ DOMAIN work' = Workers /\ work' = [v \in Workers |-> work'[v]]
      /\ AllowanceWork' /\ KeysStand'
  <2>1. status \in {"processing", "complete", "failed"}
    OBVIOUS
  <2>2. SavedAs(i, row)
    BY <2>1, VerdictWritten
  <2> HIDE DEF i, row
  <2> QED BY <2>2 DEF SavedAs
<1>2. granted[i] \in GrantRows
  BY <1>1, AmountsAreNat
<1>3. row.amount = granted[i].amount /\ row.today = granted[i].today /\ row.status = status
  BY <1>2 DEF GrantRows, Judgement
<1>4. \/ granted[i].user \in rejudged'
      \/ i \in LiveIn(granted, granted[i].user) \/ granted[i].status = "complete"
  BY RulesLookAt DEF Judged
<1>5. rejudged \subseteq rejudged'
  BY DEF Judged
<1> HIDE DEF i, row
<1>6. ASSUME NEW u \in Payees \ rejudged'
      PROVE  WithinLimits(granted', u) /\ Balanced(granted', funds', u)
  <2>1. WithinLimits(granted, u) /\ Balanced(granted, funds, u)
    BY <1>5 DEF AllowanceInv, FundsKept
  <2>2. CASE granted[i].user # u
    BY <1>1, <2>1, <2>2, OthersStay
  <2>3. CASE granted[i].user = u
    <3>1. granted[i].status # "failed"
      BY <1>4, <1>6, <2>3 DEF LiveIn
    <3>2. \A x \in OwnIn(granted, u) : /\ granted'[x].amount = granted[x].amount
                                       /\ granted'[x].today = granted[x].today
                                       /\ granted'[x].status = "failed" <=> granted[x].status = "failed"
      BY <1>1, <1>3, <3>1 DEF OwnIn
    <3>3. /\ WorthIn(granted', UnfailedIn(granted', u)) = WorthIn(granted, UnfailedIn(granted, u))
          /\ TodayIn(granted', u) = TodayIn(granted, u)
          /\ WorthIn(granted', TodayIn(granted', u)) = WorthIn(granted, TodayIn(granted, u))
      BY <1>1, <3>2, UserStays
    <3> QED BY <2>1, <3>3 DEF WithinLimits, Balanced
  <2> QED BY <2>2, <2>3
<1>7. AllowanceTypes'
  BY <1>1 DEF AllowanceInv, AllowanceTypes
<1> QED BY <1>1, <1>6, <1>7 DEF AllowanceInv, FundsKept

LEMMA StepFailed == ASSUME AllowanceInv, NEW w \in Workers, Failed(w) PROVE AllowanceInv'
<1> DEFINE i == work[w].slot
           old == granted[i]
           row == Judgement(old, "failed", old.completed)
<1>1. Judged(w, "failed", "failed", old.completed)
  BY DEF Failed
<1>2. i \in Slots /\ granted[i] # None /\ granted \in Tables
  BY <1>1 DEF Judged, AllowanceInv, AllowanceWork, AllowanceTypes
<1>3. old \in GrantRows /\ old.amount \in Nat
  BY <1>2, AmountsAreNat
<1>4. /\ old.completed \in {"never", "lately", "before"} /\ old.user \in Payees
      /\ row.user = old.user /\ row.status = "failed"
  BY <1>3 DEF GrantRows, Judgement
<1>5. /\ granted' \in Tables
      /\ \A x \in Slots : x # i => granted'[x] = granted[x]
      /\ granted'[i] = row /\ row \in GrantRows
      /\ \A u : OwnIn(granted', u) = OwnIn(granted, u)
      /\ DOMAIN work' = Workers /\ work' = [v \in Workers |-> work'[v]]
      /\ AllowanceWork' /\ KeysStand'
  <2>1. SavedAs(i, row)
    BY <1>1, <1>4, VerdictWritten
  <2> HIDE DEF i, row
  <2> QED BY <2>1 DEF SavedAs
<1>6. funds \in [Payees -> Int] /\ funds' = [funds EXCEPT ![old.user] = @ + old.amount]
  BY DEF Failed, AllowanceInv, AllowanceTypes
<1>7. \/ old.user \in rejudged' \/ i \in LiveIn(granted, old.user)
  BY <1>1, RulesLookAt DEF Judged
<1>8. rejudged \subseteq rejudged'
  BY <1>1 DEF Judged
<1> HIDE DEF row
<1>9. row # None
  BY <1>5, AllowanceAssumption
<1> HIDE DEF i
<1>10. ASSUME NEW u \in Payees \ rejudged'
       PROVE  WithinLimits(granted', u) /\ Balanced(granted', funds', u)
  <2>1. WithinLimits(granted, u) /\ Balanced(granted, funds, u)
    BY <1>8 DEF AllowanceInv, FundsKept
  <2>2. CASE granted[i].user # u
    <3>1. funds'[u] = funds[u]
      BY <1>4, <1>6, <2>2
    <3> QED BY <1>2, <1>5, <2>1, <2>2, <3>1, OthersStay
  <2>3. CASE granted[i].user = u
    <3>1. i \in UnfailedIn(granted, u)
      BY <1>7, <1>10, <2>3 DEF LiveIn, UnfailedIn
    <3>2. granted'[i] # None /\ granted'[i].user = u /\ granted'[i].status = "failed"
      BY <1>4, <1>5, <1>9, <2>3
    <3>3. WithinLimits(granted', u) /\ Balanced(granted', [funds EXCEPT ![u] = @ + granted[i].amount], u)
      BY <1>2, <1>5, <1>6, <2>1, <3>1, <3>2, UserFails
    <3> QED BY <1>6, <2>3, <3>3
  <2> QED BY <2>2, <2>3
<1>11. funds' \in [Payees -> Int]
  BY <1>3, <1>4, <1>6
<1>12. AllowanceTypes'
  BY <1>5, <1>11 DEF AllowanceTypes
<1> QED BY <1>5, <1>10, <1>12 DEF AllowanceInv, FundsKept

LEMMA StepSettles == ASSUME AllowanceInv, NEW w \in Workers, Settles(w) PROVE AllowanceInv'
<1>1. ASSUME Sent(w) PROVE AllowanceInv'
  <2> DEFINE c == granted[work[w].slot].completed
  <2>1. Judged(w, "sent", "processing", c) /\ funds' = funds
    BY <1>1 DEF Sent
  <2>2. work[w].slot \in Slots /\ granted[work[w].slot] # None /\ granted \in Tables
    BY <2>1 DEF Judged, AllowanceInv, AllowanceWork, AllowanceTypes
  <2>3. c \in {"never", "lately", "before"}
    BY <2>2, AmountsAreNat DEF GrantRows
  <2> HIDE DEF c
  <2> QED BY <2>1, <2>3, StepSentOrPaid
<1>2. ASSUME Paid(w) PROVE AllowanceInv'
  <2>1. Judged(w, "paid", "complete", "lately") /\ funds' = funds
    BY <1>2 DEF Paid
  <2> QED BY <2>1, StepSentOrPaid
<1> QED BY <1>1, <1>2, StepFailed DEF Settles

-----------------------------------------------------------------------------
\* Time passes over all the rows.
LEMMA TimePasses ==
  ASSUME AllowanceInv, UNCHANGED <<work, funds, rejudged>>, granted' \in Tables,
         \A x \in Slots : /\ granted'[x] = None <=> granted[x] = None
                          /\ granted[x] # None =>
                               /\ granted'[x].user = granted[x].user /\ granted'[x].key = granted[x].key
                               /\ granted'[x].amount = granted[x].amount
                               /\ granted'[x].status = granted[x].status,
         \/ \A x \in Slots : granted[x] # None => granted'[x].today = granted[x].today
         \/ \A x \in Slots : granted[x] # None => granted'[x].today = FALSE
  PROVE  AllowanceInv'
<1>1. granted \in Tables
  BY DEF AllowanceInv, AllowanceTypes
<1>2. KeysStand' /\ \A u : OwnIn(granted', u) = OwnIn(granted, u)
  BY RowsStay
<1>3. AllowanceTypes' /\ AllowanceWork'
  BY DEF AllowanceInv, AllowanceTypes, AllowanceWork, Doing
<1>4. ASSUME NEW u \in Payees \ rejudged
      PROVE  WithinLimits(granted', u) /\ Balanced(granted', funds, u)
  <2>1. WithinLimits(granted, u) /\ Balanced(granted, funds, u)
    BY DEF AllowanceInv, FundsKept
  <2>2. \A x \in OwnIn(granted, u) : /\ granted'[x].amount = granted[x].amount
                                     /\ granted'[x].status = "failed" <=> granted[x].status = "failed"
    BY DEF OwnIn
  <2>3. /\ WorthIn(granted', UnfailedIn(granted', u)) = WorthIn(granted, UnfailedIn(granted, u))
        /\ (\A x \in OwnIn(granted, u) : granted'[x].today = granted[x].today) =>
              /\ TodayIn(granted', u) = TodayIn(granted, u)
              /\ WorthIn(granted', TodayIn(granted', u)) = WorthIn(granted, TodayIn(granted, u))
    BY <1>1, <1>2, <2>2, UserStays
  <2>4. CASE \A x \in Slots : granted[x] # None => granted'[x].today = granted[x].today
    <3>1. \A x \in OwnIn(granted, u) : granted'[x].today = granted[x].today
      BY <2>4 DEF OwnIn
    <3> QED BY <2>1, <2>3, <3>1 DEF WithinLimits, Balanced
  <2>5. CASE \A x \in Slots : granted[x] # None => granted'[x].today = FALSE
    <3>1. \A x \in OwnIn(granted', u) : granted'[x].today = FALSE
      BY <1>2, <2>5 DEF OwnIn
    <3>2. WithinLimits(granted', u)
      BY <3>1, UserAtMidnight
    <3> QED BY <2>1, <2>3, <3>2 DEF Balanced
  <2> QED BY <2>4, <2>5
<1> QED BY <1>2, <1>3, <1>4 DEF AllowanceInv, FundsKept

LEMMA StepHoursPass == AllowanceInv /\ HoursPass => AllowanceInv'
<1> SUFFICES ASSUME AllowanceInv, HoursPass PROVE AllowanceInv'
  OBVIOUS
<1> DEFINE After(row) == [row EXCEPT !.completed = IF @ = "lately" THEN "before" ELSE @]
<1>1. granted \in Tables /\ UNCHANGED <<work, funds, rejudged>>
  BY DEF AllowanceInv, AllowanceTypes, HoursPass
<1>2. granted' = [x \in Slots |-> IF granted[x] = None THEN None ELSE After(granted[x])]
  BY DEF HoursPass, EachRow
<1>3. ASSUME NEW row \in GrantRows
      PROVE  /\ After(row) \in GrantRows /\ After(row).user = row.user /\ After(row).key = row.key
             /\ After(row).amount = row.amount /\ After(row).status = row.status
             /\ After(row).today = row.today
  BY DEF GrantRows
<1> HIDE DEF After
<1>4. \A x \in Slots : granted[x] # None => granted[x] \in GrantRows /\ granted'[x] = After(granted[x])
  BY <1>1, <1>2 DEF Tables
<1>5. \A x \in Slots : granted[x] = None => granted'[x] = None
  BY <1>2
<1>6. granted' \in Tables
  BY <1>2, <1>3, <1>4, <1>5 DEF Tables
<1>7. None \notin GrantRows
  BY AllowanceAssumption
<1>8. \A x \in Slots : granted'[x] = None <=> granted[x] = None
  <2>1. \A x \in Slots : granted[x] # None => granted'[x] \in GrantRows
    BY <1>3, <1>4, Zenon
  <2> QED BY <1>5, <1>7, <2>1
<1>11. \A x \in Slots : granted[x] # None =>
         /\ granted'[x].user = granted[x].user /\ granted'[x].key = granted[x].key
         /\ granted'[x].amount = granted[x].amount /\ granted'[x].status = granted[x].status
  <2> SUFFICES ASSUME NEW x \in Slots, granted[x] # None
               PROVE  /\ granted'[x].user = granted[x].user /\ granted'[x].key = granted[x].key
                      /\ granted'[x].amount = granted[x].amount
                      /\ granted'[x].status = granted[x].status
    OBVIOUS
  <2>1. granted[x] \in GrantRows /\ granted'[x] = After(granted[x])
    BY <1>4
  <2>2. /\ After(granted[x]).user = granted[x].user /\ After(granted[x]).key = granted[x].key
        /\ After(granted[x]).amount = granted[x].amount
        /\ After(granted[x]).status = granted[x].status
    BY <1>3, <2>1, Zenon
  <2> QED BY <2>1, <2>2
<1>9. \A x \in Slots : granted[x] # None => granted'[x].today = granted[x].today
  BY <1>3, <1>4, Zenon
<1> QED BY <1>1, <1>6, <1>8, <1>9, <1>11, TimePasses

LEMMA StepMidnight == AllowanceInv /\ Midnight => AllowanceInv'
<1> SUFFICES ASSUME AllowanceInv, Midnight PROVE AllowanceInv'
  OBVIOUS
<1> DEFINE After(row) == [row EXCEPT !.today = FALSE]
<1>1. granted \in Tables /\ UNCHANGED <<work, funds, rejudged>>
  BY DEF AllowanceInv, AllowanceTypes, Midnight
<1>2. granted' = [x \in Slots |-> IF granted[x] = None THEN None ELSE After(granted[x])]
  BY DEF Midnight, EachRow
<1>3. ASSUME NEW row \in GrantRows
      PROVE  /\ After(row) \in GrantRows /\ After(row).user = row.user /\ After(row).key = row.key
             /\ After(row).amount = row.amount /\ After(row).status = row.status
             /\ After(row).today = FALSE
  BY DEF GrantRows
<1>10. \A row \in GrantRows : After(row).today = FALSE
  BY <1>3
<1> HIDE DEF After
<1>4. \A x \in Slots : granted[x] # None => granted[x] \in GrantRows /\ granted'[x] = After(granted[x])
  BY <1>1, <1>2 DEF Tables
<1>5. \A x \in Slots : granted[x] = None => granted'[x] = None
  BY <1>2
<1>6. granted' \in Tables
  BY <1>2, <1>3, <1>4, <1>5 DEF Tables
<1>7. None \notin GrantRows
  BY AllowanceAssumption
<1>8. \A x \in Slots : granted'[x] = None <=> granted[x] = None
  <2>1. \A x \in Slots : granted[x] # None => granted'[x] \in GrantRows
    BY <1>3, <1>4, Zenon
  <2> QED BY <1>5, <1>7, <2>1
<1>11. \A x \in Slots : granted[x] # None =>
         /\ granted'[x].user = granted[x].user /\ granted'[x].key = granted[x].key
         /\ granted'[x].amount = granted[x].amount /\ granted'[x].status = granted[x].status
  <2> SUFFICES ASSUME NEW x \in Slots, granted[x] # None
               PROVE  /\ granted'[x].user = granted[x].user /\ granted'[x].key = granted[x].key
                      /\ granted'[x].amount = granted[x].amount
                      /\ granted'[x].status = granted[x].status
    OBVIOUS
  <2>1. granted[x] \in GrantRows /\ granted'[x] = After(granted[x])
    BY <1>4
  <2>2. /\ After(granted[x]).user = granted[x].user /\ After(granted[x]).key = granted[x].key
        /\ After(granted[x]).amount = granted[x].amount
        /\ After(granted[x]).status = granted[x].status
    BY <1>3, <2>1, Zenon
  <2> QED BY <2>1, <2>2
<1>9. \A x \in Slots : granted[x] # None => granted'[x].today = FALSE
  BY <1>4, <1>10, Zenon
<1> QED BY <1>1, <1>6, <1>8, <1>9, <1>11, TimePasses

-----------------------------------------------------------------------------
LEMMA NextAllowance == AllowanceInv /\ [AllowanceNext]_AllowanceState => AllowanceInv'
<1> SUFFICES ASSUME AllowanceInv, [AllowanceNext]_AllowanceState PROVE AllowanceInv'
  OBVIOUS
<1>1. ASSUME NEW w \in Workers, NEW u \in Payees, NEW k \in Keys, NEW a \in Sums, BusinessAsks(w, u, k, a)
      PROVE  AllowanceInv'
  BY <1>1, StepBegins DEF BusinessAsks
<1>2. ASSUME NEW w \in Workers, NEW u \in Payees, NEW k \in Keys, NEW a \in Sums,
             NEW r \in PayoutRoles \cup {None}, WalletAsks(w, u, k, a, r)
      PROVE  AllowanceInv'
  BY <1>2, StepBegins DEF WalletAsks
<1>3. ASSUME NEW w \in Workers, AnswerSaved(w) PROVE AllowanceInv'
  <2>1. work' = [work EXCEPT ![w] = Idle] /\ UNCHANGED <<funds, granted, rejudged>>
    BY <1>3 DEF AnswerSaved, Ends
  <2> QED BY <2>1, AskerFrees
<1>4. ASSUME NEW u \in Payees, PinSaved(u) PROVE AllowanceInv'
  BY <1>4, AskerStays DEF PinSaved
<1>5. ASSUME NEW u \in Payees, NEW h \in Hurdles, HurdleChanges(u, h) PROVE AllowanceInv'
  BY <1>5, AskerStays DEF HurdleChanges
<1>6. ASSUME NEW w \in Workers, NEW i \in Slots,
             AdminRetries(w, i) \/ AdminMarksPaid(w, i) \/ AdminMarksFailed(w, i)
      PROVE  AllowanceInv'
  BY <1>6, StepLoads DEF AdminRetries, AdminMarksPaid, AdminMarksFailed
<1>7. ASSUME NEW w \in Workers, AskerDies(w) PROVE AllowanceInv'
  <2>1. work' = [work EXCEPT ![w] = Idle] /\ UNCHANGED <<funds, granted, rejudged>>
    BY <1>7 DEF AskerDies, Dies, Ends, AllowanceVars
  <2> QED BY <2>1, AskerFrees
<1>8. ASSUME UNCHANGED AllowanceState PROVE AllowanceInv'
  BY <1>8, AskerStays DEF AllowanceState, AllowanceVars
<1>9. ASSUME AskingNext(Keys) PROVE AllowanceInv'
  BY <1>9, <1>1, <1>2, <1>3, <1>4, <1>5, StepCreates DEF AskingNext
<1>10. ASSUME DrawingNext(Keys, Sums) PROVE AllowanceInv'
  BY <1>10, StepDriverAsks DEF DrawingNext
<1>11. ASSUME SettlingNext PROVE AllowanceInv'
  BY <1>11, <1>6, <1>7, StepSettles, StepHoursPass, StepMidnight DEF SettlingNext
<1> QED BY <1>8, <1>9, <1>10, <1>11 DEF AllowanceNext

LEMMA AllowanceFromInv == AllowanceInv => AllowanceKept
<1> SUFFICES ASSUME AllowanceInv PROVE AllowanceKept
  OBVIOUS
<1>1. ASSUME NEW u \in Payees \ rejudged
      PROVE  /\ Cardinality(Today(u)) <= DailyCount /\ Worth(Today(u)) <= DailyTotal
             /\ funds[u] + Worth(Unfailed(u)) = Earnings[u] /\ funds[u] >= 0
  BY RulesLookAt DEF AllowanceInv, FundsKept, WithinLimits, Balanced
<1>2. ASSUME NEW u \in Payees, NEW k \in Keys PROVE Cardinality(Replay(u, k)) <= 1
  <2>1. Cardinality({}) = 0 /\ \A x : Cardinality({x}) = 1
    BY FS_EmptySet, FS_Singleton
  <2>2. \A i, j \in Replay(u, k) : i = j
    BY DEF Replay, Of, AllowanceInv, KeysStand
  <2>3. Replay(u, k) = {} \/ \E x : Replay(u, k) = {x}
    BY <2>2
  <2> QED BY <2>1, <2>3
<1>3. ASSUME NEW u \in Payees, NEW r \in PayoutRoles, Allowed(u, LeastSum[r], r) PROVE CanWithdraw(u, r)
  <2>1. funds[u] - Worth(Live(u)) >= LeastSum[r]
    BY <1>3 DEF Allowed, OwnerPasses, DriverPasses, Passes
  <2>2. granted \in Tables /\ LiveIn(granted, u) \subseteq Slots /\ \A i \in LiveIn(granted, u) : granted[i] # None
    BY DEF AllowanceInv, AllowanceTypes, LiveIn, OwnIn
  <2>3. WorthIn(granted, LiveIn(granted, u)) \in Nat
    BY <2>2, WorthType
  <2>4. funds[u] \in Int /\ LeastSum[r] \in Nat
    BY AllowanceAssumption DEF AllowanceInv, AllowanceTypes
  <2> QED BY <2>1, <2>3, <2>4, RulesLookAt DEF CanWithdraw
<1> QED BY <1>1, <1>2, <1>3 DEF AllowanceKept

\* Whatever requests, retries, verdicts and hours come in whatever order,
\* unless a withdrawal that was settled is written again, a user stays within
\* the limits of the day and the funds, and a key stands for one withdrawal
\* (payments/payouts/services.py, payments/eligibility/base.py).
THEOREM AllowanceHolds == AllowanceSpec => []AllowanceKept
<1>1. RequestsInit /\ AllowanceInit => AllowanceInv
  BY InitAllowance
<1>2. AllowanceInv /\ [AllowanceNext]_AllowanceState => AllowanceInv'
  BY NextAllowance
<1>3. AllowanceInv => AllowanceKept
  BY AllowanceFromInv
<1> QED BY <1>1, <1>2, <1>3, PTL DEF AllowanceSpec
=============================================================================
